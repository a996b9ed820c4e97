------------------------------ MODULE ScanPlan ------------------------------
(***************************************************************************)
(* How a record read turns watermarks and a cursor into the offsets it     *)
(* reads, and the records it kept into the next cursor                     *)
(* (kafka/scan/plan.rs, cursor.rs, batch.rs).                              *)
(*                                                                         *)
(* marks is the watermarks by partition, only of the partitions Kafka      *)
(* answered for. A window is a range start..end-1 of offsets. A cursor has *)
(* the order of the page, the way it walks the log, and how far it got in  *)
(* each partition: Remaining::From(at) walking up from the oldest record,  *)
(* Remaining::Before(at) walking down from the newest.                     *)
(***************************************************************************)
EXTENDS Integers, FiniteSets, FiniteSetsExt

Orders == {"newest", "oldest"}

\* The absence of a cursor.
NoCursor == [order |-> "none"]

Flipped(walk) == IF walk = "newest" THEN "oldest" ELSE "newest"

AtMost(a, b) == IF a < b THEN a ELSE b
AtLeast(a, b) == IF a > b THEN a ELSE b

EndingAt(m, take, at) ==
    LET end == AtLeast(AtMost(at, m.high), m.low)
    IN  [start |-> end - AtMost(take, end - m.low), end |-> end]

StartingAt(m, take, at) ==
    LET start == AtMost(AtLeast(at, m.low), m.high)
    IN  [start |-> start, end |-> start + AtMost(take, m.high - start)]

\* LogSpan::start: the near end of every partition of the span.
Start(marks, walk) ==
    [p \in DOMAIN marks |-> IF walk = "oldest" THEN marks[p].low ELSE marks[p].high]

WindowOf(marks, walk, take, at, p) ==
    IF walk = "newest" THEN EndingAt(marks[p], take, at[p])
    ELSE StartingAt(marks[p], take, at[p])

\* LogSpan::windows, of the partitions with something left to read. A first read
\* starts at the near end; a partition the cursor does not name is not read.
Windows(marks, order, take, cursor) ==
    LET walk == IF cursor = NoCursor THEN order ELSE cursor.walk
        at == IF cursor = NoCursor THEN Start(marks, order) ELSE cursor.at
        left == {p \in DOMAIN marks \cap DOMAIN at :
                    LET w == WindowOf(marks, walk, take, at, p) IN w.start < w.end}
    IN  [p \in left |-> WindowOf(marks, walk, take, at, p)]

\* Mutant: off by one, the last record of a partition does not count.
UnreadShort(m, walk, at) ==
    IF walk = "oldest" THEN AtLeast(at, m.low) + 1 < m.high
    ELSE AtMost(at, m.high) - 1 > m.low

\* A partition has offsets left past `at`.
Unread(m, walk, at) ==
    IF walk = "oldest" THEN AtLeast(at, m.low) < m.high
    ELSE AtMost(at, m.high) > m.low

\* LogSpan::cursor: no cursor when nothing is left to read. A partition without
\* watermarks falls out of the cursor.
Cursor(marks, order, walk, at) ==
    LET kept == DOMAIN at \cap DOMAIN marks
    IN  IF \E p \in kept : Unread(marks[p], walk, at[p])
        THEN [order |-> order, walk |-> walk, at |-> [p \in kept |-> at[p]]]
        ELSE NoCursor

\* Mutant: the last record kept is read again.
PastFurthestAgain(walk, offsets) ==
    IF walk = "oldest" THEN Max(offsets) ELSE Min(offsets) + 1

\* past_furthest: the offset past the last kept record of a partition.
PastFurthest(walk, offsets) ==
    IF walk = "oldest" THEN Max(offsets) + 1 ELSE Min(offsets)

\* LogSpan::advance. kept is a set of records [p, o].
Advance(marks, from, covered, kept, limit) ==
    LET Kept(p) == {r.o : r \in {k \in kept : k.p = p}}
        Near(w) == IF from.walk = "oldest" THEN w.start ELSE w.end
        Far(w) == IF from.walk = "oldest" THEN w.end ELSE w.start
        Next(p) == CASE Cardinality(kept) < limit -> Far(covered[p])
                     [] Cardinality(kept) >= limit /\ Kept(p) # {} ->
                           PastFurthest(from.walk, Kept(p))
                     [] OTHER -> Near(covered[p])
        at == [p \in DOMAIN from.at \cup DOMAIN covered |->
                  IF p \in DOMAIN covered THEN Next(p) ELSE from.at[p]]
    IN  Cursor(marks, from.order, from.walk, at)

\* Mutant: the record at the boundary goes both ways.
RewindOverlaps(marks, opened) ==
    Cursor(marks, opened.order, Flipped(opened.walk),
           [p \in DOMAIN marks |->
               IF p \notin DOMAIN opened.at
               THEN IF opened.walk = "oldest" THEN marks[p].high ELSE marks[p].low
               ELSE IF opened.walk = "oldest" THEN opened.at[p] + 1
               ELSE opened.at[p] - 1])

\* LogSpan::rewind: back the way the walk came, from where it opened.
Rewind(marks, opened) ==
    Cursor(marks, opened.order, Flipped(opened.walk),
           [p \in DOMAIN marks |->
               IF p \in DOMAIN opened.at THEN opened.at[p]
               ELSE IF opened.walk = "oldest" THEN marks[p].high
               ELSE marks[p].low])

------------------------------------------------------------------------------
(* RecordBatch: the best `limit` of the records pushed into it.              *)

\* SortKey::cmp_for_order is Less. A key is [ts, p, o].
Precedes(a, b, order) ==
    IF order = "newest"
    THEN \/ a.ts > b.ts
         \/ a.ts = b.ts /\ a.p < b.p
         \/ a.ts = b.ts /\ a.p = b.p /\ a.o > b.o
    ELSE \/ a.ts < b.ts
         \/ a.ts = b.ts /\ a.p < b.p
         \/ a.ts = b.ts /\ a.p = b.p /\ a.o < b.o

\* SortKey::rank: a page walked backwards keeps what is nearest to where it
\* opened, the last of its order.
Ranks(a, b, order, walk) ==
    IF walk = order THEN Precedes(a, b, order) ELSE Precedes(b, a, order)

\* RecordBatch::push: a full batch gives up its worst record for a better one.
Push(batch, key, limit, order, walk) ==
    LET worst == CHOOSE k \in batch : \A j \in batch \ {k} : Ranks(j, k, order, walk)
    IN  CASE Cardinality(batch) < limit -> batch \cup {key}
          [] Cardinality(batch) >= limit /\ limit > 0
                /\ Ranks(key, worst, order, walk) -> (batch \ {worst}) \cup {key}
          [] OTHER -> batch
=============================================================================

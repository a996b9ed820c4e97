----------------------------- MODULE RecordScan -----------------------------
(***************************************************************************)
(* Reading a topic page by page (kafka/scan/session.rs, read.rs,           *)
(* export.rs): an export, a reader who follows the cursor of one page to   *)
(* the next, or one record by its offset.                                  *)
(*                                                                         *)
(* A page makes passes over windows of the log until it is full, the span  *)
(* is read or its deadline passes; a pass polls the records of all its     *)
(* windows, in whatever order the partitions answer, and ranks them in one *)
(* batch. The deadline passes at any moment. The log is fixed: the span    *)
(* holds the offsets there were when it opened. It has gaps, as compaction *)
(* and transaction markers leave them, and its timestamps need not rise.   *)
(***************************************************************************)
EXTENDS RecordQuery

CONSTANTS
    Reads,          \* What is read: [log, params, slow], where log is
                    \* partition -> [low, high, recs], and recs is offset ->
                    \* [ts, matches] and goes on past high at times
    MaxFilterPasses,
    MarksFail       \* Kafka may fail to answer for a partition

VARIABLES
    log,            \* The log
    params,         \* The request
    query,          \* RecordQuery, but for its cursor
    slow,           \* consume_timeout may pass before a page is read
    marks,          \* LogSpan::watermarks of this page
    pc,             \* Where the read is
    opened,         \* RecordQuery::cursor of this page
    cursor,         \* The cursor the next pass continues from
    windows,        \* The windows of this pass
    remaining,      \* WindowScan::remaining: partitions still read
    position,       \* The consumer's position in each window
    newest,         \* WindowScan::newest: the latest timestamp of each window
    batch,          \* RecordBatch: ranked records of this pass
    kept,           \* Records of the earlier passes of this page
    pass,           \* Passes made
    whole,          \* PageRequest::fetch's complete
    scanned,        \* PageRequest::fetch's scanned
    late,           \* The deadline has passed
    delivered,      \* History: records returned
    repeated,       \* History: records returned more than once
    partial         \* History: records a page returned that was not complete

queryVars == <<log, params, query, slow>>
passVars == <<windows, remaining, position, newest, batch>>
pageVars == <<marks, opened, cursor, kept, pass, whole, scanned>>
historyVars == <<delivered, repeated, partial>>
vars == <<queryVars, pc, passVars, pageVars, late, historyVars>>

ASSUME ScanAssumption ==
    /\ MaxFilterPasses \in Nat \ {0} /\ MarksFail \in BOOLEAN
    /\ \A q \in Reads : /\ IsFiniteSet(DOMAIN q.log) /\ IsRequest(q.params)
                        /\ \A p \in DOMAIN q.log : p \in Nat /\ IsLog(q.log[p])

\* PageRequest::new and RecordQuery::walk, the other way for a page backwards.
order == query.order
walk == IF opened = NoCursor THEN order ELSE opened.walk
take == WindowTake(query.limit, query.searching)
maxPasses == IF query.searching THEN MaxFilterPasses ELSE 1

\* select_partitions: the ones asked for, or all of them.
Selected == IF query.partitions = {} THEN DOMAIN log ELSE query.partitions

\* window_watermarks: a partition is left out when Kafka did not answer for its
\* high; it is empty without its low, and not narrowed without an offset for an
\* instant. A reader asks for every page. An export asks once, at its first page.
Resolved(lost) ==
    [p \in Selected \ lost.high |->
        ApplyTimestampBounds(MergeWatermarks(log[p], p \in lost.low),
                             Lookups(log[p], StartSeek(query), p \in lost.from),
                             Lookups(log[p], EndSeek(query), p \in lost.to))]

\* The partitions Kafka does not answer for, in each of its lookups.
AllAnswered == [low |-> {}, high |-> {}, from |-> {}, to |-> {}]
Losses ==
    IF ~MarksFail THEN {AllAnswered}
    ELSE LET unseeked == [low : SUBSET Selected, high : SUBSET Selected, from : {{}}, to : {{}}]
         IN  {[lost EXCEPT !.from = from, !.to = to] : lost \in unseeked,
                 from \in IF query.from = {} THEN {{}} ELSE SUBSET Selected,
                 to \in IF query.to = {} THEN {{}} ELSE SUBSET Selected}

Fresh == [order |-> order, walk |-> walk, at |-> Start(marks, walk)]
From == IF cursor = NoCursor THEN Fresh ELSE cursor

Init ==
    /\ \E q \in Reads : log = q.log /\ params = q.params /\ slow = q.slow
    /\ query = <<>> /\ marks = <<>> /\ opened = NoCursor /\ cursor = NoCursor
    /\ pc = "ask"
    /\ windows = <<>> /\ remaining = {} /\ position = <<>> /\ newest = <<>>
    /\ batch = {} /\ kept = {} /\ pass = 0
    /\ whole = TRUE /\ scanned = FALSE /\ late = FALSE
    /\ delivered = {} /\ repeated = {} /\ partial = {}

\* The handler parses the request; resolve_span wants partitions that exist.
Ask ==
    /\ pc = "ask"
    /\ IF RefusedQuery(params) = "no" /\ params.partitions \subseteq DOMAIN log
       THEN /\ query' = IntoQuery(params)
            /\ opened' = query'.cursor /\ pc' = "open"
       ELSE pc' = "failed" /\ UNCHANGED <<query, opened>>
    /\ UNCHANGED <<log, params, slow, passVars, marks, cursor, kept, pass, whole,
                   scanned, late, historyVars>>

\* PageRequest::fetch: nothing to read is an empty page without a cursor.
OpenEmpty ==
    /\ pc = "open"
    /\ \E lost \in Losses : DOMAIN Windows(Resolved(lost), order, take, opened) = {}
    /\ pc' = IF params.kind = "record" THEN "unknown" ELSE "done"
    /\ UNCHANGED <<queryVars, passVars, pageVars, late, historyVars>>

OpenPage ==
    /\ pc = "open"
    /\ \E lost \in Losses :
           /\ marks' = Resolved(lost)
           /\ DOMAIN Windows(marks', order, take, opened) # {}
    /\ pc' = "pass"
    /\ cursor' = opened /\ kept' = {} /\ pass' = 0
    /\ whole' = TRUE /\ scanned' = FALSE /\ late' = FALSE
    /\ UNCHANGED <<queryVars, passVars, opened, historyVars>>

\* consume_timeout passes while the page is read.
DeadlinePasses ==
    /\ slow
    /\ pc \in {"pass", "scan"}
    /\ ~late
    /\ late' = TRUE
    /\ UNCHANGED <<queryVars, pc, passVars, pageVars, historyVars>>

\* ScanSession::open fails the page when the deadline passes.
OpenTimesOut ==
    /\ pc = "pass" /\ pass = 0 /\ late
    /\ pc' = "failed"
    /\ UNCHANGED <<queryVars, passVars, pageVars, late, historyVars>>

\* A pass plans its windows and points the consumer at them. With nothing left
\* to read the page ends.
StartPass ==
    /\ pc = "pass"
    /\ pass = 0 => ~late
    /\ LET planned == Windows(marks, order, take, cursor)
       IN  IF DOMAIN planned = {}
           THEN /\ pc' = "page" /\ cursor' = NoCursor
                /\ UNCHANGED passVars
           ELSE /\ pc' = "scan"
                /\ windows' = planned /\ remaining' = DOMAIN planned
                /\ position' = [p \in DOMAIN planned |-> planned[p].start]
                /\ newest' = <<>> /\ batch' = {}
                /\ UNCHANGED cursor
    /\ UNCHANGED <<queryVars, marks, opened, kept, pass, whole, scanned, late,
                   historyVars>>

Ahead(p) == {o \in DOMAIN log[p].recs : o >= position[p]}

\* Mutant: a record is ranked by its own timestamp.
RankTsRaw(p, ts) == ts

\* WindowScan::rank: no older than the records before it in its window.
RankTs(p, ts) == IF p \in DOMAIN newest THEN AtLeast(newest[p], ts) ELSE ts

\* ScanSession::ingest of one record: accept, finish, rank, filter, push. The
\* record may be past its window, which finishes the window all the same.
PollRecord(p) ==
    /\ pc = "scan" /\ ~late
    /\ p \in remaining /\ Ahead(p) # {}
    /\ LET o == Min(Ahead(p))
           rec == log[p].recs[o]
           accepted == o < windows[p].end
           ts == RankTs(p, rec.ts)
           key == [ts |-> ts, p |-> p, o |-> o]
       IN  /\ position' = [position EXCEPT ![p] = o + 1]
           /\ remaining' = IF o >= windows[p].end - 1 THEN remaining \ {p}
                           ELSE remaining
           /\ newest' = IF accepted
                        THEN [q \in DOMAIN newest \cup {p} |->
                                 IF q = p THEN ts ELSE newest[q]]
                        ELSE newest
           /\ batch' = IF accepted /\ rec.matches
                       THEN Push(batch, key, query.limit - Cardinality(kept), order, walk)
                       ELSE batch
    /\ UNCHANGED <<queryVars, pc, windows, pageVars, late, historyVars>>

\* ScanSession::settle_idle: an empty poll finishes a window once the position
\* or the lag says that nothing is left.
SettleIdle(p) ==
    /\ pc = "scan" /\ ~late
    /\ p \in remaining /\ Ahead(p) = {}
    /\ remaining' = remaining \ {p}
    /\ UNCHANGED <<queryVars, pc, windows, position, newest, batch, pageVars, late,
                   historyVars>>

\* abandoned(): an unfinished window counts as not read at all.
Abandoned(w) == IF walk = "newest" THEN [start |-> w.end, end |-> w.end]
                ELSE [start |-> w.start, end |-> w.start]

\* Mutant: a window the deadline cut counts as read.
CoveredAnyway == windows

\* WindowScan::outcome
Covered == [p \in DOMAIN windows |->
               IF p \in remaining THEN Abandoned(windows[p]) ELSE windows[p]]

Found == {[p |-> k.p, o |-> k.o] : k \in batch}

\* The pass ends: its outcome, its share of the page, the cursor after it. A page
\* that is not full goes on from there, as long as it may.
EndPass ==
    /\ pc = "scan"
    /\ remaining = {} \/ late
    /\ LET room == query.limit - Cardinality(kept)
           next == Advance(marks, From, Covered, Found, room)
           filled == Cardinality(Found) >= room
       IN  /\ cursor' = next
           /\ pass' = pass + 1
           /\ pc' = IF filled \/ next = NoCursor \/ late \/ pass + 1 = maxPasses
                    THEN "page" ELSE "pass"
    /\ kept' = kept \cup Found
    /\ batch' = {}
    /\ whole' = (whole /\ remaining = {})
    /\ scanned' = (scanned \/ remaining # DOMAIN windows)
    /\ UNCHANGED <<queryVars, marks, windows, remaining, position, newest, opened,
                   late, historyVars>>

\* The cursor of the next page, read back from the text of this one.
Followed == IF cursor = NoCursor THEN NoCursor ELSE ParsedFor(order, Token(cursor))

\* Mutant: an export that makes no progress goes on.
EndPageAgain ==
    /\ pc = "page" /\ params.kind # "record"
    /\ IF ~scanned /\ kept = {}
       THEN pc' = "failed" /\ UNCHANGED <<opened, historyVars>>
       ELSE /\ delivered' = delivered \cup kept
            /\ repeated' = repeated \cup (delivered \cap kept)
            /\ partial' = IF whole THEN partial ELSE partial \cup kept
            /\ opened' = Followed
            /\ pc' = IF cursor = NoCursor THEN "done" ELSE "open"
    /\ UNCHANGED <<queryVars, marks, passVars, cursor, kept, pass, whole, scanned,
                   late>>

\* The page is returned, or fails when it read nothing at all. Export::next stops
\* at a page that moved no cursor.
EndPage ==
    /\ pc = "page" /\ params.kind # "record"
    /\ IF ~scanned /\ kept = {}
       THEN pc' = "failed" /\ UNCHANGED <<opened, historyVars>>
       ELSE /\ delivered' = delivered \cup kept
            /\ repeated' = repeated \cup (delivered \cap kept)
            /\ partial' = IF whole THEN partial ELSE partial \cup kept
            /\ opened' = Followed
            /\ pc' = CASE Followed = NoCursor -> "done"
                       [] Followed # NoCursor /\ Followed = opened -> "failed"
                       [] OTHER -> "open"
    /\ UNCHANGED <<queryVars, marks, passVars, cursor, kept, pass, whole, scanned,
                   late>>

\* read_record: the record is found, or there is none at its offset.
EndRecord ==
    /\ pc = "page" /\ params.kind = "record"
    /\ IF ~scanned /\ kept = {}
       THEN pc' = "failed" /\ UNCHANGED delivered
       ELSE LET found == {r \in kept : r.o \in params.start}
            IN  /\ delivered' = found
                /\ pc' = IF found = {} THEN "unknown" ELSE "done"
    /\ UNCHANGED <<queryVars, passVars, pageVars, late, repeated, partial>>

Next ==
    \/ Ask \/ OpenEmpty \/ OpenPage \/ DeadlinePasses \/ OpenTimesOut
    \/ StartPass \/ EndPass \/ EndPage \/ EndRecord
    \/ \E p \in remaining : PollRecord(p) \/ SettleIdle(p)
    \/ pc \in {"done", "unknown", "failed"} /\ UNCHANGED vars

Spec == Init /\ [][Next]_vars /\ WF_vars(Next)

------------------------------------------------------------------------------
(* Properties.                                                               *)

TypeOK ==
    /\ pc \in {"ask", "open", "pass", "scan", "page", "done", "unknown", "failed"}
    /\ remaining \subseteq DOMAIN windows
    /\ repeated \subseteq delivered /\ partial \subseteq delivered
    /\ pc # "ask" => pass \in 0 .. MaxFilterPasses

\* A record the cursor has left behind.
Behind(c, r) ==
    IF c = NoCursor \/ r.p \notin DOMAIN c.at THEN TRUE
    ELSE IF c.walk = "oldest" THEN r.o < c.at[r.p]
    ELSE r.o >= c.at[r.p]

\* The matching records of the query's partitions, whatever their timestamps.
Unstamped ==
    UNION {{[p |-> p, o |-> o] : o \in
               {i \in DOMAIN log[p].recs : /\ log[p].low <= i /\ i < log[p].high
                                           /\ log[p].recs[i].matches}} : p \in Selected}

\* The timestamps of a partition up to a record, and its own.
StampsUpTo(r) ==
    {log[r.p].recs[i].ts : i \in {j \in DOMAIN log[r.p].recs : log[r.p].low <= j /\ j <= r.o}}
Stamp(r) == log[r.p].recs[r.o].ts

\* What the query reads: from the first record of a partition that is stamped at
\* or after `from`, up to the first that is stamped after `to`.
InQuery ==
    {r \in Unstamped : /\ \A from \in query.from : \E ts \in StampsUpTo(r) : ts >= from
                       /\ \A to \in query.to : \A ts \in StampsUpTo(r) : ts <= to}

\* Of some records, the ones the query's cursor has not left behind, or the one
\* that it asks for.
AskedFor(records) ==
    {r \in records : /\ query.cursor # NoCursor => ~Behind(query.cursor, r)
                     /\ params.kind = "record" => r.o \in params.start}

\* What it is to return.
Matching == AskedFor(InQuery)

\* The cursor never steps over a record the pages left out: each partition's
\* share of a page is consecutive although timestamps need not rise with the
\* offset and partitions answer in any order (WindowScan::rank, advance).
StepsOverNothing ==
    pc = "open" /\ opened # NoCursor =>
        \A r \in Matching : Behind(opened, r) => r \in delivered

\* A record comes a second time only when the page that returned it first said
\* that it was not complete; without timeouts, never. And from any page the
\* reader can go on or turn back, and the two ways share the log between them:
\* no record is on both, none is on neither (rewind).
NothingTwice ==
    /\ repeated \subseteq partial
    /\ pc = "open" /\ opened # NoCursor /\ marks # <<>> =>
          \A r \in InQuery : Behind(opened, r) = ~Behind(Rewind(marks, opened), r)

\* The record's own timestamp is in the range of instants, ends included.
Stamped(r) ==
    (\A from \in query.from : Stamp(r) >= from) /\ (\A to \in query.to : Stamp(r) <= to)

\* A read that ends without an error has returned every matching record of the
\* span it opened with that is stamped in the range it was asked for, ends
\* included, and nothing else; a record by its offset is unknown only when there
\* is none. There are two exceptions, both of a partition whose timestamps fall:
\* a record that comes after one stamped past `to` may be left out, and one that
\* is stamped before `from` is returned when it comes after one that is not. And
\* limits that make windows of no offsets read nothing.
HasEveryRecord ==
    pc \in {"done", "unknown"} /\ take > 0 =>
        /\ \A r \in AskedFor(Unstamped) :
              Stamped(r) /\ (\A to \in query.to : \A ts \in StampsUpTo(r) : ts <= to)
                 => r \in delivered
        /\ \A r \in delivered :
              /\ r \in AskedFor(Unstamped)
              /\ \/ Stamped(r)
                 \/ \E from \in query.from :
                       /\ Stamp(r) < from /\ \E ts \in StampsUpTo(r) : ts >= from
                       /\ \A to \in query.to : Stamp(r) <= to

\* `from` keeps records stamped at or after it, `to` records stamped at or before
\* it (http-api.mdx, "Page query"): a read of a range returns the records stamped
\* in it.
KeepsStamped ==
    pc = "done" => delivered = {r \in AskedFor(Unstamped) : Stamped(r)}

\* A read ends, however often its pages run out of time: a page that moved no
\* cursor is an error.
ReadEnds == <>(pc \in {"done", "unknown", "failed"})
=============================================================================

--------------------------- MODULE RecordScanProofs ---------------------------
(***************************************************************************)
(* Proofs about RecordScan for every log, every request, every limit and   *)
(* every number of passes: pages step over no record, return none twice    *)
(* and leave none out.  They hold when Kafka answers for the watermarks,   *)
(* and no deadline cuts a page that walks down the log; the runs of        *)
(* MCScanMarksFail and MCScanNewestTimeout show that both are needed.      *)
(*                                                                         *)
(* And about LiveTail, which fills the same batch: a frame is the newest   *)
(* of what was polled, frames go forward, and every record is counted.     *)
(***************************************************************************)
EXTENDS RecordScan, LiveTail, FiniteSetTheorems, TLAPS

------------------------------------------------------------------------------
(* Finite sets of numbers.                                                   *)

\* A set of offsets has a least one, which Min picks.
LEMMA LeastOffset ==
  ASSUME NEW S \in SUBSET Nat, S # {}
  PROVE  Min(S) \in S /\ \A j \in S : Min(S) <= j
<1> DEFINE initials == {1..i : i \in S}
           smaller == StrictSubsetOrdering(Nat)
<1>1. initials \subseteq FiniteSubsetsOf(Nat)
  <2>1. ASSUME NEW i \in S PROVE 1..i \in SUBSET Nat /\ IsFiniteSet(1..i)
    BY FS_Interval
  <2> QED BY <2>1 DEF FiniteSubsetsOf
<1>2. initials # {} OBVIOUS
<1>3. IsWellFoundedOn(smaller, FiniteSubsetsOf(Nat))
  BY FS_StrictSubsetOrderingWellFounded
<1>4. PICK initial \in initials : \A other \in initials : <<other, initial>> \notin smaller
  <2> HIDE DEF initials, smaller
  <2> QED BY <1>1, <1>2, <1>3, WFMin
<1>5. PICK i \in S : initial = 1..i OBVIOUS
<1>6. ASSUME NEW j \in S, j < i PROVE FALSE
  <2>1. 1..j \subseteq 1..i /\ i \in 1..i /\ i \notin 1..j BY <1>6
  <2>2. <<1..j, 1..i>> \in smaller BY <2>1, <1>6 DEF StrictSubsetOrdering
  <2> QED BY <1>4, <1>5, <2>2
<1>7. \A j \in S : i <= j BY <1>6
<1>8. Min(S) = CHOOSE x \in S : \A y \in S : x <= y BY DEF Min
<1> QED BY <1>7, <1>8

\* A finite set of integers has a greatest one, which Max picks.
LEMMA GreatestOf ==
  ASSUME NEW S \in SUBSET Int, IsFiniteSet(S), S # {}
  PROVE  Max(S) \in S /\ \A j \in S : j <= Max(S)
<1> DEFINE Topless(T) == T # {} /\ \A m \in T : \E j \in T : j > m
           bad == {T \in FiniteSubsetsOf(S) : Topless(T)}
           smaller == StrictSubsetOrdering(S)
<1>1. SUFFICES ASSUME bad # {} PROVE FALSE
  <2>1. S \in FiniteSubsetsOf(S) BY DEF FiniteSubsetsOf
  <2>2. CASE bad = {}
    <3>1. ~Topless(S) BY <2>1, <2>2
    <3>2. PICK m \in S : \A j \in S : ~(j > m) BY <3>1
    <3>3. \A j \in S : j <= m BY <3>2
    <3>4. Max(S) = CHOOSE x \in S : \A y \in S : x >= y BY DEF Max
    <3> QED BY <3>3, <3>4
  <2> QED BY <2>2, <1>1
<1>2. IsWellFoundedOn(smaller, FiniteSubsetsOf(S))
  BY FS_StrictSubsetOrderingWellFounded
<1>3. PICK T \in bad : \A U \in bad : <<U, T>> \notin smaller
  <2>1. bad \subseteq FiniteSubsetsOf(S) OBVIOUS
  <2> HIDE DEF bad, smaller
  <2> QED BY <1>1, <1>2, <2>1, WFMin
<1>4. T \in SUBSET S /\ IsFiniteSet(T) /\ Topless(T) BY <1>3 DEF FiniteSubsetsOf
<1>5. PICK x \in T : TRUE BY <1>4
<1>6. T \ {x} \in FiniteSubsetsOf(S) BY <1>4, FS_RemoveElement DEF FiniteSubsetsOf
<1>7. Topless(T \ {x})
  <2>1. PICK j \in T : j > x BY <1>4, <1>5
  <2>2. j \in T \ {x} BY <2>1, <1>4
  <2>3. ASSUME NEW m \in T \ {x} PROVE \E k \in T \ {x} : k > m
    <3>1. PICK k \in T : k > m BY <1>4
    <3>2. CASE k # x BY <3>1, <3>2
    <3>3. CASE k = x BY <3>1, <3>3, <2>1, <2>2, <1>4
    <3> QED BY <3>2, <3>3
  <2> QED BY <2>2, <2>3
<1>8. <<T \ {x}, T>> \in smaller BY <1>4, <1>5 DEF StrictSubsetOrdering
<1> QED BY <1>3, <1>6, <1>7, <1>8

\* The greatest element is what Max picks.
LEMMA MaxIs ==
  ASSUME NEW S \in SUBSET Int, NEW m \in S, \A j \in S : j <= m
  PROVE  Max(S) = m
<1>1. Max(S) = CHOOSE x \in S : \A y \in S : x >= y BY DEF Max
<1>2. \A y \in S : m >= y OBVIOUS
<1>3. Max(S) \in S /\ \A y \in S : Max(S) >= y BY <1>1, <1>2
<1>4. Max(S) >= m /\ m >= Max(S) BY <1>2, <1>3
<1>5. Max(S) \in Int /\ m \in Int BY <1>3
<1> QED BY <1>4, <1>5

------------------------------------------------------------------------------
(* The batch: the best of the records pushed into it.                        *)

Keys == [ts : Int, p : Nat, o : Nat]

\* Ranking is a strict order of keys, in either order of a page and either way.
LEMMA RanksIsOrder ==
  ASSUME NEW ord \in Orders, NEW way \in Orders,
         NEW a \in Keys, NEW b \in Keys, NEW c \in Keys
  PROVE  /\ ~Ranks(a, a, ord, way)
         /\ Ranks(a, b, ord, way) => ~Ranks(b, a, ord, way)
         /\ Ranks(a, b, ord, way) /\ Ranks(b, c, ord, way) => Ranks(a, c, ord, way)
         /\ a # b => Ranks(a, b, ord, way) \/ Ranks(b, a, ord, way)
<1>1. a # b => a.ts # b.ts \/ a.p # b.p \/ a.o # b.o BY DEF Keys
<1>2. /\ a.ts \in Int /\ a.p \in Nat /\ a.o \in Nat
      /\ b.ts \in Int /\ b.p \in Nat /\ b.o \in Nat
      /\ c.ts \in Int /\ c.p \in Nat /\ c.o \in Nat
  BY DEF Keys
<1> HIDE DEF Keys
<1> QED BY <1>1, <1>2 DEF Ranks, Precedes, Orders

\* Within a partition the walk decides: up, the lower offset is better.
LEMMA RanksInPartition ==
  ASSUME NEW ord \in Orders, NEW way \in Orders, NEW a \in Keys, NEW b \in Keys,
         a.p = b.p, a.o < b.o, a.ts <= b.ts
  PROVE  IF way = "oldest" THEN Ranks(a, b, ord, way) ELSE Ranks(b, a, ord, way)
<1>1. /\ a.ts \in Int /\ a.p \in Nat /\ a.o \in Nat
      /\ b.ts \in Int /\ b.p \in Nat /\ b.o \in Nat
  BY DEF Keys
<1> QED BY <1>1 DEF Ranks, Precedes, Orders

\* A batch that is not empty has a worst record.
LEMMA WorstExists ==
  ASSUME NEW ord \in Orders, NEW way \in Orders,
         NEW S \in SUBSET Keys, IsFiniteSet(S), S # {}
  PROVE  \E k \in S : \A j \in S \ {k} : Ranks(j, k, ord, way)
<1> DEFINE Above(j, k) == Ranks(j, k, ord, way)
           Endless(T) == T # {} /\ \A k \in T : \E j \in T \ {k} : ~Above(j, k)
           bad == {T \in FiniteSubsetsOf(S) : Endless(T)}
           smaller == StrictSubsetOrdering(S)
<1>1. SUFFICES ASSUME bad # {} PROVE FALSE
  <2>1. S \in FiniteSubsetsOf(S) BY DEF FiniteSubsetsOf
  <2>2. CASE bad = {}
    <3>1. ~Endless(S) BY <2>1, <2>2
    <3> QED BY <3>1
  <2> QED BY <2>2, <1>1
<1>2. IsWellFoundedOn(smaller, FiniteSubsetsOf(S))
  BY FS_StrictSubsetOrderingWellFounded
<1>3. PICK T \in bad : \A U \in bad : <<U, T>> \notin smaller
  <2>1. bad \subseteq FiniteSubsetsOf(S) OBVIOUS
  <2> HIDE DEF bad, smaller
  <2> QED BY <1>1, <1>2, <2>1, WFMin
<1>4. T \in SUBSET S /\ IsFiniteSet(T) /\ Endless(T) BY <1>3 DEF FiniteSubsetsOf
<1>5. \A a, b, c \in T :
        /\ Above(a, b) => ~Above(b, a)
        /\ Above(a, b) /\ Above(b, c) => Above(a, c)
        /\ a # b => Above(a, b) \/ Above(b, a)
  BY <1>4, RanksIsOrder
<1> HIDE DEF Above
<1>6. PICK x \in T : TRUE BY <1>4
<1>7. T \ {x} \in FiniteSubsetsOf(S) BY <1>4, FS_RemoveElement DEF FiniteSubsetsOf
<1>8. Endless(T \ {x})
  <2>1. PICK j \in T \ {x} : ~Above(j, x) BY <1>4, <1>6
  <2>2. Above(x, j) BY <2>1, <1>5
  <2>3. ASSUME NEW k \in T \ {x} PROVE \E i \in (T \ {x}) \ {k} : ~Above(i, k)
    <3>1. PICK i \in T \ {k} : ~Above(i, k) BY <1>4
    <3>2. CASE i # x BY <3>1, <3>2
    <3>3. CASE i = x
      <4>1. j # k BY <3>1, <3>3, <2>2
      <4>2. ~Above(j, k) BY <3>1, <3>3, <2>2, <1>5
      <4> QED BY <4>1, <4>2, <2>1
    <3> QED BY <3>2, <3>3
  <2> QED BY <2>1, <2>3
<1>9. <<T \ {x}, T>> \in smaller BY <1>4, <1>6 DEF StrictSubsetOrdering
<1> QED BY <1>3, <1>7, <1>8, <1>9

\* A batch is the best of a set, up to a size.
Best(b, S, size, ord, way) ==
  /\ b \subseteq S /\ IsFiniteSet(b) /\ Cardinality(b) <= size
  /\ \A out \in S \ b :
        /\ Cardinality(b) = size
        /\ \A k \in b : Ranks(k, out, ord, way)

\* RecordBatch::push keeps the batch the best of all that was pushed.
LEMMA PushKeepsBest ==
  ASSUME NEW ord \in Orders, NEW way \in Orders, NEW size \in Nat \ {0},
         NEW S \in SUBSET Keys, NEW b, NEW key \in Keys, key \notin S,
         Best(b, S, size, ord, way)
  PROVE  Best(Push(b, key, size, ord, way), S \cup {key}, size, ord, way)
<1> DEFINE Above(j, k) == Ranks(j, k, ord, way)
           worst == CHOOSE k \in b : \A j \in b \ {k} : Above(j, k)
           pushed == Push(b, key, size, ord, way)
<1>1. /\ b \subseteq S /\ IsFiniteSet(b) /\ Cardinality(b) <= size /\ Cardinality(b) \in Nat
      /\ \A out \in S \ b : Cardinality(b) = size /\ \A k \in b : Above(k, out)
  BY FS_CardinalityType DEF Best
<1>2. \A x, y, z \in S \cup {key} :
        /\ ~Above(x, x)
        /\ Above(x, y) => ~Above(y, x)
        /\ Above(x, y) /\ Above(y, z) => Above(x, z)
        /\ x # y => Above(x, y) \/ Above(y, x)
  BY RanksIsOrder
<1>3. CASE Cardinality(b) < size
  <2>1. pushed = b \cup {key} 
    <3>1. ~(Cardinality(b) >= size) BY <1>1, <1>3
    <3> QED BY <3>1, <1>3 DEF Push
  <2>2. S \ b = {} BY <1>1, <1>3
  <2>3. IsFiniteSet(b \cup {key}) BY <1>1, FS_AddElement
  <2>4. Cardinality(b \cup {key}) <= size
    <3>1. Cardinality(b \cup {key}) = IF key \in b THEN Cardinality(b) ELSE Cardinality(b) + 1
      BY <1>1, FS_AddElement
    <3> QED BY <1>1, <1>3, <3>1
  <2>5. (S \cup {key}) \ pushed = {} BY <2>1, <2>2
  <2>6. pushed \subseteq S \cup {key} BY <2>1, <1>1
  <2> HIDE DEF pushed
  <2> QED BY <2>1, <2>3, <2>4, <2>5, <2>6 DEF Best, pushed
<1>4. CASE Cardinality(b) = size
  <2>1. b # {} BY <1>4, FS_EmptySet
  <2>2. \E k \in b : \A j \in b \ {k} : Above(j, k)
    BY <1>1, <2>1, WorstExists, b \in SUBSET Keys
  <2>3. worst \in b /\ \A j \in b \ {worst} : Above(j, worst) BY <2>2
  <2>4. pushed = IF Above(key, worst) THEN (b \ {worst}) \cup {key} ELSE b
    BY <1>4, <1>1 DEF Push
  <2> HIDE DEF worst, pushed
  <2>5. CASE Above(key, worst)
    <3>1. pushed = (b \ {worst}) \cup {key} BY <2>4, <2>5
    <3>2. IsFiniteSet(b \ {worst}) BY <1>1, FS_RemoveElement
    <3>3. Cardinality(b \ {worst}) = size - 1 BY <1>1, <1>4, <2>3, FS_RemoveElement
    <3>4. key \notin b BY <1>1
    <3>5. IsFiniteSet(pushed) BY <3>1, <3>2, FS_AddElement
    <3>6. Cardinality(pushed) = size
      <4>1. Cardinality((b \ {worst}) \cup {key}) = Cardinality(b \ {worst}) + 1
        BY <3>2, <3>4, FS_AddElement
      <4> QED BY <3>1, <3>3, <4>1
    <3>7. ASSUME NEW out \in (S \cup {key}) \ pushed, NEW k \in pushed PROVE Above(k, out)
      <4>1. out \in S BY <3>7, <3>1
      <4>2. CASE out = worst
        <5>1. k = key \/ k \in b \ {worst} BY <3>7, <3>1
        <5> QED BY <4>2, <5>1, <2>3, <2>5
      <4>3. CASE out # worst
        <5>1. out \notin b BY <4>3, <3>7, <3>1
        <5>2. \A j \in b : Above(j, out) BY <5>1, <4>1, <1>1
        <5>3. CASE k \in b BY <5>2, <5>3
        <5>4. CASE k = key
          <6>1. Above(worst, out) BY <5>2, <2>3
          <6> QED BY <6>1, <5>4, <2>5, <1>2, <4>1, <2>3, <1>1
        <5> QED BY <5>3, <5>4, <3>1, <3>7
      <4> QED BY <4>2, <4>3
    <3>8. pushed \subseteq S \cup {key} BY <3>1, <1>1
    <3> QED BY <3>5, <3>6, <3>7, <3>8 DEF Best, pushed
  <2>6. CASE ~Above(key, worst)
    <3>1. pushed = b BY <2>4, <2>6
    <3>2. Above(worst, key) BY <2>6, <2>3, <1>1, <1>2
    <3>3. ASSUME NEW out \in (S \cup {key}) \ b, NEW k \in b PROVE Above(k, out)
      <4>1. CASE out = key
        <5>1. CASE k = worst BY <5>1, <4>1, <3>2
        <5>2. CASE k # worst
          <6>1. Above(k, worst) BY <5>2, <2>3
          <6> QED BY <6>1, <3>2, <4>1, <1>1, <1>2, <2>3
        <5> QED BY <5>1, <5>2
      <4>2. CASE out # key BY <4>2, <1>1
      <4> QED BY <4>1, <4>2
    <3> QED BY <3>1, <3>3, <1>1, <1>4 DEF Best, pushed
  <2> QED BY <2>5, <2>6
<1> QED BY <1>1, <1>3, <1>4
------------------------------------------------------------------------------
(* Windows and cursors.                                                      *)

Cursors ==
  [order : Orders, walk : Orders, at : UNION {[P -> Nat] : P \in FiniteSubsetsOf(Nat)}]

AreMarks(ms) ==
  \A p \in DOMAIN ms : ms[p].low \in Nat /\ ms[p].high \in Nat /\ ms[p].low <= ms[p].high

\* A record between the watermarks.
InSpan(ms, r) ==
  r.p \in DOMAIN ms /\ r.o \in Nat /\ ms[r.p].low <= r.o /\ r.o < ms[r.p].high

\* A record that a walk has left behind at the given offsets.
Reached(way, at, r) ==
  r.p \in DOMAIN at => IF way = "oldest" THEN r.o < at[r.p] ELSE r.o >= at[r.p]

\* Where a pass starts: the cursor, or the near end of every partition.
FromOf(ms, ord, c) ==
  IF c = NoCursor THEN [order |-> ord, walk |-> ord, at |-> Start(ms, ord)] ELSE c

\* What a cursor is made of.
LEMMA CursorParts ==
  ASSUME NEW c \in Cursors
  PROVE  /\ c # NoCursor /\ c.order \in Orders /\ c.walk \in Orders
         /\ DOMAIN c.at \subseteq Nat /\ IsFiniteSet(DOMAIN c.at)
         /\ c.at \in [DOMAIN c.at -> Nat] /\ \A p \in DOMAIN c.at : c.at[p] \in Nat
         /\ c = [order |-> c.order, walk |-> c.walk, at |-> c.at]
<1>1. /\ c.order \in Orders /\ c.walk \in Orders
      /\ c.at \in UNION {[P -> Nat] : P \in FiniteSubsetsOf(Nat)}
      /\ c = [order |-> c.order, walk |-> c.walk, at |-> c.at]
  BY DEF Cursors
<1>2. PICK P \in FiniteSubsetsOf(Nat) : c.at \in [P -> Nat] BY <1>1
<1>3. DOMAIN c.at = P /\ \A p \in P : c.at[p] \in Nat BY <1>2
<1>4. P \subseteq Nat /\ IsFiniteSet(P) BY <1>2 DEF FiniteSubsetsOf
<1>5. c # NoCursor
  <2>1. NoCursor.order = "none" BY DEF NoCursor
  <2> QED BY <2>1, <1>1 DEF Orders
<1> QED BY <1>1, <1>2, <1>3, <1>4, <1>5

\* What makes a cursor.
LEMMA MakesCursor ==
  ASSUME NEW ord \in Orders, NEW way \in Orders, NEW P \in SUBSET Nat, IsFiniteSet(P),
         NEW at \in [P -> Nat]
  PROVE  [order |-> ord, walk |-> way, at |-> at] \in Cursors
BY DEF Cursors, FiniteSubsetsOf

\* A window lies between the watermarks, starts where the walk stands, and is
\* empty only when nothing is left.
LEMMA WindowFacts ==
  ASSUME NEW ms, AreMarks(ms), NEW way \in Orders, NEW size \in Nat \ {0},
         NEW at, NEW p \in DOMAIN ms, at[p] \in Nat
  PROVE  LET w == WindowOf(ms, way, size, at, p) IN
         /\ w.start \in Nat /\ w.end \in Nat
         /\ ms[p].low <= w.start /\ w.start <= w.end /\ w.end <= ms[p].high
         /\ w.start < w.end <=> Unread(ms[p], way, at[p])
         /\ \A o \in Nat : ms[p].low <= o /\ o < ms[p].high =>
              /\ way = "oldest" => (o < at[p] <=> o < w.start)
              /\ way = "newest" => (o >= at[p] <=> o >= w.end)
<1> DEFINE w == WindowOf(ms, way, size, at, p)
           l == ms[p].low
           h == ms[p].high
           a == at[p]
<1>1. l \in Nat /\ h \in Nat /\ l <= h /\ a \in Nat BY DEF AreMarks
<1>2. CASE way = "newest"
  <2>1. w = EndingAt(ms[p], size, a) BY <1>2 DEF WindowOf
  <2>2. /\ w.end = IF (IF a < h THEN a ELSE h) > l THEN (IF a < h THEN a ELSE h) ELSE l
        /\ w.start = w.end - (IF size < w.end - l THEN size ELSE w.end - l)
    BY <2>1 DEF EndingAt, AtLeast, AtMost
  <2>3. Unread(ms[p], way, a) <=> (IF a < h THEN a ELSE h) > l
    BY <1>2 DEF Unread, AtLeast, AtMost
  <2> HIDE DEF w, l, h, a
  <2>4. /\ w.start \in Nat /\ w.end \in Nat /\ l <= w.start /\ w.start <= w.end /\ w.end <= h
        /\ w.start < w.end <=> Unread(ms[p], way, a)
        /\ \A o \in Nat : l <= o /\ o < h => (o >= a <=> o >= w.end)
    BY <1>1, <2>2, <2>3
  <2> QED BY <2>4, <1>2 DEF w, l, h, a
<1>3. CASE way = "oldest"
  <2>1. w = StartingAt(ms[p], size, a) BY <1>3 DEF WindowOf
  <2>2. /\ w.start = IF (IF a > l THEN a ELSE l) < h THEN (IF a > l THEN a ELSE l) ELSE h
        /\ w.end = w.start + (IF size < h - w.start THEN size ELSE h - w.start)
    BY <2>1 DEF StartingAt, AtLeast, AtMost
  <2>3. Unread(ms[p], way, a) <=> (IF a > l THEN a ELSE l) < h
    BY <1>3 DEF Unread, AtLeast, AtMost
  <2> HIDE DEF w, l, h, a
  <2>4. /\ w.start \in Nat /\ w.end \in Nat /\ l <= w.start /\ w.start <= w.end /\ w.end <= h
        /\ w.start < w.end <=> Unread(ms[p], way, a)
        /\ \A o \in Nat : l <= o /\ o < h => (o < a <=> o < w.start)
    BY <1>1, <2>2, <2>3
  <2> QED BY <2>4, <1>3 DEF w, l, h, a
<1> QED BY <1>2, <1>3 DEF Orders

\* The windows of a pass, partition by partition.
LEMMA WindowsFacts ==
  ASSUME NEW ms, AreMarks(ms), NEW ord \in Orders, NEW size \in Nat \ {0},
         NEW c, c = NoCursor \/ c \in Cursors
  PROVE  LET from == FromOf(ms, ord, c)
             ws == Windows(ms, ord, size, c) IN
         /\ DOMAIN ws = {p \in DOMAIN ms \cap DOMAIN from.at :
                           Unread(ms[p], from.walk, from.at[p])}
         /\ \A p \in DOMAIN ws :
              /\ ws[p].start \in Nat /\ ws[p].end \in Nat
              /\ ms[p].low <= ws[p].start /\ ws[p].start < ws[p].end
              /\ ws[p].end <= ms[p].high
              /\ \A o \in Nat : ms[p].low <= o /\ o < ms[p].high =>
                   /\ from.walk = "oldest" => (o < from.at[p] <=> o < ws[p].start)
                   /\ from.walk = "newest" => (o >= from.at[p] <=> o >= ws[p].end)
<1> DEFINE from == FromOf(ms, ord, c)
           ws == Windows(ms, ord, size, c)
           left == {p \in DOMAIN ms \cap DOMAIN from.at :
                      LET w == WindowOf(ms, from.walk, size, from.at, p) IN w.start < w.end}
<1>1. from.walk \in Orders BY CursorParts DEF FromOf
<1>2. \A p \in DOMAIN ms \cap DOMAIN from.at : from.at[p] \in Nat
  <2>1. CASE c = NoCursor
    <3>1. from.at = Start(ms, ord) BY <2>1 DEF FromOf
    <3> QED BY <3>1 DEF Start, AreMarks
  <2>2. CASE c \in Cursors
    <3>1. from = c BY <2>2, CursorParts DEF FromOf
    <3> QED BY <3>1, <2>2, CursorParts
  <2> QED BY <2>1, <2>2
<1>3. ws = [p \in left |-> WindowOf(ms, from.walk, size, from.at, p)]
  <2>1. CASE c = NoCursor
    <3>1. from.at = Start(ms, ord) /\ from.walk = ord BY <2>1 DEF FromOf
    <3> HIDE DEF from
    <3> QED BY <3>1, <2>1 DEF Windows
  <2>2. CASE c # NoCursor
    <3>1. from = c BY <2>2 DEF FromOf
    <3> HIDE DEF from
    <3> QED BY <3>1, <2>2 DEF Windows
  <2> QED BY <2>1, <2>2
<1> HIDE DEF from, ws
<1>4. \A p \in DOMAIN ms \cap DOMAIN from.at :
        LET w == WindowOf(ms, from.walk, size, from.at, p) IN
         /\ w.start \in Nat /\ w.end \in Nat
         /\ ms[p].low <= w.start /\ w.start <= w.end /\ w.end <= ms[p].high
         /\ w.start < w.end <=> Unread(ms[p], from.walk, from.at[p])
         /\ \A o \in Nat : ms[p].low <= o /\ o < ms[p].high =>
              /\ from.walk = "oldest" => (o < from.at[p] <=> o < w.start)
              /\ from.walk = "newest" => (o >= from.at[p] <=> o >= w.end)
  BY <1>1, <1>2, WindowFacts
<1>5. DOMAIN ws = left BY <1>3
<1>6. left = {p \in DOMAIN ms \cap DOMAIN from.at : Unread(ms[p], from.walk, from.at[p])}
  BY <1>4
<1>7. \A p \in left : ws[p] = WindowOf(ms, from.walk, size, from.at, p) /\ ws[p].start < ws[p].end
  BY <1>3
<1>8. \A p \in DOMAIN ws :
              /\ ws[p].start \in Nat /\ ws[p].end \in Nat
              /\ ms[p].low <= ws[p].start /\ ws[p].start < ws[p].end
              /\ ws[p].end <= ms[p].high
              /\ \A o \in Nat : ms[p].low <= o /\ o < ms[p].high =>
                   /\ from.walk = "oldest" => (o < from.at[p] <=> o < ws[p].start)
                   /\ from.walk = "newest" => (o >= from.at[p] <=> o >= ws[p].end)
  BY <1>4, <1>5, <1>7
<1> QED BY <1>5, <1>6, <1>8 DEF from, ws

\* A cursor has left behind what its walk has reached, also when none is left.
LEMMA CursorReaches ==
  ASSUME NEW ms, AreMarks(ms), DOMAIN ms \subseteq Nat, NEW ord \in Orders, NEW way \in Orders,
         NEW at, \A p \in DOMAIN at : at[p] \in Nat, IsFiniteSet(DOMAIN at)
  PROVE  LET c == Cursor(ms, ord, way, at) IN
         /\ c # NoCursor => c \in Cursors /\ c.order = ord /\ c.walk = way
         /\ \A r : InSpan(ms, r) => (Behind(c, r) <=> Reached(way, at, r))
<1> DEFINE c == Cursor(ms, ord, way, at)
           both == DOMAIN at \cap DOMAIN ms
           there == [order |-> ord, walk |-> way, at |-> [p \in both |-> at[p]]]
<1>1. c = IF \E p \in both : Unread(ms[p], way, at[p]) THEN there ELSE NoCursor
  BY DEF Cursor
<1>2. there \in Cursors
  <2>1. both \in SUBSET Nat /\ IsFiniteSet(both) BY FS_Subset
  <2>2. [p \in both |-> at[p]] \in [both -> Nat] OBVIOUS
  <2> HIDE DEF both
  <2> QED BY <2>1, <2>2, MakesCursor
<1>3. c # NoCursor => c \in Cursors /\ c.order = ord /\ c.walk = way BY <1>1, <1>2
<1>4. ASSUME NEW r, InSpan(ms, r) PROVE Behind(c, r) <=> Reached(way, at, r)
  <2>1. /\ r.p \in DOMAIN ms /\ r.o \in Nat /\ ms[r.p].low <= r.o /\ r.o < ms[r.p].high
        /\ ms[r.p].low \in Nat /\ ms[r.p].high \in Nat
    BY <1>4 DEF InSpan, AreMarks
  <2>2. CASE c = there
    <3>1. c # NoCursor BY <2>2, <1>2, CursorParts
    <3>2. c.at = [p \in both |-> at[p]] /\ c.walk = way BY <2>2
    <3> HIDE DEF c, there
    <3>3. Behind(c, r) <=> IF r.p \notin DOMAIN c.at THEN TRUE
                           ELSE IF c.walk = "oldest" THEN r.o < c.at[r.p] ELSE r.o >= c.at[r.p]
      BY <3>1 DEF Behind
    <3> QED BY <3>2, <3>3, <2>1 DEF Reached
  <2>3. CASE c = NoCursor
    <3>1. Behind(c, r) BY <2>3 DEF Behind
    <3>2. ASSUME r.p \in DOMAIN at
          PROVE IF way = "oldest" THEN r.o < at[r.p] ELSE r.o >= at[r.p]
      <4>1. ~Unread(ms[r.p], way, at[r.p])
        <5>1. there # NoCursor BY <1>2, CursorParts
        <5> QED BY <5>1, <1>1, <2>3, <3>2, <2>1
      <4>2. at[r.p] \in Nat BY <3>2
      <4> QED BY <4>1, <4>2, <2>1 DEF Unread, AtLeast, AtMost, Orders
    <3> QED BY <3>1, <3>2 DEF Reached
  <2> QED BY <2>2, <2>3, <1>1
<1> QED BY <1>3, <1>4

\* A cursor reads as the offsets it names.
LEMMA BehindReached ==
  ASSUME NEW c \in Cursors, NEW r
  PROVE  Behind(c, r) <=> Reached(c.walk, c.at, r)
BY CursorParts DEF Behind, Reached

\* Nothing is behind where a first page starts.
LEMMA StartReachesNothing ==
  ASSUME NEW ms, AreMarks(ms), NEW way \in Orders, NEW r, InSpan(ms, r)
  PROVE  ~Reached(way, Start(ms, way), r)
<1>1. /\ r.p \in DOMAIN ms /\ r.o \in Nat /\ ms[r.p].low <= r.o /\ r.o < ms[r.p].high
      /\ ms[r.p].low \in Nat /\ ms[r.p].high \in Nat
  BY DEF InSpan, AreMarks
<1> QED BY <1>1 DEF Reached, Start, Orders
------------------------------------------------------------------------------
(* The text of a cursor.                                                     *)

\* A finite set of partitions can be listed in ascending order.
LEMMA AscendingExists ==
  ASSUME NEW S \in SUBSET Nat, IsFiniteSet(S)
  PROVE  \E s \in SetToSeqs(S) : \A i, j \in DOMAIN s : i < j => s[i] < s[j]
<1> DEFINE Rises(s) == \A i, j \in DOMAIN s : i < j => s[i] < s[j]
           Listed(T) == \E s \in SetToSeqs(T) : Rises(s)
           bad == {T \in FiniteSubsetsOf(S) : ~Listed(T)}
           smaller == StrictSubsetOrdering(S)
<1>1. SUFFICES ASSUME bad # {} PROVE FALSE
  <2>1. S \in FiniteSubsetsOf(S) BY DEF FiniteSubsetsOf
  <2>2. CASE bad = {}
    <3>1. Listed(S) BY <2>1, <2>2
    <3> QED BY <3>1
  <2> QED BY <2>2, <1>1
<1>2. IsWellFoundedOn(smaller, FiniteSubsetsOf(S))
  BY FS_StrictSubsetOrderingWellFounded
<1>3. PICK T \in bad : \A U \in bad : <<U, T>> \notin smaller
  <2>1. bad \subseteq FiniteSubsetsOf(S) OBVIOUS
  <2> HIDE DEF bad, smaller
  <2> QED BY <1>1, <1>2, <2>1, WFMin
<1>4. T \in SUBSET S /\ IsFiniteSet(T) /\ ~Listed(T) BY <1>3 DEF FiniteSubsetsOf
<1>5. T # {}
  <2>1. SUFFICES ASSUME T = {} PROVE Listed({}) BY <1>4
  <2>2. Cardinality({}) = 0 BY FS_EmptySet
  <2> DEFINE none == [i \in 1..0 |-> i]
  <2>3. none \in [1..Cardinality({}) -> {}] BY <2>2
  <2>4. none \in SetToSeqs({}) BY <2>2, <2>3 DEF SetToSeqs
  <2>5. Rises(none) OBVIOUS
  <2> QED BY <2>4, <2>5
<1> DEFINE m == Max(T)
           U == T \ {m}
           n == Cardinality(U)
<1>6. m \in T /\ \A j \in T : j <= m BY <1>4, <1>5, GreatestOf, T \in SUBSET Int
<1>7. IsFiniteSet(U) BY <1>4, FS_RemoveElement
<1>8. n \in Nat BY <1>7, FS_CardinalityType
<1>9. Cardinality(T) = n + 1
  <2>1. Cardinality(T \ {m}) = Cardinality(T) - 1 BY <1>4, <1>6, FS_RemoveElement
  <2>2. Cardinality(T) \in Nat BY <1>4, FS_CardinalityType
  <2> QED BY <2>1, <2>2
<1>10. Listed(U)
  <2>1. U \in FiniteSubsetsOf(S) BY <1>4, <1>7 DEF FiniteSubsetsOf
  <2>2. <<U, T>> \in smaller BY <1>4, <1>6 DEF StrictSubsetOrdering
  <2> HIDE DEF Listed, U, smaller
  <2> QED BY <2>1, <2>2, <1>3
<1> HIDE DEF m, n
<1>11. PICK f \in SetToSeqs(U) : Rises(f) BY <1>10
<1>12. /\ f \in [1..n -> U] /\ \A i, j \in 1..n : i # j => f[i] # f[j]
  BY <1>11 DEF SetToSeqs, n
<1> DEFINE g == [i \in 1..(n + 1) |-> IF i = n + 1 THEN m ELSE f[i]]
<1>13. \A i \in 1..n : i \in 1..(n + 1) /\ g[i] = f[i] /\ f[i] \in U BY <1>8, <1>12
<1>14. n + 1 \in 1..(n + 1) /\ g[n + 1] = m BY <1>8
<1>15. \A i \in 1..(n + 1) : i = n + 1 \/ i \in 1..n BY <1>8
<1>16. \A u \in U : u \in T /\ u # m /\ u < m /\ u \in Nat BY <1>4, <1>6
<1>17. DOMAIN g = 1..(n + 1) /\ g \in [1..(n + 1) -> T]
  <2>1. \A i \in 1..(n + 1) : g[i] \in T BY <1>6, <1>13, <1>14, <1>15, <1>16
  <2> QED BY <2>1
<1>18. Rises(g)
  <2>1. SUFFICES ASSUME NEW i \in 1..(n + 1), NEW j \in 1..(n + 1), i < j PROVE g[i] < g[j]
    BY <1>17
  <2>2. i \in 1..n BY <2>1, <1>15, <1>8
  <2>3. CASE j = n + 1 BY <2>2, <2>3, <1>13, <1>14, <1>16
  <2>4. CASE j \in 1..n
    <3>1. DOMAIN f = 1..n BY <1>12
    <3>2. f[i] < f[j] BY <1>11, <3>1, <2>1, <2>2, <2>4
    <3> QED BY <3>2, <1>13, <2>2, <2>4
  <2> QED BY <2>3, <2>4, <1>15
<1>19. \A i, j \in 1..(n + 1) : i # j => g[i] # g[j]
  <2>1. ASSUME NEW i \in 1..(n + 1), NEW j \in 1..(n + 1), i < j PROVE g[i] # g[j]
    <3>1. g[i] < g[j] BY <2>1, <1>17, <1>18
    <3>2. g[i] \in Nat BY <1>17, <1>4
    <3> QED BY <3>1, <3>2
  <2> HIDE DEF g
  <2> QED BY <2>1, <1>8
<1>20. g \in SetToSeqs(T) BY <1>9, <1>17, <1>19 DEF SetToSeqs
<1>21. Listed(T)
  <2> HIDE DEF g, Rises
  <2> QED BY <1>18, <1>20
<1> QED BY <1>4, <1>21

\* The list has every partition, each once.
LEMMA AscendingFacts ==
  ASSUME NEW S \in SUBSET Nat, IsFiniteSet(S)
  PROVE  /\ DOMAIN Ascending(S) = 1..Cardinality(S)
         /\ \A i \in DOMAIN Ascending(S) : Ascending(S)[i] \in S
         /\ \A i, j \in DOMAIN Ascending(S) : i # j => Ascending(S)[i] # Ascending(S)[j]
         /\ \A p \in S : \E i \in DOMAIN Ascending(S) : Ascending(S)[i] = p
<1> DEFINE s == Ascending(S)
           n == Cardinality(S)
<1>1. s \in SetToSeqs(S) BY AscendingExists DEF Ascending
<1>2. s \in [1..n -> S] /\ \A i, j \in 1..n : i # j => s[i] # s[j] BY <1>1 DEF SetToSeqs
<1>3. n \in Nat BY FS_CardinalityType
<1>4. IsFiniteSet(1..n) /\ Cardinality(1..n) = n BY <1>3, FS_Interval
<1> HIDE DEF s
<1>5. s \in Injection(1..n, S) BY <1>2 DEF Injection, IsInjective
<1>6. s \in Surjection(1..n, S)
  <2>1. Cardinality(1..n) = Cardinality(S) <=> s \in Surjection(1..n, S) BY <1>5, FS_Injection
  <2> QED BY <2>1, <1>4
<1>7. \A p \in S : \E i \in 1..n : s[i] = p BY <1>6 DEF Surjection
<1> QED BY <1>2, <1>7 DEF s

\* RecordCursor::parse reads back what Display wrote.
LEMMA ReadsBack ==
  ASSUME NEW c \in Cursors
  PROVE  ParsedFor(c.order, Token(c)) = c
<1>1. /\ c.order \in Orders /\ c.walk \in Orders /\ DOMAIN c.at \in SUBSET Nat
      /\ IsFiniteSet(DOMAIN c.at) /\ c.at \in [DOMAIN c.at -> Nat]
      /\ c = [order |-> c.order, walk |-> c.walk, at |-> c.at]
  BY CursorParts
<1> DEFINE ids == Ascending(DOMAIN c.at)
           token == Token(c)
           written == token.offsets
<1>2. /\ \A i \in DOMAIN ids : ids[i] \in DOMAIN c.at
      /\ \A i, j \in DOMAIN ids : i # j => ids[i] # ids[j]
      /\ \A p \in DOMAIN c.at : \E i \in DOMAIN ids : ids[i] = p
  BY <1>1, AscendingFacts
<1>3. /\ token.version = "v2" /\ token.order = c.order
      /\ token.way = IF c.walk = c.order THEN "f" ELSE "b"
      /\ written = [i \in DOMAIN ids |-> <<ids[i], c.at[ids[i]]>>]
  BY DEF Token
<1> HIDE DEF ids, token
<1>4. DOMAIN written = DOMAIN ids BY <1>3
<1>5. \A i \in DOMAIN ids : written[i][1] = ids[i] /\ written[i][2] = c.at[ids[i]] BY <1>3
<1> HIDE DEF written
<1>6. \A i \in DOMAIN written : ~(written[i][2] < 0) BY <1>1, <1>2, <1>4, <1>5
<1>7. ~\E i, j \in DOMAIN written : i # j /\ written[i][1] = written[j][1]
  BY <1>2, <1>4, <1>5
<1> DEFINE names == {written[i][1] : i \in DOMAIN written}
           read == [p \in names |-> written[CHOOSE i \in DOMAIN written : written[i][1] = p][2]]
<1>8. names = DOMAIN c.at BY <1>2, <1>4, <1>5
<1>9. ASSUME NEW p \in names PROVE read[p] = c.at[p]
  <2>1. PICK i \in DOMAIN written : written[i][1] = p OBVIOUS
  <2> DEFINE k == CHOOSE h \in DOMAIN written : written[h][1] = p
  <2>2. k \in DOMAIN written /\ written[k][1] = p BY <2>1
  <2>3. read[p] = written[k][2] OBVIOUS
  <2> HIDE DEF k, read
  <2>4. ids[k] = p /\ written[k][2] = c.at[ids[k]] BY <2>2, <1>4, <1>5
  <2> QED BY <2>3, <2>4
<1>10. read = c.at
  <2>1. c.at = [p \in DOMAIN c.at |-> c.at[p]] BY <1>1
  <2>2. read = [p \in names |-> read[p]] OBVIOUS
  <2> HIDE DEF read, names
  <2> QED BY <2>1, <2>2, <1>8, <1>9
<1>11. (IF token.way = "f" THEN token.order ELSE Flipped(token.order)) = c.walk
  BY <1>1, <1>3 DEF Flipped, Orders
<1>12. Parse(token) = [order |-> token.order,
              walk |-> IF token.way = "f" THEN token.order ELSE Flipped(token.order),
              at |-> read]
  <2>1. token.version = "v2" /\ token.order \in Orders /\ token.way \in {"f", "b"}
    BY <1>1, <1>3
  <2> HIDE DEF read
  <2> QED BY <2>1, <1>6, <1>7 DEF Parse, written, read, names
<1>13. Parse(token) = [order |-> c.order, walk |-> c.walk, at |-> c.at]
  <2> HIDE DEF read
  <2> QED BY <1>3, <1>10, <1>11, <1>12
<1>14. Parse(token) = c BY <1>1, <1>13
<1>15. ParsedFor(c.order, token) = c BY <1>14 DEF ParsedFor
<1> QED BY <1>15 DEF token
\* What parse accepts is a cursor.
LEMMA ParsedIsCursor ==
  ASSUME NEW ord \in Orders, NEW token, IsFiniteSet(DOMAIN token.offsets),
         \A i \in DOMAIN token.offsets :
           token.offsets[i][1] \in Nat /\ token.offsets[i][2] \in Int,
         ParsedFor(ord, token) # InvalidCursor
  PROVE  ParsedFor(ord, token) \in Cursors /\ ParsedFor(ord, token).order = ord
<1> DEFINE written == token.offsets
           names == {written[i][1] : i \in DOMAIN written}
           read == [p \in names |-> written[CHOOSE i \in DOMAIN written : written[i][1] = p][2]]
           way == IF token.way = "f" THEN token.order ELSE Flipped(token.order)
           good == /\ token.order \in Orders
                   /\ \A i \in DOMAIN written : ~(written[i][2] < 0)
<1>1. ParsedFor(ord, token) = Parse(token) /\ Parse(token).order = ord BY DEF ParsedFor
<1>2. good /\ Parse(token) = [order |-> token.order, walk |-> way, at |-> read]
  <2>1. Parse(token) # InvalidCursor BY <1>1
  <2> QED BY <2>1 DEF Parse
<1>3. token.order = ord BY <1>1, <1>2
<1>4. way \in Orders BY <1>3 DEF Flipped, Orders
<1>5. names \in SUBSET Nat OBVIOUS
<1>6. IsFiniteSet(names)
  <2> DEFINE first == [i \in DOMAIN written |-> written[i][1]]
  <2>1. first \in Surjection(DOMAIN written, names) BY DEF Surjection
  <2> HIDE DEF first, names, written
  <2> QED BY <2>1, FS_Surjection DEF written
<1>7. read \in [names -> Nat]
  <2>1. ASSUME NEW p \in names PROVE read[p] \in Nat
    <3>1. PICK i \in DOMAIN written : written[i][1] = p OBVIOUS
    <3> DEFINE k == CHOOSE h \in DOMAIN written : written[h][1] = p
    <3>2. k \in DOMAIN written BY <3>1
    <3>3. read[p] = written[k][2] OBVIOUS
    <3>4. written[k][2] \in Int /\ ~(written[k][2] < 0) BY <3>2, <1>2
    <3> QED BY <3>3, <3>4
  <2> QED BY <2>1
<1>8. [order |-> ord, walk |-> way, at |-> read] \in Cursors
  <2> HIDE DEF names, read, way
  <2> QED BY <1>4, <1>5, <1>6, <1>7, MakesCursor
<1> HIDE DEF read, way
<1> QED BY <1>1, <1>2, <1>3, <1>8

\* What a request that is not refused asks for.
LEMMA AcceptedRequest ==
  ASSUME NEW asks, IsRequest(asks), RefusedQuery(asks) = "no"
  PROVE  LET q == IntoQuery(asks) IN
         /\ q.order \in Orders /\ q.limit \in Nat \ {0} /\ q.searching \in BOOLEAN
         /\ q.partitions \in SUBSET Nat
         /\ q.from \subseteq Int /\ q.to \subseteq Int /\ Optional(q.from) /\ Optional(q.to)
         /\ q.cursor = NoCursor \/ (q.cursor \in Cursors /\ q.cursor.order = q.order)
<1>1. /\ asks.order \subseteq Orders /\ asks.limit \in Int /\ asks.searching \in BOOLEAN
      /\ asks.partitions \subseteq Nat /\ IsFiniteSet(asks.partitions)
      /\ asks.from \subseteq Int /\ asks.to \subseteq Int /\ asks.start \subseteq Int
      /\ Optional(asks.from) /\ Optional(asks.to)
  BY DEF IsRequest
<1>2. OrderOf(asks) \in Orders BY <1>1 DEF OrderOf, Orders
<1>3. ~StartRefused(asks) /\ CursorOf(asks) # InvalidCursor /\ ~(asks.limit < 1)
  BY DEF RefusedQuery
<1>4. ClampLimit(asks.limit) \in Nat \ {0}
  BY <1>1, <1>3, LimitsAssumption DEF ClampLimit, AtMost
<1>5. CursorOf(asks) = NoCursor
      \/ (CursorOf(asks) \in Cursors /\ CursorOf(asks).order = OrderOf(asks))
  <2>1. CASE asks.token # {}
    <3> DEFINE token == CHOOSE t \in asks.token : TRUE
    <3>1. token \in asks.token BY <2>1
    <3>2. CursorOf(asks) = ParsedFor(OrderOf(asks), token) BY <2>1 DEF CursorOf
    <3>3. /\ IsFiniteSet(DOMAIN token.offsets)
          /\ \A i \in DOMAIN token.offsets :
               token.offsets[i][1] \in Nat /\ token.offsets[i][2] \in Int
      BY <3>1 DEF IsRequest
    <3> HIDE DEF token
    <3> QED BY <1>2, <1>3, <3>2, <3>3, ParsedIsCursor
  <2>2. CASE asks.token = {} /\ asks.start # {}
    <3> DEFINE p == CHOOSE q \in asks.partitions : TRUE
               o == CHOOSE q \in asks.start : TRUE
               at == [q \in {p} |-> IF OrderOf(asks) = "oldest" THEN o ELSE o + 1]
    <3>1. Cardinality(asks.partitions) = 1 /\ \A q \in asks.start : q >= 0
      BY <1>3, <2>2 DEF StartRefused
    <3>2. asks.partitions # {} BY <3>1, FS_EmptySet
    <3>3. p \in Nat /\ o \in Nat BY <1>1, <3>1, <3>2, <2>2
    <3>4. CursorOf(asks) = [order |-> OrderOf(asks), walk |-> OrderOf(asks), at |-> at]
      BY <2>2 DEF CursorOf, CursorAt
    <3> HIDE DEF p, o
    <3>5. at \in [{p} -> Nat] BY <3>3
    <3>6. IsFiniteSet({p}) BY FS_Singleton
    <3> HIDE DEF at
    <3>7. [order |-> OrderOf(asks), walk |-> OrderOf(asks), at |-> at] \in Cursors
      BY <1>2, <3>3, <3>5, <3>6, MakesCursor
    <3> QED BY <3>4, <3>7
  <2>3. CASE asks.token = {} /\ asks.start = {} BY <2>3 DEF CursorOf
  <2> QED BY <2>1, <2>2, <2>3
<1> QED BY <1>1, <1>2, <1>4, <1>5 DEF IntoQuery

\* A pass reads so many offsets of a partition, or none.
LEMMA TakeIsNat ==
  ASSUME NEW limit \in Nat \ {0}, NEW searching \in BOOLEAN
  PROVE  WindowTake(limit, searching) \in Nat
<1>1. MinWindow \in Nat /\ Multiplier \in Nat /\ SearchMultiplier \in Nat
  BY LimitsAssumption
<1>2. limit * (IF searching THEN SearchMultiplier ELSE Multiplier) \in Nat BY <1>1
<1> QED BY <1>1, <1>2 DEF WindowTake, AtLeast

------------------------------------------------------------------------------
(* The instants of a query as offsets.                                       *)

\* Some record of a log up to an offset is stamped at an instant or after it.
Since(l, o, instant) ==
  \E i \in DOMAIN l.recs : l.low <= i /\ i <= o /\ l.recs[i].ts >= instant

\* It is so from the offset on that Kafka finds for the instant.
LEMMA SeekFinds ==
  ASSUME NEW l, IsLog(l), NEW instant \in Int, NEW o \in DOMAIN l.recs, l.low <= o
  PROVE  /\ OffsetForTime(l, instant) \subseteq Nat
         /\ Since(l, o, instant) <=> \E first \in OffsetForTime(l, instant) : first <= o
<1>1. l.low \in Nat /\ DOMAIN l.recs \subseteq Nat BY DEF IsLog
<1> DEFINE late_ == {i \in DOMAIN l.recs : i >= l.low /\ l.recs[i].ts >= instant}
<1>2. o \in Nat BY <1>1
<1>3. Since(l, o, instant) <=> \E i \in late_ : i <= o BY <1>1, <1>2 DEF Since
<1>4. OffsetForTime(l, instant) = IF late_ = {} THEN {} ELSE {Min(late_)}
  BY DEF OffsetForTime
<1>5. late_ \in SUBSET Nat BY <1>1
<1>6. late_ # {} => Min(late_) \in late_ /\ \A i \in late_ : Min(late_) <= i
  <2> HIDE DEF late_
  <2> QED BY <1>5, LeastOffset
<1> HIDE DEF late_
<1>7. (\E i \in late_ : i <= o) <=> \E first \in OffsetForTime(l, instant) : first <= o
  <2>1. CASE late_ = {} BY <2>1, <1>4
  <2>2. CASE late_ # {}
    <3>1. OffsetForTime(l, instant) = {Min(late_)} BY <2>2, <1>4
    <3>2. Min(late_) \in late_ /\ \A i \in late_ : Min(late_) <= i /\ i \in Nat
      BY <2>2, <1>6, <1>5
    <3> QED BY <3>1, <3>2, <1>2
  <2> QED BY <2>1, <2>2
<1>8. OffsetForTime(l, instant) \subseteq Nat BY <1>4, <1>5, <1>6
<1> QED BY <1>3, <1>7, <1>8

\* Kafka finds one offset of the log for an instant, or none.
LEMMA SeekStays ==
  ASSUME NEW l, IsLog(l), NEW instant \in Int
  PROVE  \/ OffsetForTime(l, instant) = {}
         \/ \E x \in Nat : x >= l.low /\ OffsetForTime(l, instant) = {x}
<1> DEFINE late_ == {i \in DOMAIN l.recs : i >= l.low /\ l.recs[i].ts >= instant}
<1>1. OffsetForTime(l, instant) = IF late_ = {} THEN {} ELSE {Min(late_)}
  BY DEF OffsetForTime
<1>2. late_ \in SUBSET Nat /\ \A i \in late_ : i >= l.low BY DEF IsLog
<1>3. late_ # {} => Min(late_) \in late_
  <2> HIDE DEF late_
  <2> QED BY <1>2, LeastOffset
<1> HIDE DEF late_
<1> QED BY <1>1, <1>2, <1>3

\* The watermarks of a log narrowed to the instants of a query, when Kafka answers.
Bounds(l, q) ==
  ApplyTimestampBounds([low |-> l.low, high |-> l.high],
                       {OffsetForTime(l, instant) : instant \in StartSeek(q)},
                       {OffsetForTime(l, instant) : instant \in EndSeek(q)})

\* apply_timestamp_bounds narrows the watermarks to the instants of the query: from
\* the first record that is late enough to the first that is too late.
LEMMA BoundsFacts ==
  ASSUME NEW l, IsLog(l), NEW q, q.from \subseteq Int, q.to \subseteq Int,
         Optional(q.from), Optional(q.to)
  PROVE  LET b == Bounds(l, q) IN
         /\ b.low \in Nat /\ b.high \in Nat /\ b.low <= b.high
         /\ \A o \in DOMAIN l.recs :
              b.low <= o /\ o < b.high <=>
                /\ l.low <= o /\ o < l.high
                /\ \A from \in q.from : Since(l, o, from)
                /\ \A to \in q.to : ~Since(l, o, to + 1)
<1> DEFINE froms == {OffsetForTime(l, instant) : instant \in StartSeek(q)}
           tos == {OffsetForTime(l, instant) : instant \in EndSeek(q)}
           low == IF {} \in froms THEN l.high ELSE Max({l.low} \cup UNION froms)
           high == Min({l.high} \cup UNION tos)
           b == Bounds(l, q)
<1>1. b = [low |-> AtMost(low, high), high |-> high] BY DEF ApplyTimestampBounds, Bounds
<1>2. /\ l.low \in Nat /\ l.high \in Nat /\ l.low <= l.high /\ DOMAIN l.recs \subseteq Nat
  BY DEF IsLog
<1>3. \A o \in DOMAIN l.recs, instant \in Int : l.low <= o =>
        (Since(l, o, instant) <=> \E first \in OffsetForTime(l, instant) : first <= o)
  BY SeekFinds
<1>4. /\ low \in Nat /\ low >= l.low
      /\ \A o \in DOMAIN l.recs : l.low <= o /\ o < l.high =>
           (low <= o <=> \A from \in q.from : Since(l, o, from))
  <2>1. CASE q.from = {}
    <3>1. froms = {} BY <2>1 DEF StartSeek
    <3>2. {l.low} \cup UNION froms = {l.low} /\ ~({} \in froms) BY <3>1
    <3>3. Max({l.low}) = l.low BY <1>2, MaxIs
    <3>4. low = l.low BY <3>2, <3>3
    <3> HIDE DEF low
    <3> QED BY <3>4, <2>1, <1>2
  <2>2. CASE q.from # {}
    <3>1. PICK f \in Int : q.from = {f} BY <2>2 DEF Optional
    <3>2. froms = {OffsetForTime(l, f)} BY <3>1 DEF StartSeek
    <3>3. CASE OffsetForTime(l, f) = {}
      <4>1. low = l.high BY <3>2, <3>3
      <4>2. \A o \in DOMAIN l.recs : l.low <= o => ~Since(l, o, f) BY <1>3, <3>3
      <4> HIDE DEF low
      <4> QED BY <4>1, <4>2, <3>1, <1>2
    <3>4. ASSUME NEW x \in Nat, x >= l.low, OffsetForTime(l, f) = {x}
          PROVE  /\ low \in Nat /\ low >= l.low
                 /\ \A o \in DOMAIN l.recs : l.low <= o /\ o < l.high =>
                      (low <= o <=> \A from \in q.from : Since(l, o, from))
      <4>1. ~({} \in froms) BY <3>2, <3>4
      <4>2. {l.low} \cup UNION froms = {l.low, x} BY <3>2, <3>4
      <4>3. Max({l.low, x}) = x BY <1>2, <3>4, MaxIs
      <4>4. low = x BY <4>1, <4>2, <4>3
      <4>5. \A o \in DOMAIN l.recs : l.low <= o => (Since(l, o, f) <=> x <= o)
        BY <1>3, <3>4
      <4> HIDE DEF low
      <4> QED BY <4>4, <4>5, <3>1, <3>4, <1>2
    <3> QED BY <3>3, <3>4, SeekStays
  <2> QED BY <2>1, <2>2
<1>5. /\ high \in Nat /\ high >= l.low /\ high <= l.high
      /\ \A o \in DOMAIN l.recs : l.low <= o /\ o < l.high =>
           (o < high <=> \A to \in q.to : ~Since(l, o, to + 1))
  <2>1. CASE q.to = {}
    <3>1. tos = {} BY <2>1 DEF EndSeek
    <3>2. {l.high} \cup UNION tos = {l.high} BY <3>1
    <3>3. Min({l.high}) = l.high BY <1>2, LeastOffset
    <3>4. high = l.high BY <3>2, <3>3
    <3> HIDE DEF high
    <3> QED BY <3>4, <2>1, <1>2
  <2>2. CASE q.to # {}
    <3>1. PICK t \in Int : q.to = {t} BY <2>2 DEF Optional
    <3>2. tos = {OffsetForTime(l, t + 1)} BY <3>1 DEF EndSeek
    <3>3. CASE OffsetForTime(l, t + 1) = {}
      <4>1. {l.high} \cup UNION tos = {l.high} BY <3>2, <3>3
      <4>2. Min({l.high}) = l.high BY <1>2, LeastOffset
      <4>3. high = l.high BY <4>1, <4>2
      <4>4. \A o \in DOMAIN l.recs : l.low <= o => ~Since(l, o, t + 1)
        BY <1>3, <3>3, t + 1 \in Int
      <4> HIDE DEF high
      <4> QED BY <4>3, <4>4, <3>1, <1>2
    <3>4. ASSUME NEW x \in Nat, x >= l.low, OffsetForTime(l, t + 1) = {x}
          PROVE  /\ high \in Nat /\ high >= l.low /\ high <= l.high
                 /\ \A o \in DOMAIN l.recs : l.low <= o /\ o < l.high =>
                      (o < high <=> \A to \in q.to : ~Since(l, o, to + 1))
      <4>1. {l.high} \cup UNION tos = {l.high, x} BY <3>2, <3>4
      <4>2. Min({l.high, x}) \in {l.high, x} /\ \A j \in {l.high, x} : Min({l.high, x}) <= j
        BY <1>2, LeastOffset, {l.high, x} \in SUBSET Nat
      <4>3. high \in {l.high, x} /\ high <= l.high /\ high <= x BY <4>1, <4>2
      <4>4. \A o \in DOMAIN l.recs : l.low <= o => (Since(l, o, t + 1) <=> x <= o)
        BY <1>3, <3>4, t + 1 \in Int
      <4> HIDE DEF high
      <4> QED BY <4>3, <4>4, <3>1, <3>4, <1>2
    <3>5. t + 1 \in Int OBVIOUS
    <3> QED BY <3>3, <3>4, <3>5, SeekStays
  <2> QED BY <2>1, <2>2
<1> HIDE DEF low, high
<1>6. b.low = AtMost(low, high) /\ b.high = high BY <1>1
<1> HIDE DEF b
<1>7. b.low \in Nat /\ b.high \in Nat /\ b.low <= b.high BY <1>4, <1>5, <1>6 DEF AtMost
<1>8. ASSUME NEW o \in DOMAIN l.recs
      PROVE  b.low <= o /\ o < b.high <=>
                /\ l.low <= o /\ o < l.high
                /\ \A from \in q.from : Since(l, o, from)
                /\ \A to \in q.to : ~Since(l, o, to + 1)
  <2>1. o \in Nat BY <1>2
  <2>2. b.low <= o /\ o < b.high <=> low <= o /\ o < high
    BY <1>4, <1>5, <1>6, <2>1 DEF AtMost
  <2>3. low <= o /\ o < high => l.low <= o /\ o < l.high BY <1>2, <1>4, <1>5, <2>1
  <2> QED BY <2>2, <2>3, <1>4, <1>5
<1> QED BY <1>7, <1>8 DEF b
------------------------------------------------------------------------------
(* The invariant.                                                            *)

\* The watermarks of the read, narrowed to its instants.
Span == [p \in Selected |-> Bounds(log[p], query)]

\* The way the read walks the log, page after page.
Way == IF query.cursor = NoCursor THEN query.order ELSE query.cursor.walk

\* What the read is to return, but for the one record of a read by offset.
Asked == {r \in InQuery : query.cursor # NoCursor => ~Behind(query.cursor, r)}

\* A record behind the cursor that a page or a pass continues from.
Past(c, r) == c # NoCursor /\ Behind(c, r)

Running == pc \in {"open", "pass", "scan", "page"}

\* The log and the request, and the query once it is accepted.
Posed ==
  /\ IsFiniteSet(DOMAIN log) /\ IsRequest(params)
  /\ \A p \in DOMAIN log : p \in Nat /\ IsLog(log[p])
  /\ pc \notin {"ask", "failed"} =>
       /\ RefusedQuery(params) = "no" /\ query = IntoQuery(params)
       /\ params.partitions \subseteq DOMAIN log

IsAlong(c) == c \in Cursors /\ c.order = query.order /\ c.walk = Way

\* The cursors of the read keep its order and its way.  Only a first page has none.
Along ==
  /\ pc = "ask" => delivered = {} /\ marks = <<>>
  /\ Running =>
       /\ opened = NoCursor => query.cursor = NoCursor /\ delivered = {}
       /\ opened # NoCursor => IsAlong(opened)
       /\ marks = <<>> \/ marks = Span
  /\ pc \in {"pass", "scan", "page"} =>
       marks = Span /\ take > 0 /\ (cursor # NoCursor => IsAlong(cursor))
  /\ pc \in {"pass", "scan"} =>
       /\ cursor = NoCursor => opened = NoCursor
       /\ whole /\ IsFiniteSet(kept) /\ Cardinality(kept) < query.limit

\* The offsets of a window that were polled, and the timestamp a record ranks by.
PolledOf(l, w, at) == {o \in DOMAIN l.recs : w.start <= o /\ o < w.end /\ o < at}
StampsOf(l, offsets) == {l.recs[o].ts : o \in offsets}
RankOf(l, w, o) == Max(StampsOf(l, {j \in DOMAIN l.recs : w.start <= j /\ j <= o}))

\* The keys of the matching records that were polled.
PushedOf(logs, ws, at) ==
  UNION {{[ts |-> RankOf(logs[p], ws[p], o), p |-> p, o |-> o] :
            o \in {i \in PolledOf(logs[p], ws[p], at[p]) : logs[p].recs[i].matches}} :
           p \in DOMAIN ws}

IsNewest(p) ==
  LET stamps == StampsOf(log[p], PolledOf(log[p], windows[p], position[p])) IN
  /\ p \in DOMAIN newest <=> stamps # {}
  /\ p \in DOMAIN newest => newest[p] \in stamps /\ \A t \in stamps : t <= newest[p]

\* A pass at work: its batch is the best of what it polled, and a window it is
\* done with was polled to its end.
Scanning ==
  pc = "scan" =>
    /\ windows = Windows(marks, order, take, cursor) /\ remaining \subseteq DOMAIN windows
    /\ position \in [DOMAIN windows -> Nat]
    /\ DOMAIN newest \subseteq DOMAIN windows
    /\ \A p \in DOMAIN windows : position[p] >= windows[p].start /\ IsNewest(p)
    /\ \A p \in DOMAIN windows \ remaining : \A o \in DOMAIN log[p].recs :
         o < windows[p].end => o < position[p]
    /\ Best(batch, PushedOf(log, windows, position), query.limit - Cardinality(kept),
            order, walk)

\* What was returned is behind the cursor, or a page said that it is not complete.
Forward ==
  /\ repeated \subseteq partial
  /\ Running => delivered \subseteq Asked
  /\ pc \in {"pass", "scan", "page"} =>
       kept \subseteq Asked /\ \A r \in kept : r \in delivered => r \in partial
  /\ pc = "open" => \A r \in delivered : Past(opened, r) \/ r \in partial
  /\ pc \in {"pass", "scan"} =>
       /\ \A r \in delivered : Past(cursor, r) \/ r \in partial
       /\ \A r \in kept : Past(cursor, r)
  /\ pc = "page" =>
       /\ \A r \in delivered : Behind(cursor, r) \/ r \in partial
       /\ \A r \in kept : Behind(cursor, r) \/ ~whole

\* What was behind the cursor of the request stays behind.
NeverBack ==
  query.cursor # NoCursor =>
    \A r \in InQuery : Behind(query.cursor, r) =>
      /\ pc = "open" => Past(opened, r)
      /\ pc \in {"pass", "scan"} => Past(cursor, r)
      /\ pc = "page" => Behind(cursor, r)

PagesInv == Posed /\ Along /\ Scanning /\ Forward /\ (Running => NeverBack)

\* What is behind the cursor was returned.
Complete ==
  /\ pc = "open" => \A r \in Asked : Past(opened, r) => r \in delivered
  /\ pc \in {"pass", "scan"} => \A r \in Asked : Past(cursor, r) => r \in delivered \cup kept
  /\ pc = "page" => \A r \in Asked : Behind(cursor, r) => r \in delivered \cup kept
  /\ pc \in {"done", "unknown"} /\ take > 0 => delivered = Matching

\* A read by offset makes one pass, from its offset.
OneRecord ==
  params.kind = "record" =>
    /\ Running => delivered = {} /\ opened = query.cursor
    /\ pc \in {"pass", "scan"} => cursor = opened /\ kept = {} /\ pass = 0 /\ ~scanned
    /\ pc = "page" => Matching \subseteq kept \/ (~scanned /\ kept = {})

\* No deadline cuts a page that walks down the log.
CutOnlyUpwards == pc = "scan" /\ late => walk = "oldest"

------------------------------------------------------------------------------
(* The end of a pass, of fixed windows.                                      *)

\* Where a pass starts is a cursor.
LEMMA FromIsCursor ==
  ASSUME NEW ms, AreMarks(ms), DOMAIN ms \subseteq Nat, IsFiniteSet(DOMAIN ms),
         NEW ord \in Orders, NEW c, c = NoCursor \/ (c \in Cursors /\ c.order = ord)
  PROVE  /\ FromOf(ms, ord, c) \in Cursors /\ FromOf(ms, ord, c).order = ord
         /\ c # NoCursor => FromOf(ms, ord, c) = c
         /\ c = NoCursor => FromOf(ms, ord, c).walk = ord
         /\ \A r : InSpan(ms, r) =>
              (Past(c, r) <=> Reached(FromOf(ms, ord, c).walk, FromOf(ms, ord, c).at, r))
<1>1. CASE c = NoCursor
  <2>1. Start(ms, ord) \in [DOMAIN ms -> Nat] BY DEF Start, AreMarks
  <2>2. FromOf(ms, ord, c) = [order |-> ord, walk |-> ord, at |-> Start(ms, ord)]
    BY <1>1 DEF FromOf
  <2>3. FromOf(ms, ord, c) \in Cursors BY <2>1, <2>2, MakesCursor
  <2>4. /\ FromOf(ms, ord, c).order = ord /\ FromOf(ms, ord, c).walk = ord
        /\ FromOf(ms, ord, c).at = Start(ms, ord)
    BY <2>2
  <2>5. \A r : ~Past(c, r) BY <1>1 DEF Past
  <2> QED BY <1>1, <2>3, <2>4, <2>5, StartReachesNothing
<1>2. CASE c \in Cursors /\ c.order = ord
  <2>1. FromOf(ms, ord, c) = c /\ c # NoCursor BY <1>2, CursorParts DEF FromOf
  <2>2. \A r : Past(c, r) <=> Reached(c.walk, c.at, r)
    BY <1>2, <2>1, BehindReached DEF Past
  <2> QED BY <1>2, <2>1, <2>2
<1> QED BY <1>1, <1>2

\* LogSpan::advance, partition by partition: a pass that did not fill the page
\* goes on past its window, one that did goes on past the last record it kept.
MovesTo(from, covered, found, room, at) ==
  /\ DOMAIN at = DOMAIN from.at /\ \A p \in DOMAIN at : at[p] \in Nat
  /\ \A p \in DOMAIN at \ DOMAIN covered : at[p] = from.at[p]
  /\ \A p \in DOMAIN covered :
       \/ /\ Cardinality(found) < room
          /\ at[p] = IF from.walk = "oldest" THEN covered[p].end
                     ELSE covered[p].start
       \/ /\ ~(Cardinality(found) < room)
          /\ \E last \in found :
               /\ last.p = p
               /\ at[p] = IF from.walk = "oldest" THEN last.o + 1 ELSE last.o
               /\ \A r \in found : r.p = p =>
                    IF from.walk = "oldest" THEN r.o <= last.o ELSE r.o >= last.o
       \/ /\ ~(Cardinality(found) < room)
          /\ \A r \in found : r.p # p
          /\ at[p] = IF from.walk = "oldest" THEN covered[p].start
                     ELSE covered[p].end

\* The cursor after a pass moves so.
LEMMA AdvanceFacts ==
  ASSUME NEW ms, NEW from \in Cursors, NEW covered, DOMAIN covered \subseteq DOMAIN from.at,
         \A p \in DOMAIN covered : covered[p].start \in Nat /\ covered[p].end \in Nat,
         NEW found, IsFiniteSet(found), \A r \in found : r.o \in Nat, NEW room \in Nat
  PROVE  \E at :
           /\ Advance(ms, from, covered, found, room) = Cursor(ms, from.order, from.walk, at)
           /\ MovesTo(from, covered, found, room, at)
<1> DEFINE Kept(p) == {r.o : r \in {k \in found : k.p = p}}
           Near(w) == IF from.walk = "oldest" THEN w.start ELSE w.end
           Far(w) == IF from.walk = "oldest" THEN w.end ELSE w.start
           Go(p) == CASE Cardinality(found) < room -> Far(covered[p])
                      [] Cardinality(found) >= room /\ Kept(p) # {} ->
                            PastFurthest(from.walk, Kept(p))
                      [] OTHER -> Near(covered[p])
           at == [p \in DOMAIN from.at \cup DOMAIN covered |->
                    IF p \in DOMAIN covered THEN Go(p) ELSE from.at[p]]
<1>1. Advance(ms, from, covered, found, room) = Cursor(ms, from.order, from.walk, at)
  BY DEF Advance
<1>2. from.walk \in Orders /\ \A p \in DOMAIN from.at : from.at[p] \in Nat BY CursorParts
<1>0. Cardinality(found) \in Nat BY FS_CardinalityType
<1>3. DOMAIN at = DOMAIN from.at OBVIOUS
<1>4. ASSUME NEW p \in DOMAIN covered
      PROVE  /\ at[p] \in Nat
             /\ \/ /\ Cardinality(found) < room
                   /\ at[p] = IF from.walk = "oldest" THEN covered[p].end
                              ELSE covered[p].start
                \/ /\ ~(Cardinality(found) < room)
                   /\ \E last \in found :
                        /\ last.p = p
                        /\ at[p] = IF from.walk = "oldest" THEN last.o + 1 ELSE last.o
                        /\ \A r \in found : r.p = p =>
                             IF from.walk = "oldest" THEN r.o <= last.o ELSE r.o >= last.o
                \/ /\ ~(Cardinality(found) < room)
                   /\ \A r \in found : r.p # p
                   /\ at[p] = IF from.walk = "oldest" THEN covered[p].start
                              ELSE covered[p].end
  <2>1. at[p] = Go(p) BY <1>4
  <2> HIDE DEF at
  <2>2. CASE Cardinality(found) < room
    <3>1. Go(p) = Far(covered[p]) BY <2>2, <1>0
    <3> QED BY <3>1, <2>1, <2>2, <1>4
  <2>3. CASE ~(Cardinality(found) < room) /\ Kept(p) # {}
    <3>1. Go(p) = PastFurthest(from.walk, Kept(p)) BY <2>3, <1>0
    <3> DEFINE K == Kept(p)
    <3>2. K \in SUBSET Nat /\ K # {} BY <2>3
    <3>3. IsFiniteSet(K)
      <4> DEFINE F == {k \in found : k.p = p}
      <4>1. IsFiniteSet(F) BY FS_Subset
      <4> HIDE DEF F
      <4> DEFINE f == [x \in F |-> x.o]
                 T == {x.o : x \in F}
      <4>2. f \in Surjection(F, T) BY DEF Surjection
      <4> HIDE DEF f, T
      <4>3. IsFiniteSet(T) BY <4>1, <4>2, FS_Surjection
      <4> QED BY <4>3 DEF T, F
    <3>4. \A o : o \in K <=> \E r \in found : r.p = p /\ r.o = o OBVIOUS
    <3> HIDE DEF K
    <3>5. /\ Max(K) \in K /\ \A j \in K : j <= Max(K)
          /\ Min(K) \in K /\ \A j \in K : Min(K) <= j
      <4>1. K \in SUBSET Int BY <3>2
      <4> QED BY <3>2, <3>3, <4>1, GreatestOf, LeastOffset
    <3>6. at[p] = IF from.walk = "oldest" THEN Max(K) + 1 ELSE Min(K)
      BY <3>1, <2>1 DEF PastFurthest, K
    <3>7. CASE from.walk = "oldest"
      <4>1. PICK last \in found : last.p = p /\ last.o = Max(K) BY <3>4, <3>5
      <4>2. at[p] = last.o + 1 BY <3>6, <3>7, <4>1
      <4>3. \A r \in found : r.p = p => r.o <= last.o BY <3>4, <3>5, <4>1
      <4>4. last.o \in Nat BY <4>1
      <4> QED BY <4>1, <4>2, <4>3, <4>4, <3>7, <2>3
    <3>8. CASE from.walk # "oldest"
      <4>1. PICK last \in found : last.p = p /\ last.o = Min(K) BY <3>4, <3>5
      <4>2. at[p] = last.o BY <3>6, <3>8, <4>1
      <4>3. \A r \in found : r.p = p => r.o >= last.o
        <5> SUFFICES ASSUME NEW r \in found, r.p = p PROVE r.o >= last.o OBVIOUS
        <5>1. r.o \in K BY <3>4
        <5>2. Min(K) <= r.o BY <5>1, <3>5
        <5> QED BY <5>2, <4>1
      <4>4. last.o \in Nat BY <4>1
      <4> QED BY <4>1, <4>2, <4>3, <4>4, <3>8, <2>3
    <3> QED BY <3>7, <3>8
  <2>4. CASE ~(Cardinality(found) < room) /\ Kept(p) = {}
    <3>1. Go(p) = Near(covered[p]) BY <2>4, <1>0
    <3>2. \A r \in found : r.p # p BY <2>4
    <3> QED BY <3>1, <3>2, <2>1, <2>4, <1>4
  <2> QED BY <2>2, <2>3, <2>4
<1>5. \A p \in DOMAIN at \ DOMAIN covered : at[p] = from.at[p] BY <1>3
<1> HIDE DEF at
<1>6. \A p \in DOMAIN at : at[p] \in Nat BY <1>2, <1>3, <1>4, <1>5
<1>7. MovesTo(from, covered, found, room, at) BY <1>3, <1>4, <1>5, <1>6 DEF MovesTo
<1> QED BY <1>1, <1>7

\* A key was pushed when its record was polled and matched.
LEMMA PushedIff ==
  ASSUME NEW logs, NEW ws, NEW at, NEW k
  PROVE  k \in PushedOf(logs, ws, at) <=>
           /\ k.p \in DOMAIN ws /\ k.o \in PolledOf(logs[k.p], ws[k.p], at[k.p])
           /\ logs[k.p].recs[k.o].matches
           /\ k = [ts |-> RankOf(logs[k.p], ws[k.p], k.o), p |-> k.p, o |-> k.o]
<1> DEFINE KeyAt(p, o) == [ts |-> RankOf(logs[p], ws[p], o), p |-> p, o |-> o]
           Of(p) == {i \in PolledOf(logs[p], ws[p], at[p]) : logs[p].recs[i].matches}
<1>1. k \in PushedOf(logs, ws, at) <=> \E p \in DOMAIN ws : \E o \in Of(p) : k = KeyAt(p, o)
  BY DEF PushedOf
<1>2. \A p, o : KeyAt(p, o).p = p /\ KeyAt(p, o).o = o OBVIOUS
<1>3. \A p, o : o \in Of(p) <=> o \in PolledOf(logs[p], ws[p], at[p]) /\ logs[p].recs[o].matches
  OBVIOUS
<1> HIDE DEF KeyAt, Of
<1>4. k \in PushedOf(logs, ws, at) <=> k.p \in DOMAIN ws /\ k.o \in Of(k.p) /\ k = KeyAt(k.p, k.o)
  BY <1>1, <1>2
<1> QED BY <1>3, <1>4 DEF KeyAt

\* Ranking timestamps rise with the offset within a window (WindowScan::rank).
LEMMA RankFacts ==
  ASSUME NEW l, IsLog(l), NEW w, w.start \in Nat, NEW o \in DOMAIN l.recs, w.start <= o
  PROVE  /\ RankOf(l, w, o) \in Int
         /\ \A i \in DOMAIN l.recs : o <= i => RankOf(l, w, o) <= RankOf(l, w, i)
         /\ RankOf(l, w, o) >= l.recs[o].ts
<1> DEFINE Upto(i) == {j \in DOMAIN l.recs : w.start <= j /\ j <= i}
           Stamps(i) == {l.recs[j].ts : j \in Upto(i)}
<1>1. /\ DOMAIN l.recs \subseteq Nat /\ IsFiniteSet(DOMAIN l.recs)
      /\ \A i \in DOMAIN l.recs : l.recs[i].ts \in Int
  BY DEF IsLog
<1>2. ASSUME NEW i \in DOMAIN l.recs, w.start <= i
      PROVE  /\ RankOf(l, w, i) \in Int /\ RankOf(l, w, i) \in Stamps(i)
             /\ \A t \in Stamps(i) : t <= RankOf(l, w, i)
  <2> DEFINE U == Upto(i)
             S == Stamps(i)
  <2>1. RankOf(l, w, i) = Max(S) BY DEF RankOf, StampsOf
  <2>2. IsFiniteSet(S)
    <3>1. IsFiniteSet(U) BY <1>1, FS_Subset
    <3> DEFINE f == [x \in U |-> l.recs[x].ts]
               T == {l.recs[x].ts : x \in U}
    <3>2. S = T OBVIOUS
    <3> HIDE DEF U, S
    <3>3. f \in Surjection(U, T) BY DEF Surjection
    <3> HIDE DEF f, T
    <3>4. IsFiniteSet(T) BY <3>1, <3>3, FS_Surjection
    <3> QED BY <3>2, <3>4
  <2>3. S \in SUBSET Int BY <1>1
  <2>4. S # {}
    <3>1. i \in Upto(i) BY <1>1, <1>2
    <3> QED BY <3>1
  <2> HIDE DEF S
  <2>5. Max(S) \in S /\ \A j \in S : j <= Max(S) BY <2>2, <2>3, <2>4, GreatestOf
  <2> QED BY <2>1, <2>3, <2>5 DEF S
<1>3. ASSUME NEW i \in DOMAIN l.recs, o <= i
      PROVE  RankOf(l, w, o) <= RankOf(l, w, i)
  <2>1. w.start <= i BY <1>1, <1>3
  <2>2. Stamps(o) \subseteq Stamps(i) BY <1>1, <1>3
  <2>3. RankOf(l, w, o) \in Stamps(o) BY <1>2
  <2>4. \A t \in Stamps(i) : t <= RankOf(l, w, i) BY <1>2, <2>1
  <2> HIDE DEF Stamps
  <2> QED BY <2>2, <2>3, <2>4
<1>4. l.recs[o].ts \in Stamps(o)
  <2>1. o \in Upto(o) BY <1>1
  <2> QED BY <2>1
<1>5. RankOf(l, w, o) \in Int /\ \A t \in Stamps(o) : t <= RankOf(l, w, o) BY <1>2
<1> HIDE DEF Stamps
<1>6. RankOf(l, w, o) >= l.recs[o].ts BY <1>1, <1>4, <1>5
<1> QED BY <1>3, <1>5, <1>6

\* A pass of a read: where it starts, what it has polled and kept, and what it
\* is still to read.
IsPass(ms, logs, ord, size, c, at, room, b, left) ==
  LET ws == Windows(ms, ord, size, c) IN
  /\ AreMarks(ms) /\ DOMAIN ms \subseteq Nat /\ IsFiniteSet(DOMAIN ms)
  /\ \A p \in DOMAIN ms : IsLog(logs[p])
  /\ ord \in Orders /\ size \in Nat \ {0} /\ room \in Nat \ {0}
  /\ c = NoCursor \/ (c \in Cursors /\ c.order = ord)
  /\ at \in [DOMAIN ws -> Nat] /\ left \subseteq DOMAIN ws
  /\ \A p \in DOMAIN ws \ left : \A o \in DOMAIN logs[p].recs :
       o < ws[p].end => o < at[p]
  /\ Best(b, PushedOf(logs, ws, at), room, ord, FromOf(ms, ord, c).walk)

FoundIn(b) == {[p |-> k.p, o |-> k.o] : k \in b}

IsMatch(logs, r) ==
  /\ r = [p |-> r.p, o |-> r.o]
  /\ r.o \in DOMAIN logs[r.p].recs /\ logs[r.p].recs[r.o].matches

\* The windows of a pass, seen from the records.
LEMMA PassWindows ==
  ASSUME NEW ms, NEW logs, NEW ord, NEW size, NEW c, NEW at, NEW room, NEW b, NEW left,
         IsPass(ms, logs, ord, size, c, at, room, b, left)
  PROVE  LET ws == Windows(ms, ord, size, c)
             from == FromOf(ms, ord, c) IN
         /\ from \in Cursors /\ from.order = ord
         /\ DOMAIN ws \subseteq DOMAIN ms \cap DOMAIN from.at
         /\ \A p \in DOMAIN ws :
              /\ ws[p].start \in Nat /\ ws[p].end \in Nat /\ ws[p].start < ws[p].end
              /\ ms[p].low <= ws[p].start /\ ws[p].end <= ms[p].high
         /\ \A r : InSpan(ms, r) /\ r.p \in DOMAIN ws =>
              (Reached(from.walk, from.at, r) <=>
                 IF from.walk = "oldest" THEN r.o < ws[r.p].start ELSE r.o >= ws[r.p].end)
         /\ \A r : InSpan(ms, r) /\ r.p \notin DOMAIN ws => Reached(from.walk, from.at, r)
<1> DEFINE ws == Windows(ms, ord, size, c)
           from == FromOf(ms, ord, c)
<1>1. /\ AreMarks(ms) /\ DOMAIN ms \subseteq Nat /\ IsFiniteSet(DOMAIN ms)
      /\ ord \in Orders /\ size \in Nat \ {0}
      /\ c = NoCursor \/ (c \in Cursors /\ c.order = ord)
  BY DEF IsPass
<1>2. from \in Cursors /\ from.order = ord BY <1>1, FromIsCursor
<1>3. /\ DOMAIN ws = {p \in DOMAIN ms \cap DOMAIN from.at :
                           Unread(ms[p], from.walk, from.at[p])}
      /\ \A p \in DOMAIN ws :
              /\ ws[p].start \in Nat /\ ws[p].end \in Nat
              /\ ms[p].low <= ws[p].start /\ ws[p].start < ws[p].end
              /\ ws[p].end <= ms[p].high
              /\ \A o \in Nat : ms[p].low <= o /\ o < ms[p].high =>
                   /\ from.walk = "oldest" => (o < from.at[p] <=> o < ws[p].start)
                   /\ from.walk = "newest" => (o >= from.at[p] <=> o >= ws[p].end)
  BY <1>1, WindowsFacts
<1> HIDE DEF ws, from
<1>4. from.walk \in Orders /\ \A p \in DOMAIN from.at : from.at[p] \in Nat BY <1>2, CursorParts
<1>5. ASSUME NEW r, InSpan(ms, r), r.p \in DOMAIN ws
      PROVE  Reached(from.walk, from.at, r) <=>
               IF from.walk = "oldest" THEN r.o < ws[r.p].start ELSE r.o >= ws[r.p].end
  <2>1. r.o \in Nat /\ ms[r.p].low <= r.o /\ r.o < ms[r.p].high BY <1>5 DEF InSpan
  <2>2. r.p \in DOMAIN from.at BY <1>3, <1>5
  <2>3. /\ from.walk = "oldest" => (r.o < from.at[r.p] <=> r.o < ws[r.p].start)
        /\ from.walk = "newest" => (r.o >= from.at[r.p] <=> r.o >= ws[r.p].end)
    BY <1>3, <1>5, <2>1
  <2> QED BY <2>2, <2>3, <1>4 DEF Reached, Orders
<1>6. ASSUME NEW r, InSpan(ms, r), r.p \notin DOMAIN ws
      PROVE  Reached(from.walk, from.at, r)
  <2>1. /\ r.p \in DOMAIN ms /\ r.o \in Nat /\ ms[r.p].low <= r.o /\ r.o < ms[r.p].high
        /\ ms[r.p].low \in Nat /\ ms[r.p].high \in Nat
    BY <1>1, <1>6 DEF InSpan, AreMarks
  <2>2. ASSUME r.p \in DOMAIN from.at
        PROVE  IF from.walk = "oldest" THEN r.o < from.at[r.p] ELSE r.o >= from.at[r.p]
    <3>1. ~Unread(ms[r.p], from.walk, from.at[r.p]) BY <2>1, <2>2, <1>3, <1>6
    <3>2. from.at[r.p] \in Nat BY <1>4, <2>2
    <3> QED BY <3>1, <3>2, <2>1, <1>4 DEF Unread, AtLeast, AtMost, Orders
  <2> QED BY <2>2 DEF Reached
<1>7. DOMAIN ws \subseteq DOMAIN ms \cap DOMAIN from.at BY <1>3
<1>8. \A p \in DOMAIN ws :
              /\ ws[p].start \in Nat /\ ws[p].end \in Nat /\ ws[p].start < ws[p].end
              /\ ms[p].low <= ws[p].start /\ ws[p].end <= ms[p].high
  BY <1>3
<1> QED BY <1>2, <1>5, <1>6, <1>7, <1>8 DEF ws, from

\* What a pass keeps: records of the query, from its windows, each once.
LEMMA FoundFacts ==
  ASSUME NEW ms, NEW logs, NEW ord, NEW size, NEW c, NEW at, NEW room, NEW b, NEW left,
         IsPass(ms, logs, ord, size, c, at, room, b, left)
  PROVE  LET ws == Windows(ms, ord, size, c)
             from == FromOf(ms, ord, c) IN
         /\ IsFiniteSet(FoundIn(b)) /\ Cardinality(FoundIn(b)) = Cardinality(b)
         /\ Cardinality(b) <= room
         /\ \A r \in FoundIn(b) :
              /\ IsMatch(logs, r) /\ InSpan(ms, r) /\ r.p \in DOMAIN ws
              /\ ws[r.p].start <= r.o /\ r.o < ws[r.p].end /\ r.o < at[r.p]
              /\ ~Reached(from.walk, from.at, r)
              /\ [ts |-> RankOf(logs[r.p], ws[r.p], r.o), p |-> r.p, o |-> r.o] \in b
<1> DEFINE ws == Windows(ms, ord, size, c)
           from == FromOf(ms, ord, c)
<1>1. /\ \A p \in DOMAIN ms : IsLog(logs[p])
      /\ b \subseteq PushedOf(logs, ws, at) /\ IsFiniteSet(b) /\ Cardinality(b) <= room
      /\ at \in [DOMAIN ws -> Nat]
  BY DEF IsPass, Best
<1>2. /\ from \in Cursors /\ DOMAIN ws \subseteq DOMAIN ms \cap DOMAIN from.at
      /\ \A p \in DOMAIN ws :
           /\ ws[p].start \in Nat /\ ws[p].end \in Nat /\ ws[p].start < ws[p].end
           /\ ms[p].low <= ws[p].start /\ ws[p].end <= ms[p].high
      /\ \A r : InSpan(ms, r) /\ r.p \in DOMAIN ws =>
           (Reached(from.walk, from.at, r) <=>
              IF from.walk = "oldest" THEN r.o < ws[r.p].start ELSE r.o >= ws[r.p].end)
  BY PassWindows
<1>a. AreMarks(ms) BY DEF IsPass
<1> HIDE DEF ws, from
<1>3. ASSUME NEW k \in b
      PROVE  /\ k.p \in DOMAIN ws /\ k.o \in DOMAIN logs[k.p].recs /\ k.o \in Nat
             /\ ws[k.p].start <= k.o /\ k.o < ws[k.p].end /\ k.o < at[k.p]
             /\ logs[k.p].recs[k.o].matches
             /\ k = [ts |-> RankOf(logs[k.p], ws[k.p], k.o), p |-> k.p, o |-> k.o]
  <2>1. k \in PushedOf(logs, ws, at) BY <1>1
  <2>2. /\ k.p \in DOMAIN ws /\ k.o \in PolledOf(logs[k.p], ws[k.p], at[k.p])
        /\ logs[k.p].recs[k.o].matches
        /\ k = [ts |-> RankOf(logs[k.p], ws[k.p], k.o), p |-> k.p, o |-> k.o]
    BY <2>1, PushedIff
  <2>3. IsLog(logs[k.p]) BY <1>1, <1>2, <2>2
  <2>4. DOMAIN logs[k.p].recs \subseteq Nat BY <2>3 DEF IsLog
  <2> QED BY <2>2, <2>4 DEF PolledOf
<1> DEFINE f == [k \in b |-> [p |-> k.p, o |-> k.o]]
<1>4. f \in Bijection(b, FoundIn(b))
  <2>1. \A k, j \in b : f[k] = f[j] => k = j
    <3> SUFFICES ASSUME NEW k \in b, NEW j \in b, f[k] = f[j] PROVE k = j OBVIOUS
    <3>1. k.p = j.p /\ k.o = j.o OBVIOUS
    <3> HIDE DEF f
    <3> QED BY <3>1, <1>3
  <2>2. f \in [b -> FoundIn(b)] BY DEF FoundIn
  <2>3. \A r \in FoundIn(b) : \E k \in b : f[k] = r BY DEF FoundIn
  <2> HIDE DEF f
  <2>4. f \in Injection(b, FoundIn(b)) BY <2>1, <2>2 DEF Injection, IsInjective
  <2>5. f \in Surjection(b, FoundIn(b)) BY <2>2, <2>3 DEF Surjection
  <2> QED BY <2>4, <2>5 DEF Bijection
<1>5. IsFiniteSet(FoundIn(b)) /\ Cardinality(FoundIn(b)) = Cardinality(b)
  <2> HIDE DEF f
  <2>1. ExistsBijection(b, FoundIn(b)) BY <1>4 DEF ExistsBijection
  <2> QED BY <2>1, <1>1, FS_Bijection
<1>6. ASSUME NEW r \in FoundIn(b)
      PROVE   /\ IsMatch(logs, r) /\ InSpan(ms, r) /\ r.p \in DOMAIN ws
              /\ ws[r.p].start <= r.o /\ r.o < ws[r.p].end /\ r.o < at[r.p]
              /\ ~Reached(from.walk, from.at, r)
              /\ [ts |-> RankOf(logs[r.p], ws[r.p], r.o), p |-> r.p, o |-> r.o] \in b
  <2>1. PICK k \in b : r = [p |-> k.p, o |-> k.o] BY DEF FoundIn
  <2>2. r.p = k.p /\ r.o = k.o /\ r = [p |-> r.p, o |-> r.o] BY <2>1
  <2>3. /\ r.p \in DOMAIN ws /\ r.o \in DOMAIN logs[r.p].recs /\ r.o \in Nat
        /\ ws[r.p].start <= r.o /\ r.o < ws[r.p].end /\ r.o < at[r.p]
        /\ logs[r.p].recs[r.o].matches
    BY <1>3, <2>2
  <2>4. [ts |-> RankOf(logs[r.p], ws[r.p], r.o), p |-> r.p, o |-> r.o] \in b BY <1>3, <2>2
  <2>5. IsMatch(logs, r) BY <2>2, <2>3 DEF IsMatch
  <2>6. InSpan(ms, r)
    <3>1. ms[r.p].low \in Nat /\ ms[r.p].high \in Nat BY <1>a, <1>2, <2>3 DEF AreMarks
    <3> QED BY <2>3, <1>2, <3>1 DEF InSpan
  <2>7. ~Reached(from.walk, from.at, r)
    <3>1. Reached(from.walk, from.at, r) <=>
              IF from.walk = "oldest" THEN r.o < ws[r.p].start ELSE r.o >= ws[r.p].end
      BY <2>3, <2>6, <1>2
    <3>2. ws[r.p].start \in Nat /\ ws[r.p].end \in Nat BY <2>3, <1>2
    <3> QED BY <3>1, <3>2, <2>3
  <2> QED BY <2>3, <2>4, <2>5, <2>6, <2>7
<1> QED BY <1>1, <1>5, <1>6 DEF ws, from

\* WindowScan::outcome, of fixed windows.
CoveredOf(ws, left, way) ==
  [p \in DOMAIN ws |->
     IF p \notin left THEN ws[p]
     ELSE IF way = "newest" THEN [start |-> ws[p].end, end |-> ws[p].end]
     ELSE [start |-> ws[p].start, end |-> ws[p].start]]

\* The cursor after a pass, partition by partition.
LEMMA NextFacts ==
  ASSUME NEW ms, NEW logs, NEW ord, NEW size, NEW c, NEW at, NEW room, NEW b, NEW left,
         IsPass(ms, logs, ord, size, c, at, room, b, left)
  PROVE  LET ws == Windows(ms, ord, size, c)
             from == FromOf(ms, ord, c)
             next == Advance(ms, from, CoveredOf(ws, left, from.walk), FoundIn(b), room) IN
         /\ next # NoCursor => next \in Cursors /\ next.order = ord /\ next.walk = from.walk
         /\ \A r : InSpan(ms, r) /\ r.p \notin DOMAIN ws => Behind(next, r)
         /\ \A r : InSpan(ms, r) /\ r.p \in DOMAIN ws /\ Cardinality(FoundIn(b)) < room =>
              (Behind(next, r) <=>
                 IF from.walk = "oldest"
                 THEN r.o < (IF r.p \in left THEN ws[r.p].start ELSE ws[r.p].end)
                 ELSE r.o >= (IF r.p \in left THEN ws[r.p].end ELSE ws[r.p].start))
         /\ \A r : InSpan(ms, r) /\ r.p \in DOMAIN ws /\ ~(Cardinality(FoundIn(b)) < room) =>
              (Behind(next, r) <=>
                 \/ Reached(from.walk, from.at, r)
                 \/ \E last \in FoundIn(b) :
                      /\ last.p = r.p
                      /\ IF from.walk = "oldest" THEN r.o <= last.o ELSE r.o >= last.o)
<1> DEFINE ws == Windows(ms, ord, size, c)
           from == FromOf(ms, ord, c)
           covered == CoveredOf(ws, left, from.walk)
           found == FoundIn(b)
           next == Advance(ms, from, covered, found, room)
<1>1. /\ AreMarks(ms) /\ DOMAIN ms \subseteq Nat /\ room \in Nat BY DEF IsPass
<1>2. /\ from \in Cursors /\ from.order = ord /\ DOMAIN ws \subseteq DOMAIN ms \cap DOMAIN from.at
      /\ \A p \in DOMAIN ws :
           ws[p].start \in Nat /\ ws[p].end \in Nat /\ ws[p].start < ws[p].end
      /\ \A r : InSpan(ms, r) /\ r.p \in DOMAIN ws =>
              (Reached(from.walk, from.at, r) <=>
                 IF from.walk = "oldest" THEN r.o < ws[r.p].start ELSE r.o >= ws[r.p].end)
      /\ \A r : InSpan(ms, r) /\ r.p \notin DOMAIN ws => Reached(from.walk, from.at, r)
  BY PassWindows
<1>3. /\ IsFiniteSet(found)
      /\ \A r \in found : r.o \in Nat /\ r.p \in DOMAIN ws
           /\ ws[r.p].start <= r.o /\ r.o < ws[r.p].end
  BY FoundFacts DEF InSpan
<1> HIDE DEF ws, from, found
<1>4. from.walk \in Orders BY <1>2, CursorParts
<1>5. /\ DOMAIN covered = DOMAIN ws
      /\ \A p \in DOMAIN ws :
           /\ p \notin left => covered[p] = ws[p]
           /\ p \in left /\ from.walk = "newest" =>
                covered[p].start = ws[p].end /\ covered[p].end = ws[p].end
           /\ p \in left /\ from.walk = "oldest" =>
                covered[p].start = ws[p].start /\ covered[p].end = ws[p].start
  BY DEF CoveredOf
<1> HIDE DEF covered
<1>6. /\ DOMAIN covered \subseteq DOMAIN from.at
      /\ \A p \in DOMAIN covered : covered[p].start \in Nat /\ covered[p].end \in Nat
  BY <1>2, <1>4, <1>5 DEF Orders
<1>7a. PICK to :
           /\ next = Cursor(ms, from.order, from.walk, to)
           /\ MovesTo(from, covered, found, room, to)
  <2>1. \A r \in found : r.o \in Nat BY <1>3
  <2> QED BY <1>1, <1>2, <1>3, <1>6, <2>1, AdvanceFacts
<1> HIDE DEF next
<1>7. /\ next = Cursor(ms, from.order, from.walk, to)
      /\ DOMAIN to = DOMAIN from.at /\ \A p \in DOMAIN to : to[p] \in Nat
      /\ \A p \in DOMAIN to \ DOMAIN covered : to[p] = from.at[p]
      /\ \A p \in DOMAIN covered :
                \/ /\ Cardinality(found) < room
                   /\ to[p] = IF from.walk = "oldest" THEN covered[p].end
                              ELSE covered[p].start
                \/ /\ ~(Cardinality(found) < room)
                   /\ \E last \in found :
                        /\ last.p = p
                        /\ to[p] = IF from.walk = "oldest" THEN last.o + 1 ELSE last.o
                        /\ \A r \in found : r.p = p =>
                             IF from.walk = "oldest" THEN r.o <= last.o ELSE r.o >= last.o
                \/ /\ ~(Cardinality(found) < room)
                   /\ \A r \in found : r.p # p
                   /\ to[p] = IF from.walk = "oldest" THEN covered[p].start
                              ELSE covered[p].end
  BY <1>7a DEF MovesTo
<1>8. /\ next # NoCursor => next \in Cursors /\ next.order = ord /\ next.walk = from.walk
      /\ \A r : InSpan(ms, r) => (Behind(next, r) <=> Reached(from.walk, to, r))
  <2>1. IsFiniteSet(DOMAIN to) BY <1>2, <1>7, CursorParts
  <2>2. ord \in Orders BY DEF IsPass
  <2> QED BY <1>1, <1>2, <1>4, <1>7, <2>1, <2>2, CursorReaches
<1>9. ASSUME NEW r, InSpan(ms, r), r.p \notin DOMAIN ws PROVE Behind(next, r)
  <2>1. Reached(from.walk, from.at, r) BY <1>2, <1>9
  <2>2. r.p \in DOMAIN to => to[r.p] = from.at[r.p] BY <1>5, <1>7, <1>9
  <2>3. Reached(from.walk, to, r) BY <2>1, <2>2, <1>7 DEF Reached
  <2> QED BY <2>3, <1>8, <1>9
<1>10. ASSUME NEW r, InSpan(ms, r), r.p \in DOMAIN ws, Cardinality(found) < room
       PROVE  Behind(next, r) <=>
                 IF from.walk = "oldest"
                 THEN r.o < (IF r.p \in left THEN ws[r.p].start ELSE ws[r.p].end)
                 ELSE r.o >= (IF r.p \in left THEN ws[r.p].end ELSE ws[r.p].start)
  <2>1. r.p \in DOMAIN to BY <1>2, <1>7, <1>10
  <2>2. to[r.p] = IF from.walk = "oldest" THEN covered[r.p].end ELSE covered[r.p].start
    BY <1>5, <1>7, <1>10
  <2>3. to[r.p] = IF from.walk = "oldest"
                  THEN (IF r.p \in left THEN ws[r.p].start ELSE ws[r.p].end)
                  ELSE (IF r.p \in left THEN ws[r.p].end ELSE ws[r.p].start)
    BY <2>2, <1>4, <1>5, <1>10 DEF Orders
  <2>4. Behind(next, r) <=> IF from.walk = "oldest" THEN r.o < to[r.p] ELSE r.o >= to[r.p]
    BY <2>1, <1>8, <1>10 DEF Reached
  <2> QED BY <2>3, <2>4
<1>11. ASSUME NEW r, InSpan(ms, r), r.p \in DOMAIN ws, ~(Cardinality(found) < room)
       PROVE  Behind(next, r) <=>
                 \/ Reached(from.walk, from.at, r)
                 \/ \E last \in found :
                      /\ last.p = r.p
                      /\ IF from.walk = "oldest" THEN r.o <= last.o ELSE r.o >= last.o
  <2>1. r.p \in DOMAIN to /\ r.o \in Nat BY <1>2, <1>7, <1>11 DEF InSpan
  <2>2. Behind(next, r) <=> IF from.walk = "oldest" THEN r.o < to[r.p] ELSE r.o >= to[r.p]
    BY <2>1, <1>8, <1>11 DEF Reached
  <2>3. Reached(from.walk, from.at, r) <=>
          IF from.walk = "oldest" THEN r.o < ws[r.p].start ELSE r.o >= ws[r.p].end
    BY <1>2, <1>11
  <2>4. ws[r.p].start \in Nat /\ ws[r.p].end \in Nat BY <1>2, <1>11
  <2>5. \/ \E last \in found :
             /\ last.p = r.p
             /\ to[r.p] = IF from.walk = "oldest" THEN last.o + 1 ELSE last.o
             /\ \A q \in found : q.p = r.p =>
                  IF from.walk = "oldest" THEN q.o <= last.o ELSE q.o >= last.o
        \/ /\ \A q \in found : q.p # r.p
           /\ to[r.p] = IF from.walk = "oldest" THEN covered[r.p].start ELSE covered[r.p].end
    BY <1>5, <1>7, <1>11
  <2>6. CASE \E last \in found :
               /\ last.p = r.p
               /\ to[r.p] = IF from.walk = "oldest" THEN last.o + 1 ELSE last.o
               /\ \A q \in found : q.p = r.p =>
                    IF from.walk = "oldest" THEN q.o <= last.o ELSE q.o >= last.o
    <3>1. PICK last \in found :
               /\ last.p = r.p
               /\ to[r.p] = IF from.walk = "oldest" THEN last.o + 1 ELSE last.o
               /\ \A q \in found : q.p = r.p =>
                    IF from.walk = "oldest" THEN q.o <= last.o ELSE q.o >= last.o
      BY <2>6
    <3>2. last.o \in Nat /\ ws[r.p].start <= last.o /\ last.o < ws[r.p].end BY <3>1, <1>3
    <3>3. \A q \in found : q.o \in Nat BY <1>3
    <3>4. CASE from.walk = "oldest"
      <4>1. Behind(next, r) <=> r.o <= last.o BY <3>1, <3>2, <3>4, <2>1, <2>2
      <4>2. Reached(from.walk, from.at, r) => r.o <= last.o BY <2>1, <2>3, <2>4, <3>2, <3>4
      <4>3. (\E q \in found : q.p = r.p /\ r.o <= q.o) <=> r.o <= last.o
        BY <3>1, <3>2, <3>3, <3>4, <2>1
      <4> QED BY <4>1, <4>2, <4>3, <3>4
    <3>5. CASE from.walk # "oldest"
      <4>1. Behind(next, r) <=> r.o >= last.o BY <3>1, <3>2, <3>5, <2>1, <2>2
      <4>2. Reached(from.walk, from.at, r) => r.o >= last.o BY <2>1, <2>3, <2>4, <3>2, <3>5
      <4>3. (\E q \in found : q.p = r.p /\ r.o >= q.o) <=> r.o >= last.o
        BY <3>1, <3>2, <3>3, <3>5, <2>1
      <4> QED BY <4>1, <4>2, <4>3, <3>5
    <3> QED BY <3>4, <3>5
  <2>7. CASE /\ \A q \in found : q.p # r.p
             /\ to[r.p] = IF from.walk = "oldest" THEN covered[r.p].start ELSE covered[r.p].end
    <3>1. to[r.p] = IF from.walk = "oldest" THEN ws[r.p].start ELSE ws[r.p].end
      BY <2>7, <1>4, <1>5, <1>11 DEF Orders
    <3> QED BY <3>1, <2>2, <2>3, <2>7
  <2> QED BY <2>5, <2>6, <2>7
<1> QED BY <1>8, <1>9, <1>10, <1>11 DEF ws, from, found, next, covered

\* A pass leaves nothing in front that was behind, and what it kept behind unless
\* the deadline cut it.
LEMMA PassForward ==
  ASSUME NEW ms, NEW logs, NEW ord, NEW size, NEW c, NEW at, NEW room, NEW b, NEW left,
         IsPass(ms, logs, ord, size, c, at, room, b, left)
  PROVE  LET ws == Windows(ms, ord, size, c)
             from == FromOf(ms, ord, c)
             next == Advance(ms, from, CoveredOf(ws, left, from.walk), FoundIn(b), room) IN
         /\ \A r : InSpan(ms, r) /\ Reached(from.walk, from.at, r) => Behind(next, r)
         /\ left = {} => \A r \in FoundIn(b) : Behind(next, r)
<1> DEFINE ws == Windows(ms, ord, size, c)
           from == FromOf(ms, ord, c)
           found == FoundIn(b)
           next == Advance(ms, from, CoveredOf(ws, left, from.walk), found, room)
<1>2. /\ from \in Cursors
      /\ \A p \in DOMAIN ws :
           ws[p].start \in Nat /\ ws[p].end \in Nat /\ ws[p].start < ws[p].end
      /\ \A r : InSpan(ms, r) /\ r.p \in DOMAIN ws =>
              (Reached(from.walk, from.at, r) <=>
                 IF from.walk = "oldest" THEN r.o < ws[r.p].start ELSE r.o >= ws[r.p].end)
  BY PassWindows
<1>3. \A r \in found : InSpan(ms, r) /\ r.p \in DOMAIN ws
           /\ ws[r.p].start <= r.o /\ r.o < ws[r.p].end
  BY FoundFacts
<1>4. /\ \A r : InSpan(ms, r) /\ r.p \notin DOMAIN ws => Behind(next, r)
      /\ \A r : InSpan(ms, r) /\ r.p \in DOMAIN ws /\ Cardinality(found) < room =>
              (Behind(next, r) <=>
                 IF from.walk = "oldest"
                 THEN r.o < (IF r.p \in left THEN ws[r.p].start ELSE ws[r.p].end)
                 ELSE r.o >= (IF r.p \in left THEN ws[r.p].end ELSE ws[r.p].start))
      /\ \A r : InSpan(ms, r) /\ r.p \in DOMAIN ws /\ ~(Cardinality(found) < room) =>
              (Behind(next, r) <=>
                 \/ Reached(from.walk, from.at, r)
                 \/ \E last \in found :
                      /\ last.p = r.p
                      /\ IF from.walk = "oldest" THEN r.o <= last.o ELSE r.o >= last.o)
  BY NextFacts
<1> HIDE DEF ws, from, found, next
<1>5. ASSUME NEW r, InSpan(ms, r), Reached(from.walk, from.at, r) PROVE Behind(next, r)
  <2>1. CASE r.p \notin DOMAIN ws BY <2>1, <1>4, <1>5
  <2>2. CASE r.p \in DOMAIN ws /\ Cardinality(found) < room
    <3>1. r.o \in Nat /\ ws[r.p].start \in Nat /\ ws[r.p].end \in Nat
             /\ ws[r.p].start < ws[r.p].end
      BY <1>2, <1>5, <2>2 DEF InSpan
    <3>2. IF from.walk = "oldest" THEN r.o < ws[r.p].start ELSE r.o >= ws[r.p].end
      BY <1>2, <1>5, <2>2
    <3>3. IF from.walk = "oldest"
          THEN r.o < (IF r.p \in left THEN ws[r.p].start ELSE ws[r.p].end)
          ELSE r.o >= (IF r.p \in left THEN ws[r.p].end ELSE ws[r.p].start)
      BY <3>1, <3>2
    <3> QED BY <3>3, <1>4, <1>5, <2>2
  <2>3. CASE r.p \in DOMAIN ws /\ ~(Cardinality(found) < room) BY <2>3, <1>4, <1>5
  <2> QED BY <2>1, <2>2, <2>3
<1>6. ASSUME left = {}, NEW r \in found PROVE Behind(next, r)
  <2>1. /\ InSpan(ms, r) /\ r.p \in DOMAIN ws /\ ws[r.p].start <= r.o /\ r.o < ws[r.p].end
        /\ r.p \notin left /\ r.o \in Nat
    BY <1>3, <1>6 DEF InSpan
  <2>2. CASE Cardinality(found) < room
    <3>1. IF from.walk = "oldest"
          THEN r.o < (IF r.p \in left THEN ws[r.p].start ELSE ws[r.p].end)
          ELSE r.o >= (IF r.p \in left THEN ws[r.p].end ELSE ws[r.p].start)
      BY <2>1, <1>2
    <3> QED BY <3>1, <2>1, <2>2, <1>4
  <2>3. CASE ~(Cardinality(found) < room)
    <3>1. IF from.walk = "oldest" THEN r.o <= r.o ELSE r.o >= r.o BY <2>1
    <3> QED BY <3>1, <2>1, <2>3, <1>4, <1>6
  <2> QED BY <2>2, <2>3
<1> QED BY <1>5, <1>6 DEF ws, from, found, next

\* A matching record that was polled is kept, or the batch is full of better ones.
LEMMA KeptOrBetter ==
  ASSUME NEW ms, NEW logs, NEW ord, NEW size, NEW c, NEW at, NEW room, NEW b, NEW left,
         IsPass(ms, logs, ord, size, c, at, room, b, left),
         NEW r, IsMatch(logs, r), r.p \in DOMAIN Windows(ms, ord, size, c),
         Windows(ms, ord, size, c)[r.p].start <= r.o,
         r.o < Windows(ms, ord, size, c)[r.p].end, r.o < at[r.p],
         r \notin FoundIn(b)
  PROVE  /\ Cardinality(FoundIn(b)) = room
         /\ \A last \in FoundIn(b) : last.p = r.p =>
              IF FromOf(ms, ord, c).walk = "oldest" THEN last.o < r.o ELSE last.o > r.o
<1> DEFINE ws == Windows(ms, ord, size, c)
           from == FromOf(ms, ord, c)
           key == [ts |-> RankOf(logs[r.p], ws[r.p], r.o), p |-> r.p, o |-> r.o]
<1>1. /\ \A p \in DOMAIN ms : IsLog(logs[p]) /\ p \in Nat
      /\ Best(b, PushedOf(logs, ws, at), room, ord, from.walk) /\ ord \in Orders
  BY DEF IsPass
<1>2. /\ from \in Cursors /\ DOMAIN ws \subseteq DOMAIN ms
      /\ \A p \in DOMAIN ws : ws[p].start \in Nat /\ ws[p].end \in Nat
  BY PassWindows
<1>3. /\ Cardinality(FoundIn(b)) = Cardinality(b)
      /\ \A q \in FoundIn(b) :
              /\ IsMatch(logs, q) /\ q.p \in DOMAIN ws
              /\ ws[q.p].start <= q.o
              /\ [ts |-> RankOf(logs[q.p], ws[q.p], q.o), p |-> q.p, o |-> q.o] \in b
  BY FoundFacts
<1>a. r.p \in DOMAIN ws /\ ws[r.p].start <= r.o /\ r.o < ws[r.p].end OBVIOUS
<1> HIDE DEF ws, from
<1>4. from.walk \in Orders BY <1>2, CursorParts
<1>5. /\ r.p \in DOMAIN ms /\ IsLog(logs[r.p]) /\ r.o \in DOMAIN logs[r.p].recs
      /\ logs[r.p].recs[r.o].matches /\ r.p \in Nat /\ r.o \in Nat
      /\ DOMAIN logs[r.p].recs \subseteq Nat /\ r = [p |-> r.p, o |-> r.o]
  <2>1. r.p \in DOMAIN ms /\ IsLog(logs[r.p]) /\ r.p \in Nat BY <1>1, <1>2, <1>a
  <2>2. DOMAIN logs[r.p].recs \subseteq Nat BY <2>1 DEF IsLog
  <2> QED BY <2>1, <2>2 DEF IsMatch
<1>6. key \in PushedOf(logs, ws, at)
  <2>1. r.o \in PolledOf(logs[r.p], ws[r.p], at[r.p]) BY <1>5, <1>a DEF PolledOf
  <2>2. key.p = r.p /\ key.o = r.o OBVIOUS
  <2>3. key = [ts |-> RankOf(logs[key.p], ws[key.p], key.o), p |-> key.p, o |-> key.o] OBVIOUS
  <2> HIDE DEF key
  <2> QED BY <2>1, <2>2, <2>3, <1>5, <1>a, PushedIff
<1>7. key \notin b
  <2> SUFFICES ASSUME key \in b PROVE FALSE OBVIOUS
  <2>1. [p |-> key.p, o |-> key.o] \in FoundIn(b) BY DEF FoundIn
  <2>2. [p |-> key.p, o |-> key.o] = r BY <1>5
  <2> QED BY <2>1, <2>2
<1>8. Cardinality(b) = room /\ \A k \in b : Ranks(k, key, ord, from.walk)
  BY <1>1, <1>6, <1>7 DEF Best
<1>9. ASSUME NEW last \in FoundIn(b), last.p = r.p
      PROVE  IF from.walk = "oldest" THEN last.o < r.o ELSE last.o > r.o
  <2> DEFINE k == [ts |-> RankOf(logs[r.p], ws[r.p], last.o), p |-> r.p, o |-> last.o]
  <2>1. k \in b BY <1>3, <1>9
  <2>2. Ranks(k, key, ord, from.walk) BY <2>1, <1>8
  <2>3. last.o \in DOMAIN logs[r.p].recs /\ ws[r.p].start <= last.o /\ ws[r.p].start \in Nat
    BY <1>2, <1>3, <1>9 DEF IsMatch
  <2>4. last.o \in Nat BY <2>3, <1>5
  <2>5. k \in Keys /\ key \in Keys
    <3>1. RankOf(logs[r.p], ws[r.p], last.o) \in Int BY <2>3, <1>5, RankFacts
    <3>2. RankOf(logs[r.p], ws[r.p], r.o) \in Int BY <2>3, <1>5, <1>a, RankFacts
    <3> QED BY <3>1, <3>2, <2>4, <1>5 DEF Keys
  <2>6. ~Ranks(key, k, ord, from.walk) BY <2>2, <2>5, <1>1, <1>4, RanksIsOrder
  <2>7. last.o # r.o
    <3> SUFFICES ASSUME last.o = r.o PROVE FALSE OBVIOUS
    <3>1. k = key OBVIOUS
    <3> HIDE DEF k, key
    <3> QED BY <3>1, <2>1, <1>7
  <2>8. last.o < r.o => k.ts <= key.ts
    <3>1. last.o < r.o => RankOf(logs[r.p], ws[r.p], last.o) <= RankOf(logs[r.p], ws[r.p], r.o)
      BY <2>3, <2>4, <1>5, RankFacts
    <3> QED BY <3>1
  <2>9. r.o < last.o => key.ts <= k.ts
    <3>1. r.o < last.o => RankOf(logs[r.p], ws[r.p], r.o) <= RankOf(logs[r.p], ws[r.p], last.o)
      BY <2>3, <2>4, <1>5, <1>a, RankFacts
    <3> QED BY <3>1
  <2>10. k.p = key.p /\ k.o = last.o /\ key.o = r.o OBVIOUS
  <2> HIDE DEF k, key
  <2>11. CASE last.o < r.o
    <3>1. IF from.walk = "oldest" THEN Ranks(k, key, ord, from.walk)
          ELSE Ranks(key, k, ord, from.walk)
      BY <2>11, <2>5, <2>8, <2>10, <1>1, <1>4, RanksInPartition
    <3> QED BY <3>1, <2>6, <2>11
  <2>12. CASE r.o < last.o
    <3>1. IF from.walk = "oldest" THEN Ranks(key, k, ord, from.walk)
          ELSE Ranks(k, key, ord, from.walk)
      BY <2>12, <2>5, <2>9, <2>10, <1>1, <1>4, RanksInPartition
    <3> QED BY <3>1, <2>6, <2>12, <2>4, <1>5
  <2> QED BY <2>4, <2>7, <2>11, <2>12, <1>5
<1> QED BY <1>3, <1>8, <1>9 DEF from

\* The cursor steps over no matching record that the pass did not keep, unless
\* the deadline cut a pass that walks down the log.
LEMMA PassComplete ==
  ASSUME NEW ms, NEW logs, NEW ord, NEW size, NEW c, NEW at, NEW room, NEW b, NEW left,
         IsPass(ms, logs, ord, size, c, at, room, b, left),
         left = {} \/ FromOf(ms, ord, c).walk = "oldest"
  PROVE  LET ws == Windows(ms, ord, size, c)
             from == FromOf(ms, ord, c)
             next == Advance(ms, from, CoveredOf(ws, left, from.walk), FoundIn(b), room) IN
         \A r : /\ IsMatch(logs, r) /\ InSpan(ms, r)
                /\ ~Reached(from.walk, from.at, r) /\ Behind(next, r)
                => r \in FoundIn(b)
<1> DEFINE ws == Windows(ms, ord, size, c)
           from == FromOf(ms, ord, c)
           found == FoundIn(b)
           next == Advance(ms, from, CoveredOf(ws, left, from.walk), found, room)
<1>1. /\ from \in Cursors
      /\ \A p \in DOMAIN ws :
           ws[p].start \in Nat /\ ws[p].end \in Nat /\ ws[p].start < ws[p].end
      /\ \A r : InSpan(ms, r) /\ r.p \in DOMAIN ws =>
              (Reached(from.walk, from.at, r) <=>
                 IF from.walk = "oldest" THEN r.o < ws[r.p].start ELSE r.o >= ws[r.p].end)
      /\ \A r : InSpan(ms, r) /\ r.p \notin DOMAIN ws => Reached(from.walk, from.at, r)
  BY PassWindows
<1>2. \A r \in found :
         r.o < at[r.p] /\ ws[r.p].start <= r.o /\ r.o < ws[r.p].end /\ InSpan(ms, r)
  BY FoundFacts
<1>3. /\ \A r : InSpan(ms, r) /\ r.p \in DOMAIN ws /\ Cardinality(found) < room =>
              (Behind(next, r) <=>
                 IF from.walk = "oldest"
                 THEN r.o < (IF r.p \in left THEN ws[r.p].start ELSE ws[r.p].end)
                 ELSE r.o >= (IF r.p \in left THEN ws[r.p].end ELSE ws[r.p].start))
      /\ \A r : InSpan(ms, r) /\ r.p \in DOMAIN ws /\ ~(Cardinality(found) < room) =>
              (Behind(next, r) <=>
                 \/ Reached(from.walk, from.at, r)
                 \/ \E last \in found :
                      /\ last.p = r.p
                      /\ IF from.walk = "oldest" THEN r.o <= last.o ELSE r.o >= last.o)
  BY NextFacts
<1>4. \A r : IsMatch(logs, r) /\ r.p \in DOMAIN ws /\ ws[r.p].start <= r.o
                /\ r.o < ws[r.p].end /\ r.o < at[r.p] /\ r \notin found =>
         /\ Cardinality(found) = room
         /\ \A last \in found : last.p = r.p =>
              IF from.walk = "oldest" THEN last.o < r.o ELSE last.o > r.o
  BY KeptOrBetter
<1>5. /\ \A p \in DOMAIN ws \ left : \A o \in DOMAIN logs[p].recs :
           o < ws[p].end => o < at[p]
      /\ at \in [DOMAIN ws -> Nat] /\ room \in Nat
  BY DEF IsPass
<1>6. left = {} \/ from.walk = "oldest" OBVIOUS
<1> HIDE DEF ws, from, found, next
<1>7. ASSUME NEW r, IsMatch(logs, r), InSpan(ms, r), ~Reached(from.walk, from.at, r),
             Behind(next, r), r \notin found
      PROVE  FALSE
  <2>1. r.p \in DOMAIN ws BY <1>1, <1>7
  <2>2. /\ r.o \in Nat /\ ws[r.p].start \in Nat /\ ws[r.p].end \in Nat /\ at[r.p] \in Nat
        /\ r.o \in DOMAIN logs[r.p].recs
    BY <1>1, <1>5, <1>7, <2>1 DEF InSpan, IsMatch
  <2>3. IF from.walk = "oldest" THEN r.o >= ws[r.p].start ELSE r.o < ws[r.p].end
    BY <1>1, <1>7, <2>1, <2>2
  <2>4. CASE Cardinality(found) < room
    <3>1. IF from.walk = "oldest"
          THEN r.o < (IF r.p \in left THEN ws[r.p].start ELSE ws[r.p].end)
          ELSE r.o >= (IF r.p \in left THEN ws[r.p].end ELSE ws[r.p].start)
      BY <1>3, <1>7, <2>1, <2>4
    <3>2. r.p \notin left /\ ws[r.p].start <= r.o /\ r.o < ws[r.p].end
      BY <3>1, <2>2, <2>3
    <3>3. r.o < at[r.p] BY <3>2, <2>1, <2>2, <1>5
    <3>4. Cardinality(found) = room BY <3>2, <3>3, <2>1, <1>4, <1>7
    <3> QED BY <3>4, <2>4, <1>5
  <2>5. CASE ~(Cardinality(found) < room)
    <3>1. PICK last \in found :
            /\ last.p = r.p
            /\ IF from.walk = "oldest" THEN r.o <= last.o ELSE r.o >= last.o
      BY <1>3, <1>7, <2>1, <2>5
    <3>2. /\ last.o \in Nat /\ last.o < at[r.p]
          /\ ws[r.p].start <= last.o /\ last.o < ws[r.p].end
      BY <3>1, <1>2 DEF InSpan
    <3>3. ws[r.p].start <= r.o /\ r.o < ws[r.p].end BY <3>1, <3>2, <2>2, <2>3
    <3>4. r.o < at[r.p]
      <4>1. CASE from.walk = "oldest" BY <4>1, <3>1, <3>2, <2>2
      <4>2. CASE left = {} BY <4>2, <3>3, <2>1, <2>2, <1>5
      <4> QED BY <4>1, <4>2, <1>6
    <3>5. IF from.walk = "oldest" THEN last.o < r.o ELSE last.o > r.o
      BY <3>1, <3>3, <3>4, <2>1, <1>4, <1>7
    <3> QED BY <3>1, <3>2, <3>5, <2>2
  <2> QED BY <2>4, <2>5
<1> QED BY <1>7 DEF ws, from, found, next

\* A pass up the log that keeps one record keeps the first one of its window, once
\* it has polled any.
LEMMA PassFirst ==
  ASSUME NEW ms, NEW logs, NEW ord, NEW size, NEW c, NEW at, NEW b, NEW left,
         IsPass(ms, logs, ord, size, c, at, 1, b, left), FromOf(ms, ord, c).walk = "oldest",
         NEW r, IsMatch(logs, r), DOMAIN Windows(ms, ord, size, c) = {r.p},
         r.o = Windows(ms, ord, size, c)[r.p].start, left = {} \/ b # {}
  PROVE  r \in FoundIn(b)
<1> DEFINE ws == Windows(ms, ord, size, c)
           found == FoundIn(b)
<1>1. \A p \in DOMAIN ws :
           ws[p].start \in Nat /\ ws[p].end \in Nat /\ ws[p].start < ws[p].end
  BY PassWindows
<1>2. /\ IsFiniteSet(found) /\ Cardinality(found) = Cardinality(b)
      /\ \A q \in found : /\ r.o <= q.o /\ q.o < at[r.p] /\ InSpan(ms, q) /\ q.p = r.p
  BY FoundFacts
<1>3. /\ \A p \in DOMAIN ws \ left : \A o \in DOMAIN logs[p].recs :
           o < ws[p].end => o < at[p]
      /\ at \in [DOMAIN ws -> Nat] /\ DOMAIN ws = {r.p} /\ r.o = ws[r.p].start
  BY DEF IsPass
<1>4. ws[r.p].start <= r.o /\ r.o < ws[r.p].end /\ r.o < at[r.p] =>
        \/ r \in found
        \/ /\ Cardinality(found) = 1
           /\ \A last \in found : last.p = r.p => last.o < r.o
  BY KeptOrBetter
<1>5. b # {} => found # {} BY DEF FoundIn
<1> HIDE DEF ws, found
<1>6. r.o \in DOMAIN logs[r.p].recs BY DEF IsMatch
<1>7. r.o \in Nat /\ at[r.p] \in Nat /\ ws[r.p].end \in Nat /\ r.o < ws[r.p].end
  BY <1>1, <1>3
<1>8. r.o < at[r.p]
  <2>1. CASE left = {} BY <2>1, <1>3, <1>6, <1>7
  <2>2. CASE b # {}
    <3>1. PICK q \in found : TRUE BY <2>2, <1>5
    <3>2. q.o \in Nat /\ r.o <= q.o /\ q.o < at[r.p] BY <3>1, <1>2 DEF InSpan
    <3> QED BY <3>2, <1>7
  <2> QED BY <2>1, <2>2
<1>9. ASSUME r \notin found PROVE FALSE
  <2>1. Cardinality(found) = 1 /\ \A last \in found : last.p = r.p => last.o < r.o
    BY <1>3, <1>4, <1>7, <1>8, <1>9
  <2>2. found # {} BY <2>1, FS_EmptySet
  <2>3. PICK q \in found : TRUE BY <2>2
  <2>4. q.o \in Nat /\ r.o <= q.o /\ q.p = r.p /\ q.o < r.o BY <1>2, <2>1, <2>3 DEF InSpan
  <2> QED BY <2>4, <1>7
<1> QED BY <1>9 DEF found

------------------------------------------------------------------------------
(* The read as its state has it.                                             *)

\* What the timestamps up to a record say, of its log.
LEMMA StampsFacts ==
  ASSUME NEW r, NEW p, NEW o, r = [p |-> p, o |-> o], IsLog(log[p])
  PROVE  /\ \A instant \in Int :
              (\E ts \in StampsUpTo(r) : ts >= instant) <=> Since(log[p], o, instant)
         /\ \A instant \in Int :
              (\A ts \in StampsUpTo(r) : ts <= instant) <=> ~Since(log[p], o, instant + 1)
<1>1. /\ r.p = p /\ r.o = o
      /\ \A i \in DOMAIN log[p].recs : log[p].recs[i].ts \in Int
  BY DEF IsLog
<1>2. StampsUpTo(r) =
        {log[p].recs[i].ts : i \in {j \in DOMAIN log[p].recs : log[p].low <= j /\ j <= o}}
  BY <1>1 DEF StampsUpTo
<1> QED BY <1>1, <1>2 DEF Since

\* An accepted query, its span, and the records it is about.
LEMMA QueryFacts ==
  ASSUME Posed, Running
  PROVE  /\ order \in Orders /\ query.limit \in Nat \ {0} /\ take \in Nat
         /\ query.searching \in BOOLEAN
         /\ Selected \subseteq DOMAIN log
         /\ AreMarks(Span) /\ DOMAIN Span = Selected
         /\ DOMAIN Span \subseteq Nat /\ IsFiniteSet(DOMAIN Span)
         /\ \A p \in DOMAIN Span : IsLog(log[p])
         /\ Way \in Orders
         /\ query.cursor = NoCursor \/ IsAlong(query.cursor)
         /\ \A r : r \in InQuery <=> IsMatch(log, r) /\ InSpan(Span, r)
<1>1. /\ IsFiniteSet(DOMAIN log) /\ IsRequest(params)
      /\ \A p \in DOMAIN log : p \in Nat /\ IsLog(log[p])
      /\ RefusedQuery(params) = "no" /\ query = IntoQuery(params)
      /\ params.partitions \subseteq DOMAIN log
  BY DEF Posed, Running
<1>2. /\ query.order \in Orders /\ query.limit \in Nat \ {0} /\ query.searching \in BOOLEAN
      /\ query.partitions \in SUBSET Nat
      /\ query.from \subseteq Int /\ query.to \subseteq Int
      /\ Optional(query.from) /\ Optional(query.to)
      /\ query.cursor = NoCursor \/ (query.cursor \in Cursors /\ query.cursor.order = query.order)
  BY <1>1, AcceptedRequest
<1>3. query.partitions = params.partitions BY <1>1 DEF IntoQuery
<1>4. Selected \subseteq DOMAIN log BY <1>1, <1>3 DEF Selected
<1>5. DOMAIN Span = Selected /\ \A p \in Selected : Span[p] = Bounds(log[p], query)
  BY DEF Span
<1>6. IsFiniteSet(Selected) BY <1>1, <1>4, FS_Subset
<1>7. \A p \in Selected : p \in Nat /\ IsLog(log[p]) BY <1>1, <1>4
<1>8. ASSUME NEW p \in Selected
      PROVE  /\ Span[p].low \in Nat /\ Span[p].high \in Nat /\ Span[p].low <= Span[p].high
             /\ \A o \in DOMAIN log[p].recs :
                  Span[p].low <= o /\ o < Span[p].high <=>
                    /\ log[p].low <= o /\ o < log[p].high
                    /\ \A from \in query.from : Since(log[p], o, from)
                    /\ \A to \in query.to : ~Since(log[p], o, to + 1)
  BY <1>2, <1>5, <1>7, BoundsFacts
<1>9. AreMarks(Span) BY <1>5, <1>8 DEF AreMarks
<1>10. Way \in Orders BY <1>2, CursorParts DEF Way
<1>11. query.cursor = NoCursor \/ IsAlong(query.cursor)
  BY <1>2, CursorParts DEF IsAlong, Way
<1>12. take \in Nat BY <1>2, TakeIsNat DEF take
<1>13. ASSUME NEW r PROVE r \in InQuery <=> IsMatch(log, r) /\ InSpan(Span, r)
  <2> DEFINE Holds(p, i) ==
                   /\ log[p].low <= i /\ i < log[p].high
                   /\ log[p].recs[i].matches
                   /\ \A from \in query.from : Since(log[p], i, from)
                   /\ \A to \in query.to : ~Since(log[p], i, to + 1)
  <2>1. r \in InQuery <=> \E p \in Selected : \E o \in DOMAIN log[p].recs :
                            Holds(p, o) /\ r = [p |-> p, o |-> o]
    <3>1. r \in Unstamped <=> \E p \in Selected : \E o \in DOMAIN log[p].recs :
             /\ log[p].low <= o /\ o < log[p].high /\ log[p].recs[o].matches
             /\ r = [p |-> p, o |-> o]
      BY DEF Unstamped
    <3>2. ASSUME NEW p \in Selected, NEW o \in DOMAIN log[p].recs, r = [p |-> p, o |-> o]
          PROVE  /\ \A from \in query.from :
                      (\E ts \in StampsUpTo(r) : ts >= from) <=> Since(log[p], o, from)
                 /\ \A to \in query.to :
                      (\A ts \in StampsUpTo(r) : ts <= to) <=> ~Since(log[p], o, to + 1)
      BY <3>2, StampsFacts, <1>2, <1>7
    <3> QED BY <3>1, <3>2 DEF InQuery
  <2>2. \A p, o : r = [p |-> p, o |-> o] <=> r.p = p /\ r.o = o /\ r = [p |-> r.p, o |-> r.o]
    OBVIOUS
  <2>3. \A p \in Selected : \A o \in DOMAIN log[p].recs :
          Holds(p, o) <=> log[p].recs[o].matches /\ Span[p].low <= o /\ o < Span[p].high
    BY <1>8
  <2> HIDE DEF Holds
  <2>4. r \in InQuery <=> /\ r = [p |-> r.p, o |-> r.o] /\ r.p \in Selected
                          /\ r.o \in DOMAIN log[r.p].recs /\ Holds(r.p, r.o)
    BY <2>1, <2>2
  <2>5. r.p \in Selected => DOMAIN log[r.p].recs \subseteq Nat BY <1>7 DEF IsLog
  <2> QED BY <2>3, <2>4, <2>5, <1>5 DEF IsMatch, InSpan
<1>14. \A p \in DOMAIN Span : p \in Nat /\ IsLog(log[p]) BY <1>5, <1>7
<1>15. order \in Orders BY <1>2 DEF order
<1> QED BY <1>2, <1>4, <1>5, <1>6, <1>9, <1>10, <1>11, <1>12, <1>13, <1>14, <1>15

\* When Kafka answers for every partition, the watermarks are the span.
LEMMA AnsweredIsSpan == Resolved(AllAnswered) = Span
<1>1. /\ Selected \ AllAnswered.high = Selected
      /\ AllAnswered.low = {} /\ AllAnswered.from = {} /\ AllAnswered.to = {}
  BY DEF AllAnswered
<1>2. \A p \in Selected :
        /\ MergeWatermarks(log[p], p \in AllAnswered.low) = [low |-> log[p].low, high |-> log[p].high]
        /\ Lookups(log[p], StartSeek(query), p \in AllAnswered.from)
             = {OffsetForTime(log[p], instant) : instant \in StartSeek(query)}
        /\ Lookups(log[p], EndSeek(query), p \in AllAnswered.to)
             = {OffsetForTime(log[p], instant) : instant \in EndSeek(query)}
  BY <1>1 DEF MergeWatermarks, Lookups
<1>3. \A p \in Selected :
        ApplyTimestampBounds(MergeWatermarks(log[p], p \in AllAnswered.low),
                             Lookups(log[p], StartSeek(query), p \in AllAnswered.from),
                             Lookups(log[p], EndSeek(query), p \in AllAnswered.to))
          = Bounds(log[p], query)
  BY <1>2 DEF Bounds
<1> HIDE DEF ApplyTimestampBounds, MergeWatermarks, Lookups
<1> QED BY <1>1, <1>3 DEF Resolved, Span

\* What the request alone decides stays, step by step.
LEMMA SameRead ==
  ASSUME UNCHANGED <<log, params, query>>
  PROVE  /\ order' = order /\ take' = take /\ Selected' = Selected
         /\ Span' = Span /\ Way' = Way
         /\ InQuery' = InQuery /\ Asked' = Asked /\ Matching' = Matching
         /\ \A c : IsAlong(c)' <=> IsAlong(c)
<1>1. order' = order /\ take' = take /\ Selected' = Selected /\ Way' = Way
  BY DEF order, take, Selected, Way
<1>2. Span' = Span BY <1>1 DEF Span
<1>3. InQuery' = InQuery BY <1>1 DEF InQuery, Unstamped, StampsUpTo
<1>4. Asked' = Asked /\ Matching' = Matching BY <1>3 DEF Asked, Matching, AskedFor
<1>5. \A c : IsAlong(c)' <=> IsAlong(c) BY <1>1 DEF IsAlong
<1> QED BY <1>1, <1>2, <1>3, <1>4, <1>5

\* A pass that reads no offsets of a partition has no windows.
LEMMA NoTakeNoWindows ==
  ASSUME NEW ms, AreMarks(ms), NEW ord \in Orders, NEW size \in Nat, NEW c,
         c = NoCursor \/ c \in Cursors, DOMAIN Windows(ms, ord, size, c) # {}
  PROVE  size > 0
<1> SUFFICES ASSUME size = 0 PROVE FALSE OBVIOUS
<1> DEFINE way == IF c = NoCursor THEN ord ELSE c.walk
           at == IF c = NoCursor THEN Start(ms, ord) ELSE c.at
<1>1. PICK p \in DOMAIN ms \cap DOMAIN at :
        WindowOf(ms, way, 0, at, p).start < WindowOf(ms, way, 0, at, p).end
  BY DEF Windows
<1>2. ms[p].low \in Nat /\ ms[p].high \in Nat /\ ms[p].low <= ms[p].high /\ at[p] \in Nat
  BY <1>1, CursorParts DEF AreMarks, Start
<1> HIDE DEF at, way
<1>3. CASE way = "newest"
  BY <1>1, <1>2, <1>3 DEF WindowOf, EndingAt, AtMost, AtLeast
<1>4. CASE way # "newest"
  BY <1>1, <1>2, <1>4 DEF WindowOf, StartingAt, AtMost, AtLeast
<1> QED BY <1>3, <1>4

\* Every page walks the way of the read.
LEMMA WalkIsWay ==
  ASSUME Posed, Along, Running
  PROVE  walk = Way
<1>1. CASE opened = NoCursor
  <2>1. query.cursor = NoCursor BY <1>1 DEF Along
  <2> QED BY <1>1, <2>1 DEF walk, Way, order
<1>2. CASE opened # NoCursor BY <1>2 DEF Along, IsAlong, walk
<1> QED BY <1>1, <1>2

\* Where a pass of the read starts.
LEMMA FromFacts ==
  ASSUME Posed, Along, pc \in {"pass", "scan"}
  PROVE  /\ From = FromOf(Span, order, cursor) /\ From.walk = Way
         /\ cursor = NoCursor \/ (cursor \in Cursors /\ cursor.order = order)
         /\ marks = Span
         /\ \A r : InSpan(Span, r) => (Past(cursor, r) <=> Reached(From.walk, From.at, r))
<1>1. Running BY DEF Running
<1>2. marks = Span /\ (cursor # NoCursor => IsAlong(cursor)) /\ (cursor = NoCursor => opened = NoCursor)
  BY DEF Along
<1>3. walk = Way BY <1>1, WalkIsWay
<1>4. cursor = NoCursor \/ (cursor \in Cursors /\ cursor.order = order)
  BY <1>2 DEF IsAlong, order
<1>5. From = FromOf(Span, order, cursor)
  <2>1. CASE cursor = NoCursor
    <3>1. walk = order BY <2>1, <1>2 DEF walk
    <3> QED BY <3>1, <2>1, <1>2 DEF From, FromOf, Fresh
  <2>2. CASE cursor # NoCursor BY <2>2 DEF From, FromOf
  <2> QED BY <2>1, <2>2
<1>6. From.walk = Way
  <2>1. CASE cursor = NoCursor
    <3>1. Way = order BY <2>1, <1>2, <1>3 DEF walk
    <3>2. From.walk = order BY <2>1, <1>5 DEF FromOf
    <3> QED BY <3>1, <3>2
  <2>2. CASE cursor # NoCursor BY <2>2, <1>2 DEF From, IsAlong
  <2> QED BY <2>1, <2>2
<1>7. \A r : InSpan(Span, r) => (Past(cursor, r) <=> Reached(From.walk, From.at, r))
  BY <1>1, <1>4, <1>5, QueryFacts, FromIsCursor
<1> QED BY <1>2, <1>4, <1>5, <1>6, <1>7

\* A read that scans makes a pass.
LEMMA ScanIsPass ==
  ASSUME Posed, Along, Scanning, pc = "scan"
  PROVE  /\ IsPass(Span, log, order, take, cursor, position,
                   query.limit - Cardinality(kept), batch, remaining)
         /\ windows = Windows(Span, order, take, cursor)
         /\ Covered = CoveredOf(windows, remaining, From.walk)
<1>1. Running BY DEF Running
<1>2. /\ order \in Orders /\ query.limit \in Nat \ {0} /\ take \in Nat \ {0}
      /\ AreMarks(Span) /\ DOMAIN Span \subseteq Nat /\ IsFiniteSet(DOMAIN Span)
      /\ \A p \in DOMAIN Span : IsLog(log[p])
  BY <1>1, QueryFacts DEF Along
<1>3. /\ From = FromOf(Span, order, cursor) /\ From.walk = Way
      /\ cursor = NoCursor \/ (cursor \in Cursors /\ cursor.order = order)
      /\ marks = Span
  BY FromFacts
<1>4. walk = Way BY <1>1, WalkIsWay
<1>5. query.limit - Cardinality(kept) \in Nat \ {0}
  <2>1. IsFiniteSet(kept) /\ Cardinality(kept) < query.limit BY DEF Along
  <2>2. Cardinality(kept) \in Nat BY <2>1, FS_CardinalityType
  <2> QED BY <2>1, <2>2, <1>2
<1>6. /\ windows = Windows(marks, order, take, cursor) /\ remaining \subseteq DOMAIN windows
      /\ position \in [DOMAIN windows -> Nat]
      /\ \A p \in DOMAIN windows \ remaining : \A o \in DOMAIN log[p].recs :
           o < windows[p].end => o < position[p]
      /\ Best(batch, PushedOf(log, windows, position), query.limit - Cardinality(kept),
              order, walk)
  BY DEF Scanning
<1>7. windows = Windows(Span, order, take, cursor) BY <1>3, <1>6
<1>8. IsPass(Span, log, order, take, cursor, position,
             query.limit - Cardinality(kept), batch, remaining)
  BY <1>2, <1>3, <1>4, <1>5, <1>6, <1>7 DEF IsPass
<1>9. Covered = CoveredOf(windows, remaining, From.walk)
  BY <1>3, <1>4 DEF Covered, CoveredOf, Abandoned
<1> QED BY <1>7, <1>8, <1>9

\* No window means that nothing of the span is in front of the cursor.
LEMMA NothingLeft ==
  ASSUME NEW ms, AreMarks(ms), DOMAIN ms \subseteq Nat, IsFiniteSet(DOMAIN ms),
         NEW ord \in Orders, NEW size \in Nat \ {0},
         NEW c, c = NoCursor \/ (c \in Cursors /\ c.order = ord),
         DOMAIN Windows(ms, ord, size, c) = {}
  PROVE  \A r : InSpan(ms, r) => Past(c, r)
<1> DEFINE from == FromOf(ms, ord, c)
<1>1. from \in Cursors /\ \A r : InSpan(ms, r) => (Past(c, r) <=> Reached(from.walk, from.at, r))
  BY FromIsCursor
<1>2. {p \in DOMAIN ms \cap DOMAIN from.at : Unread(ms[p], from.walk, from.at[p])} = {}
  <2>1. c = NoCursor \/ c \in Cursors OBVIOUS
  <2>2. DOMAIN Windows(ms, ord, size, c) =
          {p \in DOMAIN ms \cap DOMAIN from.at : Unread(ms[p], from.walk, from.at[p])}
    BY <2>1, WindowsFacts
  <2> QED BY <2>2
<1> HIDE DEF from
<1>3. from.walk \in Orders /\ \A p \in DOMAIN from.at : from.at[p] \in Nat BY <1>1, CursorParts
<1>4. ASSUME NEW r, InSpan(ms, r) PROVE Reached(from.walk, from.at, r)
  <2>1. /\ r.p \in DOMAIN ms /\ r.o \in Nat /\ ms[r.p].low <= r.o /\ r.o < ms[r.p].high
        /\ ms[r.p].low \in Nat /\ ms[r.p].high \in Nat
    BY <1>4 DEF InSpan, AreMarks
  <2>2. ASSUME r.p \in DOMAIN from.at
        PROVE  IF from.walk = "oldest" THEN r.o < from.at[r.p] ELSE r.o >= from.at[r.p]
    <3>1. ~Unread(ms[r.p], from.walk, from.at[r.p]) BY <2>1, <2>2, <1>2
    <3>2. from.at[r.p] \in Nat BY <1>3, <2>2
    <3> QED BY <3>1, <3>2, <2>1, <1>3 DEF Unread, AtLeast, AtMost, Orders
  <2> QED BY <2>2 DEF Reached
<1> QED BY <1>1, <1>4

------------------------------------------------------------------------------
(* Each step keeps the invariant.                                            *)

\* The first state.
LEMMA PagesInvInit == Init => PagesInv
<1> SUFFICES ASSUME Init PROVE PagesInv OBVIOUS
<1>1. pc = "ask" /\ delivered = {} /\ repeated = {} /\ marks = <<>> BY DEF Init
<1>2. Posed
  <2>1. PICK q \in Reads : log = q.log /\ params = q.params BY DEF Init
  <2> QED BY <2>1, <1>1, ScanAssumption DEF Posed, Running
<1>3. Along /\ Scanning /\ Forward /\ ~Running
  BY <1>1 DEF Along, Scanning, Forward, Running
<1> QED BY <1>2, <1>3 DEF PagesInv

\* The handler parses the request.
LEMMA AskPages == PagesInv /\ Ask => PagesInv'
<1> SUFFICES ASSUME PagesInv, Ask PROVE PagesInv' OBVIOUS
<1>1. /\ pc = "ask" /\ delivered = {} /\ marks = <<>> /\ repeated \subseteq partial
      /\ UNCHANGED <<log, params, marks, delivered, repeated, partial>>
  BY DEF PagesInv, Along, Forward, Ask, historyVars
<1>2. CASE pc' = "failed"
  <2>1. ~Running' BY <1>2 DEF Running
  <2>2. Posed' BY <2>1, <1>1, <1>2 DEF PagesInv, Posed, Running
  <2>3. Along' /\ Scanning' /\ Forward' BY <1>1, <1>2, <2>1 DEF Along, Scanning, Forward
  <2> QED BY <2>1, <2>2, <2>3 DEF PagesInv
<1>3. CASE /\ RefusedQuery(params) = "no" /\ params.partitions \subseteq DOMAIN log
           /\ query' = IntoQuery(params) /\ opened' = query'.cursor /\ pc' = "open"
  <2>1. Running' BY <1>3 DEF Running
  <2>2. Posed' BY <1>1, <1>3 DEF PagesInv, Posed, Running
  <2>3. (query.cursor = NoCursor \/ IsAlong(query.cursor))' BY <2>1, <2>2, QueryFacts, PTL
  <2>4. Along' BY <1>1, <1>3, <2>3 DEF Along
  <2>5. Scanning' BY <1>3 DEF Scanning
  <2>6. Forward' BY <1>1, <1>3 DEF Forward
  <2>7. NeverBack' BY <1>3 DEF NeverBack, Past
  <2> QED BY <2>2, <2>4, <2>5, <2>6, <2>7 DEF PagesInv
<1> QED BY <1>2, <1>3 DEF Ask

\* A step that ends the read, or keeps what the invariant is about.
LEMMA EndsPages ==
  ASSUME PagesInv, UNCHANGED <<log, params, query, marks>>, pc # "ask",
         pc = "failed" => pc' = "failed",
         pc' \in {"done", "unknown", "failed"}, repeated' \subseteq partial'
  PROVE  PagesInv'
<1>1. ~Running' /\ pc' # "ask" BY DEF Running
<1>2. Posed' BY <1>1 DEF PagesInv, Posed, Running
<1>3. Along' /\ Scanning' /\ Forward' BY <1>1 DEF Along, Scanning, Forward
<1> QED BY <1>1, <1>2, <1>3 DEF PagesInv

\* PageRequest::fetch opens a page.
LEMMA OpenPages ==
  ASSUME ~MarksFail, PagesInv, OpenPage
  PROVE  PagesInv' /\ marks' = Span
<1>1. /\ pc = "open" /\ pc' = "pass" /\ cursor' = opened /\ kept' = {} /\ whole' = TRUE
      /\ UNCHANGED <<log, params, query, opened, delivered, repeated, partial>>
  BY DEF OpenPage, queryVars, historyVars
<1>2. Running /\ Running' BY <1>1 DEF Running
<1>3. Posed' BY <1>1, <1>2 DEF PagesInv, Posed, Running
<1>4. /\ Span' = Span /\ Asked' = Asked /\ InQuery' = InQuery /\ take' = take
      /\ \A c : IsAlong(c)' <=> IsAlong(c)
  BY <1>1, SameRead
<1>5. marks' = Span
  <2>1. \E lost \in Losses : marks' = Resolved(lost) BY DEF OpenPage
  <2>2. Losses = {AllAnswered} BY DEF Losses
  <2> QED BY <2>1, <2>2, AnsweredIsSpan
<1>6. /\ opened = NoCursor => query.cursor = NoCursor /\ delivered = {}
      /\ opened # NoCursor => IsAlong(opened)
  BY <1>2 DEF PagesInv, Along
<1>7. Along'
  <2>1. (IsFiniteSet(kept) /\ Cardinality(kept) < query.limit)'
    <3>1. query.limit \in Nat \ {0} BY <1>2, QueryFacts DEF PagesInv
    <3> QED BY <1>1, <3>1, FS_EmptySet
  <2>2. opened' # NoCursor => IsAlong(opened)' BY <1>1, <1>4, <1>6
  <2>3. cursor' # NoCursor => IsAlong(cursor)' BY <1>1, <1>4, <1>6
  <2>4. take > 0
    <3>1. /\ order \in Orders /\ take \in Nat /\ AreMarks(Span) BY <1>2, QueryFacts DEF PagesInv
    <3>2. opened = NoCursor \/ opened \in Cursors BY <1>6 DEF IsAlong
    <3>3. DOMAIN Windows(Span, order, take, opened) # {} BY <1>5 DEF OpenPage
    <3> QED BY <3>1, <3>2, <3>3, NoTakeNoWindows
  <2> QED BY <1>1, <1>4, <1>5, <1>6, <2>1, <2>2, <2>3, <2>4 DEF Along
<1>8. Scanning' BY <1>1 DEF Scanning
<1>9. Forward' BY <1>1, <1>2, <1>4 DEF PagesInv, Forward
<1>10. NeverBack' BY <1>1, <1>2, <1>4 DEF PagesInv, NeverBack
<1> QED BY <1>3, <1>5, <1>7, <1>8, <1>9, <1>10 DEF PagesInv

\* A step of what the invariant is not about, such as the deadline.
LEMMA SamePages ==
  ASSUME PagesInv, UNCHANGED <<queryVars, pc, passVars, pageVars, historyVars>>
  PROVE  PagesInv'
<1>1. /\ UNCHANGED <<log, params, query, pc, windows, remaining, position, newest, batch>>
      /\ UNCHANGED <<marks, opened, cursor, kept, whole, delivered, repeated, partial>>
  BY DEF queryVars, passVars, pageVars, historyVars
<1>2. /\ Span' = Span /\ Asked' = Asked /\ InQuery' = InQuery /\ order' = order /\ take' = take
      /\ \A c : IsAlong(c)' <=> IsAlong(c)
  BY <1>1, SameRead
<1>3. Running' <=> Running BY <1>1 DEF Running
<1>4. Posed' BY <1>1, <1>3 DEF PagesInv, Posed, Running
<1>5. Along' BY <1>1, <1>2, <1>3 DEF PagesInv, Along
<1>6. Scanning'
  <2>1. walk' = walk BY <1>1, <1>2 DEF walk
  <2>2. \A p : IsNewest(p)' <=> IsNewest(p) BY <1>1 DEF IsNewest
  <2> QED BY <1>1, <1>2, <2>1, <2>2 DEF PagesInv, Scanning
<1>7. Forward' BY <1>1, <1>2, <1>3 DEF PagesInv, Forward
<1>8. Running' => NeverBack' BY <1>1, <1>2, <1>3 DEF PagesInv, NeverBack
<1> QED BY <1>4, <1>5, <1>6, <1>7, <1>8 DEF PagesInv

\* The windows of a pass are of partitions of the span.
LEMMA PlannedFacts ==
  ASSUME NEW ms, AreMarks(ms), NEW ord \in Orders, NEW size \in Nat \ {0},
         NEW c, c = NoCursor \/ c \in Cursors
  PROVE  LET ws == Windows(ms, ord, size, c) IN
         /\ DOMAIN ws \subseteq DOMAIN ms
         /\ \A p \in DOMAIN ws : ws[p].start \in Nat
<1> DEFINE ws == Windows(ms, ord, size, c)
           from == FromOf(ms, ord, c)
<1>1. /\ DOMAIN ws = {p \in DOMAIN ms \cap DOMAIN from.at :
                           Unread(ms[p], from.walk, from.at[p])}
      /\ \A p \in DOMAIN ws :
              /\ ws[p].start \in Nat /\ ws[p].end \in Nat
              /\ ms[p].low <= ws[p].start /\ ws[p].start < ws[p].end
              /\ ws[p].end <= ms[p].high
              /\ \A o \in Nat : ms[p].low <= o /\ o < ms[p].high =>
                   /\ from.walk = "oldest" => (o < from.at[p] <=> o < ws[p].start)
                   /\ from.walk = "newest" => (o >= from.at[p] <=> o >= ws[p].end)
  BY WindowsFacts
<1> HIDE DEF ws, from
<1> QED BY <1>1 DEF ws

\* A pass starts, or the page ends with nothing left to read.
LEMMA StartPages == PagesInv /\ StartPass => PagesInv'
<1> SUFFICES ASSUME PagesInv, StartPass PROVE PagesInv' OBVIOUS
<1> DEFINE planned == Windows(marks, order, take, cursor)
<1>1. /\ pc = "pass"
      /\ UNCHANGED <<log, params, query, marks, opened, kept, whole>>
      /\ UNCHANGED <<delivered, repeated, partial>>
  BY DEF StartPass, queryVars, historyVars
<1>2. \/ /\ pc' = "page" /\ cursor' = NoCursor /\ UNCHANGED passVars
      \/ /\ pc' = "scan"
         /\ windows' = planned /\ remaining' = DOMAIN planned
         /\ position' = [p \in DOMAIN planned |-> planned[p].start]
         /\ newest' = <<>> /\ batch' = {}
         /\ cursor' = cursor
  BY DEF StartPass
<1>3. Running /\ Running' BY <1>1, <1>2 DEF Running
<1>4. Posed' BY <1>1, <1>3 DEF PagesInv, Posed, Running
<1>5. /\ Span' = Span /\ Asked' = Asked /\ InQuery' = InQuery /\ order' = order /\ take' = take
      /\ \A c : IsAlong(c)' <=> IsAlong(c)
  BY <1>1, SameRead
<1>6. CASE pc' = "page" /\ cursor' = NoCursor
  <2>1. Along' BY <1>1, <1>3, <1>5, <1>6 DEF PagesInv, Along
  <2>2. Scanning' BY <1>6 DEF Scanning
  <2>3. Forward' BY <1>1, <1>3, <1>5, <1>6 DEF PagesInv, Forward, Behind
  <2>4. NeverBack' BY <1>6 DEF NeverBack, Behind
  <2> QED BY <1>4, <2>1, <2>2, <2>3, <2>4 DEF PagesInv
<1>7. CASE /\ pc' = "scan"
           /\ windows' = planned /\ remaining' = DOMAIN planned
           /\ position' = [p \in DOMAIN planned |-> planned[p].start]
           /\ newest' = <<>> /\ batch' = {}
           /\ cursor' = cursor
  <2>1. Along' BY <1>1, <1>3, <1>5, <1>7 DEF PagesInv, Along
  <2>2. Forward' BY <1>1, <1>3, <1>5, <1>7 DEF PagesInv, Forward
  <2>3. NeverBack' BY <1>1, <1>3, <1>5, <1>7 DEF PagesInv, NeverBack
  <2>4. Scanning'
    <3>1. /\ marks = Span
          /\ cursor = NoCursor \/ (cursor \in Cursors /\ cursor.order = order)
      BY <1>1, FromFacts DEF PagesInv
    <3>2. /\ order \in Orders /\ take \in Nat \ {0} /\ query.limit \in Nat \ {0}
          /\ AreMarks(Span) /\ \A p \in DOMAIN Span : IsLog(log[p])
      BY <1>1, <1>3, QueryFacts DEF PagesInv, Along
    <3>3. /\ DOMAIN planned \subseteq DOMAIN Span
          /\ \A p \in DOMAIN planned : planned[p].start \in Nat
      <4>1. cursor = NoCursor \/ cursor \in Cursors BY <3>1
      <4> QED BY <3>1, <3>2, <4>1, PlannedFacts
    <3>4. windows' = Windows(marks, order, take, cursor)' BY <1>1, <1>5, <1>7
    <3> HIDE DEF planned
    <3>5. \A p \in DOMAIN planned : position'[p] = planned[p].start BY <1>7
    <3>6. \A p \in DOMAIN planned : PolledOf(log[p], planned[p], position'[p]) = {}
      <4> SUFFICES ASSUME NEW p \in DOMAIN planned,
                          NEW o \in PolledOf(log[p], planned[p], position'[p])
                   PROVE  FALSE
        OBVIOUS
      <4>1. IsLog(log[p]) BY <3>2, <3>3
      <4>2. DOMAIN log[p].recs \subseteq Nat BY <4>1 DEF IsLog
      <4> QED BY <4>2, <3>3, <3>5 DEF PolledOf
    <3>7. \A p \in DOMAIN planned : IsNewest(p)'
      <4> SUFFICES ASSUME NEW p \in DOMAIN planned PROVE IsNewest(p)' OBVIOUS
      <4>1. (StampsOf(log[p], PolledOf(log[p], windows[p], position[p])))' = {}
        BY <3>6, <1>1, <1>7 DEF StampsOf
      <4>2. p \notin DOMAIN newest' BY <1>7
      <4> QED BY <4>1, <4>2 DEF IsNewest
    <3>8. PushedOf(log, windows, position)' = {}
      <4> DEFINE pushed == PushedOf(log, windows, position)'
      <4> SUFFICES ASSUME NEW k \in pushed PROVE FALSE OBVIOUS
      <4>1. pushed = PushedOf(log, planned, position') BY <1>1, <1>7
      <4> HIDE DEF pushed
      <4>2. /\ k.p \in DOMAIN planned
            /\ k.o \in PolledOf(log[k.p], planned[k.p], position'[k.p])
        BY <4>1, PushedIff
      <4> QED BY <4>2, <3>6
    <3>9. Best({}, {}, query.limit - Cardinality(kept), order, walk)'
      <4>1. IsFiniteSet({}) /\ Cardinality({}) = 0 BY FS_EmptySet
      <4>2. IsFiniteSet(kept) /\ Cardinality(kept) < query.limit BY <1>1 DEF PagesInv, Along
      <4>3. Cardinality(kept) \in Nat BY <4>2, FS_CardinalityType
      <4>4. Cardinality({}) <= query.limit - Cardinality(kept) BY <4>1, <4>2, <4>3, <3>2
      <4> QED BY <4>1, <4>4, <1>1 DEF Best
    <3>10. position' \in [DOMAIN planned -> Nat] BY <3>3, <1>7
    <3>11. DOMAIN newest' = {} BY <1>7
    <3>12. \A p \in DOMAIN planned : position'[p] >= planned[p].start BY <3>3, <3>5
    <3> QED BY <1>7, <3>4, <3>7, <3>8, <3>9, <3>10, <3>11, <3>12 DEF Scanning
  <2> QED BY <1>4, <2>1, <2>2, <2>3, <2>4 DEF PagesInv
<1> QED BY <1>2, <1>6, <1>7

\* One more record of a window is polled: the first one ahead.
LEMMA PolledStep ==
  ASSUME NEW l, IsLog(l), NEW w, w.start \in Nat, w.end \in Nat,
         NEW at \in Nat, w.start <= at,
         {j \in DOMAIN l.recs : j >= at} # {}
  PROVE  LET o == Min({j \in DOMAIN l.recs : j >= at}) IN
         /\ o \in DOMAIN l.recs /\ o \in Nat /\ o >= at /\ o \notin PolledOf(l, w, at)
         /\ \A j \in DOMAIN l.recs : j < o => j < at
         /\ o < w.end => PolledOf(l, w, o + 1) = PolledOf(l, w, at) \cup {o}
         /\ ~(o < w.end) => PolledOf(l, w, o + 1) = PolledOf(l, w, at)
<1> DEFINE A == {j \in DOMAIN l.recs : j >= at}
           o == Min(A)
<1>1. DOMAIN l.recs \subseteq Nat BY DEF IsLog
<1>2. A \in SUBSET Nat /\ A # {} BY <1>1
<1>3. o \in A /\ \A j \in A : o <= j
  <2> HIDE DEF A
  <2> QED BY <1>2, LeastOffset
<1>4. o \in DOMAIN l.recs /\ o \in Nat /\ o >= at
  <2>1. \A j \in A : j \in DOMAIN l.recs /\ j \in Nat /\ j >= at BY <1>1
  <2> HIDE DEF A
  <2> QED BY <1>3, <2>1
<1>5. \A j \in DOMAIN l.recs : j < o => j < at
  <2>1. \A j \in DOMAIN l.recs : j < at \/ j \in A BY <1>1
  <2>2. \A j \in A : j \in Nat BY <1>2
  <2> HIDE DEF A, o
  <2> QED BY <2>1, <2>2, <1>1, <1>3, <1>4
<1> HIDE DEF A, o
<1>6. o \notin PolledOf(l, w, at) BY <1>4 DEF PolledOf
<1>7. ASSUME o < w.end PROVE PolledOf(l, w, o + 1) = PolledOf(l, w, at) \cup {o}
  BY <1>1, <1>4, <1>5, <1>7 DEF PolledOf
<1>8. ASSUME ~(o < w.end) PROVE PolledOf(l, w, o + 1) = PolledOf(l, w, at)
  BY <1>1, <1>4, <1>5, <1>8 DEF PolledOf
<1> QED BY <1>4, <1>5, <1>6, <1>7, <1>8 DEF o, A

\* Ranked by the newest timestamp so far, or its own where that is later, a record
\* has the latest timestamp of its window up to it.
LEMMA RankStep ==
  ASSUME NEW l, IsLog(l), NEW w, w.start \in Nat, w.end \in Nat,
         NEW at \in Nat, w.start <= at, NEW o \in DOMAIN l.recs, o >= at, o < w.end,
         \A j \in DOMAIN l.recs : j < o => j < at
  PROVE  LET passed == StampsOf(l, PolledOf(l, w, at)) IN
         /\ passed = {} => RankOf(l, w, o) = l.recs[o].ts
         /\ \A m \in passed : (\A t \in passed : t <= m) =>
              RankOf(l, w, o) = AtLeast(m, l.recs[o].ts)
         /\ \A m \in passed : m \in Int
<1> DEFINE passed == StampsOf(l, PolledOf(l, w, at))
           all == StampsOf(l, {j \in DOMAIN l.recs : w.start <= j /\ j <= o})
           own == l.recs[o].ts
<1>1. DOMAIN l.recs \subseteq Nat /\ \A i \in DOMAIN l.recs : l.recs[i].ts \in Int BY DEF IsLog
<1>2. {j \in DOMAIN l.recs : w.start <= j /\ j <= o} = PolledOf(l, w, at) \cup {o}
  BY <1>1 DEF PolledOf
<1>3. all = passed \cup {own} BY <1>2 DEF StampsOf
<1>4. all \in SUBSET Int /\ own \in Int BY <1>1 DEF StampsOf
<1>5. RankOf(l, w, o) = Max(all) BY DEF RankOf
<1> HIDE DEF passed, all, own
<1>6. ASSUME passed = {} PROVE RankOf(l, w, o) = own
  <2>1. own \in all /\ \A j \in all : j <= own BY <1>3, <1>4, <1>6
  <2> QED BY <2>1, <1>4, <1>5, MaxIs
<1>7. ASSUME NEW m \in passed, \A t \in passed : t <= m PROVE RankOf(l, w, o) = AtLeast(m, own)
  <2>1. m \in Int BY <1>3, <1>4
  <2>2. AtLeast(m, own) \in all /\ \A j \in all : j <= AtLeast(m, own)
    BY <2>1, <1>3, <1>4, <1>7 DEF AtLeast
  <2> QED BY <2>2, <1>4, <1>5, MaxIs
<1>8. \A m \in passed : m \in Int BY <1>3, <1>4
<1> QED BY <1>6, <1>7, <1>8 DEF passed, own

\* What one polled record adds to the keys pushed.
LEMMA PushedStep ==
  ASSUME NEW logs, NEW ws, NEW p \in DOMAIN ws, NEW at, NEW to,
         \A q \in DOMAIN ws : q # p => to[q] = at[q], NEW o
  PROVE  LET key == [ts |-> RankOf(logs[p], ws[p], o), p |-> p, o |-> o]
             was == PolledOf(logs[p], ws[p], at[p])
             is == PolledOf(logs[p], ws[p], to[p]) IN
         /\ is = was \/ (is = was \cup {o} /\ ~logs[p].recs[o].matches) =>
              PushedOf(logs, ws, to) = PushedOf(logs, ws, at)
         /\ is = was \cup {o} /\ logs[p].recs[o].matches =>
              PushedOf(logs, ws, to) = PushedOf(logs, ws, at) \cup {key}
         /\ o \notin was => key \notin PushedOf(logs, ws, at)
<1> DEFINE key == [ts |-> RankOf(logs[p], ws[p], o), p |-> p, o |-> o]
           was == PolledOf(logs[p], ws[p], at[p])
           is == PolledOf(logs[p], ws[p], to[p])
           KeyAt(k) == [ts |-> RankOf(logs[k.p], ws[k.p], k.o), p |-> k.p, o |-> k.o]
           In(k, x) == /\ k.p \in DOMAIN ws /\ k.o \in PolledOf(logs[k.p], ws[k.p], x[k.p])
                       /\ logs[k.p].recs[k.o].matches /\ k = KeyAt(k)
<1>1. ASSUME NEW k
      PROVE  /\ k \in PushedOf(logs, ws, at) <=> In(k, at)
             /\ k \in PushedOf(logs, ws, to) <=> In(k, to)
  <2>1. k \in PushedOf(logs, ws, at) <=> In(k, at) BY PushedIff
  <2>2. k \in PushedOf(logs, ws, to) <=> In(k, to) BY PushedIff
  <2> QED BY <2>1, <2>2
<1>2. \A q \in DOMAIN ws : q # p => to[q] = at[q] OBVIOUS
<1>3. ASSUME NEW k, k.p # p PROVE In(k, to) <=> In(k, at)
  <2>1. k.p \in DOMAIN ws => to[k.p] = at[k.p] BY <1>2, <1>3
  <2> QED BY <2>1
<1>4. \A k : k.p = p => (In(k, at) <=> k.o \in was /\ logs[p].recs[k.o].matches /\ k = KeyAt(k))
  OBVIOUS
<1>5. \A k : k.p = p => (In(k, to) <=> k.o \in is /\ logs[p].recs[k.o].matches /\ k = KeyAt(k))
  OBVIOUS
<1>6. key.p = p /\ key.o = o /\ key = KeyAt(key) OBVIOUS
<1>7. \A k : k.p = p /\ k.o = o /\ k = KeyAt(k) => k = key OBVIOUS
<1> HIDE DEF key, was, is, KeyAt, In
<1>8. ASSUME is = was \/ (is = was \cup {o} /\ ~logs[p].recs[o].matches)
      PROVE  PushedOf(logs, ws, to) = PushedOf(logs, ws, at)
  <2>1. \A k : In(k, to) <=> In(k, at) BY <1>3, <1>4, <1>5, <1>8
  <2> QED BY <2>1, <1>1
<1>9. ASSUME is = was \cup {o}, logs[p].recs[o].matches
      PROVE  PushedOf(logs, ws, to) = PushedOf(logs, ws, at) \cup {key}
  <2>1. ASSUME NEW k PROVE In(k, to) <=> In(k, at) \/ k = key
    <3>1. CASE k.p # p BY <3>1, <1>3, <1>6
    <3>2. CASE k.p = p BY <3>2, <1>4, <1>5, <1>6, <1>7, <1>9
    <3> QED BY <3>1, <3>2
  <2> QED BY <2>1, <1>1
<1>10. ASSUME o \notin was PROVE key \notin PushedOf(logs, ws, at)
  BY <1>1, <1>4, <1>6, <1>10
<1> QED BY <1>8, <1>9, <1>10 DEF key, was, is

\* The keys of a pass have the parts that ranking compares.
LEMMA PushedAreKeys ==
  ASSUME NEW ms, NEW logs, NEW ord, NEW size, NEW c, NEW at, NEW room, NEW b, NEW left,
         IsPass(ms, logs, ord, size, c, at, room, b, left),
         NEW p \in DOMAIN Windows(ms, ord, size, c), NEW o \in DOMAIN logs[p].recs,
         Windows(ms, ord, size, c)[p].start <= o
  PROVE  [ts |-> RankOf(logs[p], Windows(ms, ord, size, c)[p], o), p |-> p, o |-> o] \in Keys
<1>1. /\ DOMAIN Windows(ms, ord, size, c) \subseteq DOMAIN ms
      /\ Windows(ms, ord, size, c)[p].start \in Nat
  BY PassWindows
<1>2. p \in Nat /\ IsLog(logs[p]) BY <1>1 DEF IsPass
<1>3. o \in Nat BY <1>2 DEF IsLog
<1>4. RankOf(logs[p], Windows(ms, ord, size, c)[p], o) \in Int BY <1>1, <1>2, RankFacts
<1> QED BY <1>2, <1>3, <1>4 DEF Keys

\* ScanSession::ingest of one record keeps the batch the best of what was polled.
LEMMA PollPages == ASSUME PagesInv, NEW p, PollRecord(p) PROVE PagesInv'
<1> DEFINE o == Min(Ahead(p))
           rec == log[p].recs[o]
           ts == RankTs(p, rec.ts)
           key == [ts |-> ts, p |-> p, o |-> o]
           room == query.limit - Cardinality(kept)
           w == windows[p]
           passed == StampsOf(log[p], PolledOf(log[p], w, position[p]))
<1>1. /\ pc = "scan" /\ p \in remaining /\ Ahead(p) # {}
      /\ UNCHANGED <<log, params, query, pc, windows, marks, opened, cursor, kept, whole>>
      /\ UNCHANGED <<delivered, repeated, partial>>
  BY DEF PollRecord, queryVars, pageVars, historyVars
<1>2. /\ position' = [position EXCEPT ![p] = o + 1]
      /\ remaining' = IF o >= windows[p].end - 1 THEN remaining \ {p} ELSE remaining
      /\ newest' = IF o < w.end
                   THEN [q \in DOMAIN newest \cup {p} |-> IF q = p THEN ts ELSE newest[q]]
                   ELSE newest
      /\ batch' = IF o < w.end /\ rec.matches
                  THEN Push(batch, key, room, order, walk) ELSE batch
  BY DEF PollRecord
<1>3. /\ Span' = Span /\ Asked' = Asked /\ InQuery' = InQuery /\ order' = order /\ take' = take
      /\ \A c : IsAlong(c)' <=> IsAlong(c)
  BY <1>1, SameRead
<1>4. Running /\ Running' BY <1>1 DEF Running
<1>5. Posed' BY <1>1, <1>4 DEF PagesInv, Posed, Running
<1>6. Along' BY <1>1, <1>3, <1>4 DEF PagesInv, Along
<1>7. Forward' BY <1>1, <1>3, <1>4 DEF PagesInv, Forward
<1>8. NeverBack' BY <1>1, <1>3, <1>4 DEF PagesInv, NeverBack
<1>9. /\ windows = Windows(marks, order, take, cursor) /\ remaining \subseteq DOMAIN windows
      /\ position \in [DOMAIN windows -> Nat]
      /\ DOMAIN newest \subseteq DOMAIN windows
      /\ \A q \in DOMAIN windows : position[q] >= windows[q].start /\ IsNewest(q)
      /\ \A q \in DOMAIN windows \ remaining : \A i \in DOMAIN log[q].recs :
           i < windows[q].end => i < position[q]
      /\ Best(batch, PushedOf(log, windows, position), room, order, walk)
  BY <1>1 DEF PagesInv, Scanning
<1>10. /\ IsPass(Span, log, order, take, cursor, position, room, batch, remaining)
       /\ windows = Windows(Span, order, take, cursor)
  BY <1>1, ScanIsPass DEF PagesInv
<1>11. /\ DOMAIN windows \subseteq DOMAIN Span
       /\ \A q \in DOMAIN windows : windows[q].start \in Nat /\ windows[q].end \in Nat
  BY <1>10, PassWindows
<1>12. p \in DOMAIN windows /\ IsLog(log[p]) /\ position[p] \in Nat /\ w.start <= position[p]
  BY <1>1, <1>9, <1>10, <1>11 DEF IsPass
<1>13. /\ o \in DOMAIN log[p].recs /\ o \in Nat /\ o >= position[p]
       /\ o \notin PolledOf(log[p], w, position[p])
       /\ \A j \in DOMAIN log[p].recs : j < o => j < position[p]
       /\ o < w.end => PolledOf(log[p], w, o + 1) = PolledOf(log[p], w, position[p]) \cup {o}
       /\ ~(o < w.end) => PolledOf(log[p], w, o + 1) = PolledOf(log[p], w, position[p])
  <2>1. Ahead(p) = {j \in DOMAIN log[p].recs : j >= position[p]} BY DEF Ahead
  <2>2. w.start \in Nat /\ w.end \in Nat BY <1>11, <1>12
  <2> QED BY <2>1, <2>2, <1>1, <1>12, PolledStep
<1>14. /\ position' \in [DOMAIN windows -> Nat] /\ position'[p] = o + 1
       /\ \A q \in DOMAIN windows : q # p => position'[q] = position[q]
  <2> HIDE DEF o
  <2> QED BY <1>2, <1>9, <1>12, <1>13
<1> HIDE DEF o, rec, ts
<1>15. ASSUME o < w.end
       PROVE  /\ ts = RankOf(log[p], w, o)
              /\ ts \in Int /\ rec.ts <= ts
              /\ p \in DOMAIN newest => newest[p] <= ts
              /\ ts \in {rec.ts} \cup passed
  <2>1. w.start \in Nat /\ w.end \in Nat BY <1>11, <1>12
  <2>2. /\ passed = {} => RankOf(log[p], w, o) = log[p].recs[o].ts
        /\ \A m \in passed : (\A t \in passed : t <= m) =>
             RankOf(log[p], w, o) = AtLeast(m, log[p].recs[o].ts)
        /\ \A m \in passed : m \in Int
    BY <2>1, <1>12, <1>13, <1>15, RankStep
  <2>3. /\ p \in DOMAIN newest <=> passed # {}
        /\ p \in DOMAIN newest => newest[p] \in passed /\ \A t \in passed : t <= newest[p]
    BY <1>9, <1>12 DEF IsNewest
  <2>4. ts = IF p \in DOMAIN newest THEN AtLeast(newest[p], rec.ts) ELSE rec.ts
    BY DEF RankTs, ts
  <2>5. rec = log[p].recs[o] /\ rec.ts \in Int BY <1>12, <1>13 DEF rec, IsLog
  <2> HIDE DEF passed
  <2> QED BY <2>2, <2>3, <2>4, <2>5 DEF AtLeast
<1>16. \A q \in DOMAIN windows : IsNewest(q)'
  <2> SUFFICES ASSUME NEW q \in DOMAIN windows PROVE IsNewest(q)' OBVIOUS
  <2> DEFINE now == StampsOf(log[q], PolledOf(log[q], windows[q], position'[q]))
  <2>1. (StampsOf(log[q], PolledOf(log[q], windows[q], position[q])))' = now BY <1>1
  <2>2. /\ q \in DOMAIN newest' <=> now # {}
        /\ q \in DOMAIN newest' => newest'[q] \in now /\ \A t \in now : t <= newest'[q]
    <3>1. CASE q # p
      <4>1. now = StampsOf(log[q], PolledOf(log[q], windows[q], position[q]))
        BY <3>1, <1>14
      <4>2. q \in DOMAIN newest' <=> q \in DOMAIN newest BY <3>1, <1>2
      <4>3. q \in DOMAIN newest => newest'[q] = newest[q] BY <3>1, <1>2
      <4> HIDE DEF now
      <4>4. /\ q \in DOMAIN newest <=> now # {}
            /\ q \in DOMAIN newest => newest[q] \in now /\ \A t \in now : t <= newest[q]
        BY <4>1, <1>9 DEF IsNewest
      <4> QED BY <4>2, <4>3, <4>4
    <3>2. CASE q = p /\ o < w.end
      <4>1. now = passed \cup {rec.ts} BY <3>2, <1>13, <1>14 DEF StampsOf, rec
      <4>2. q \in DOMAIN newest' /\ newest'[q] = ts BY <3>2, <1>2
      <4>3. \A t \in passed : t <= ts
        <5>1. /\ p \in DOMAIN newest <=> passed # {}
              /\ p \in DOMAIN newest => newest[p] \in passed /\ \A t \in passed : t <= newest[p]
          BY <1>9, <1>12 DEF IsNewest
        <5>2. \A t \in passed : t \in Int BY <1>12 DEF StampsOf, PolledOf, IsLog
        <5> HIDE DEF passed
        <5> QED BY <5>1, <5>2, <1>15, <3>2
      <4> HIDE DEF now, passed
      <4> QED BY <4>1, <4>2, <4>3, <1>15, <3>2
    <3>3. CASE q = p /\ ~(o < w.end)
      <4>1. now = passed BY <3>3, <1>13, <1>14
      <4>2. newest' = newest BY <3>3, <1>2
      <4> HIDE DEF now
      <4> QED BY <4>1, <4>2, <3>3, <1>9, <1>12 DEF IsNewest
    <3> QED BY <3>1, <3>2, <3>3
  <2> HIDE DEF now
  <2> QED BY <2>1, <2>2 DEF IsNewest
<1>17. Best(batch, PushedOf(log, windows, position), room, order, walk)'
  <2> DEFINE was == PushedOf(log, windows, position)
             is == PushedOf(log, windows, position')
             full == [ts |-> RankOf(log[p], w, o), p |-> p, o |-> o]
             before == PolledOf(log[p], w, position[p])
             after == PolledOf(log[p], w, position'[p])
  <2>1. /\ after = before \/ (after = before \cup {o} /\ ~log[p].recs[o].matches) => is = was
        /\ after = before \cup {o} /\ log[p].recs[o].matches => is = was \cup {full}
        /\ o \notin before => full \notin was
    BY <1>12, <1>14, PushedStep
  <2>2. /\ o \notin before
        /\ o < w.end => after = before \cup {o}
        /\ ~(o < w.end) => after = before
    BY <1>13, <1>14
  <2>3. rec.matches <=> log[p].recs[o].matches BY DEF rec
  <2>4. (PushedOf(log, windows, position))' = is /\ room' = room /\ order' = order
    BY <1>1, <1>3
  <2>5. walk' = walk BY <1>1, <1>3 DEF walk
  <2>6. Best(batch, was, room, order, walk) BY <1>9
  <2> HIDE DEF was, is, full, before, after, room, w, key
  <2>7. CASE o < w.end /\ rec.matches
    <3>1. is = was \cup {full} /\ full \notin was BY <2>1, <2>2, <2>3, <2>7
    <3>2. key = full BY <1>15, <2>7 DEF key, full
    <3>3. batch' = Push(batch, full, room, order, walk) BY <3>2, <1>2, <2>7
    <3>4. room \in Nat \ {0} /\ order \in Orders /\ walk \in Orders
      <4>1. room \in Nat \ {0} /\ order \in Orders BY <1>10 DEF IsPass
      <4>2. walk = Way /\ Way \in Orders BY <1>4, WalkIsWay, QueryFacts DEF PagesInv
      <4> QED BY <4>1, <4>2
    <3>5. full \in Keys
      <4>1. w.start <= o BY <1>11, <1>12, <1>13 DEF w
      <4> QED BY <4>1, <1>10, <1>12, <1>13, PushedAreKeys DEF full, w
    <3>6. was \in SUBSET Keys
      <4> SUFFICES ASSUME NEW k \in was PROVE k \in Keys OBVIOUS
      <4>1. /\ k.p \in DOMAIN windows
            /\ k.o \in PolledOf(log[k.p], windows[k.p], position[k.p])
            /\ k = [ts |-> RankOf(log[k.p], windows[k.p], k.o), p |-> k.p, o |-> k.o]
        BY PushedIff DEF was
      <4>2. k.o \in DOMAIN log[k.p].recs /\ windows[k.p].start <= k.o BY <4>1 DEF PolledOf
      <4>3. [ts |-> RankOf(log[k.p], windows[k.p], k.o), p |-> k.p, o |-> k.o] \in Keys
        BY <4>1, <4>2, <1>10, PushedAreKeys
      <4> QED BY <4>1, <4>3
    <3>7. Best(batch', is, room, order, walk)
      BY <3>1, <3>3, <3>4, <3>5, <3>6, <2>6, PushKeepsBest
    <3> QED BY <3>7, <2>4, <2>5
  <2>8. CASE ~(o < w.end /\ rec.matches)
    <3>1. is = was BY <2>1, <2>2, <2>3, <2>8
    <3>2. batch' = batch BY <1>2, <2>8
    <3> QED BY <3>1, <3>2, <2>4, <2>5, <2>6
  <2> QED BY <2>7, <2>8
<1>18. \A q \in DOMAIN windows \ remaining' : \A i \in DOMAIN log[q].recs :
         i < windows[q].end => i < position'[q]
  <2> SUFFICES ASSUME NEW q \in DOMAIN windows \ remaining', NEW i \in DOMAIN log[q].recs,
                      i < windows[q].end
               PROVE  i < position'[q]
    OBVIOUS
  <2>1. CASE q # p BY <2>1, <1>2, <1>9, <1>14
  <2>2. CASE q = p
    <3>1. DOMAIN log[p].recs \subseteq Nat /\ w.end \in Nat BY <1>11, <1>12 DEF IsLog
    <3>2. o >= w.end - 1 BY <2>2, <1>1, <1>2
    <3> QED BY <3>1, <3>2, <2>2, <1>13, <1>14
  <2> QED BY <2>1, <2>2
<1>19. Scanning'
  <2>1. windows' = Windows(marks, order, take, cursor)' BY <1>1, <1>3, <1>9
  <2>2. remaining' \subseteq DOMAIN windows' BY <1>1, <1>2, <1>9
  <2>3. DOMAIN newest' \subseteq DOMAIN windows' BY <1>1, <1>2, <1>9, <1>12
  <2>4. \A q \in DOMAIN windows : position'[q] >= windows[q].start
    <3> SUFFICES ASSUME NEW q \in DOMAIN windows PROVE position'[q] >= windows[q].start
      OBVIOUS
    <3>1. CASE q # p BY <3>1, <1>9, <1>14
    <3>2. CASE q = p BY <3>2, <1>11, <1>12, <1>13, <1>14
    <3> QED BY <3>1, <3>2
  <2> QED BY <1>1, <1>14, <1>16, <1>17, <1>18, <2>1, <2>2, <2>3, <2>4 DEF Scanning
<1> QED BY <1>5, <1>6, <1>7, <1>8, <1>19 DEF PagesInv

\* ScanSession::settle_idle finishes a window with nothing ahead.
LEMMA SettlePages == ASSUME PagesInv, NEW p, SettleIdle(p) PROVE PagesInv'
<1>1. /\ pc = "scan" /\ p \in remaining /\ Ahead(p) = {} /\ remaining' = remaining \ {p}
      /\ UNCHANGED <<log, params, query, pc, windows, position, newest, batch>>
      /\ UNCHANGED <<marks, opened, cursor, kept, whole, delivered, repeated, partial>>
  BY DEF SettleIdle, queryVars, pageVars, historyVars
<1>2. /\ Span' = Span /\ Asked' = Asked /\ InQuery' = InQuery /\ order' = order /\ take' = take
      /\ \A c : IsAlong(c)' <=> IsAlong(c)
  BY <1>1, SameRead
<1>3. Running /\ Running' BY <1>1 DEF Running
<1>4. Posed' BY <1>1, <1>3 DEF PagesInv, Posed, Running
<1>5. Along' BY <1>1, <1>2, <1>3 DEF PagesInv, Along
<1>6. Forward' BY <1>1, <1>2, <1>3 DEF PagesInv, Forward
<1>7. NeverBack' BY <1>1, <1>2, <1>3 DEF PagesInv, NeverBack
<1>8. Scanning'
  <2>1. walk' = walk BY <1>1, <1>2 DEF walk
  <2>2. \A q : IsNewest(q)' <=> IsNewest(q) BY <1>1 DEF IsNewest
  <2>3. /\ IsPass(Span, log, order, take, cursor, position,
                  query.limit - Cardinality(kept), batch, remaining)
        /\ windows = Windows(Span, order, take, cursor)
    BY <1>1, ScanIsPass DEF PagesInv
  <2>4. p \in DOMAIN windows /\ position[p] \in Nat BY <1>1 DEF PagesInv, Scanning
  <2>5. DOMAIN windows \subseteq DOMAIN Span BY <2>3, PassWindows
  <2>6. IsLog(log[p]) BY <2>3, <2>4, <2>5 DEF IsPass
  <2>7. \A o \in DOMAIN log[p].recs : o < position[p] BY <2>4, <2>6, <1>1 DEF Ahead, IsLog
  <2> QED BY <1>1, <1>2, <2>1, <2>2, <2>7 DEF PagesInv, Scanning
<1> QED BY <1>4, <1>5, <1>6, <1>7, <1>8 DEF PagesInv

\* The end of a pass, as the read has it: what it found, and where the cursor is.
LEMMA EndFacts ==
  ASSUME PagesInv, EndPass
  PROVE  /\ Found \subseteq Asked /\ IsFiniteSet(Found) /\ Cardinality(Found) \in Nat
         /\ \A r \in Found : ~Past(cursor, r)
         /\ cursor' # NoCursor => IsAlong(cursor')
         /\ \A r \in InQuery : Past(cursor, r) => Behind(cursor', r)
         /\ remaining = {} => \A r \in Found : Behind(cursor', r)
         /\ remaining = {} \/ Way = "oldest" =>
              \A r \in InQuery : Behind(cursor', r) /\ ~Past(cursor, r) => r \in Found
<1> DEFINE room == query.limit - Cardinality(kept)
           from == FromOf(Span, order, cursor)
           ws == Windows(Span, order, take, cursor)
           next == Advance(Span, from, CoveredOf(ws, remaining, from.walk), FoundIn(batch), room)
<1>1. pc = "scan" /\ cursor' = Advance(marks, From, Covered, Found, room) BY DEF EndPass
<1>2. Running /\ Posed /\ Along /\ Scanning /\ Forward /\ NeverBack
  BY <1>1 DEF PagesInv, Running
<1>3. /\ IsPass(Span, log, order, take, cursor, position, room, batch, remaining)
      /\ windows = ws
      /\ Covered = CoveredOf(windows, remaining, From.walk)
  BY <1>1, <1>2, ScanIsPass
<1>4. /\ From = from /\ from.walk = Way /\ marks = Span
      /\ \A r : InSpan(Span, r) => (Past(cursor, r) <=> Reached(from.walk, from.at, r))
  BY <1>1, <1>2, FromFacts
<1>5. Found = FoundIn(batch) BY DEF Found, FoundIn
<1>6. cursor' = next BY <1>1, <1>3, <1>4, <1>5
<1>7. \A r : r \in InQuery <=> IsMatch(log, r) /\ InSpan(Span, r) BY <1>2, QueryFacts
<1>8. /\ IsFiniteSet(Found)
      /\ \A r \in Found : IsMatch(log, r) /\ InSpan(Span, r) /\ ~Reached(from.walk, from.at, r)
  BY <1>3, <1>5, FoundFacts
<1>9. \A r \in Found : ~Past(cursor, r) /\ r \in InQuery BY <1>4, <1>7, <1>8
<1>10. Found \subseteq Asked
  BY <1>1, <1>2, <1>9 DEF Asked, NeverBack
<1>11. /\ \A r : InSpan(Span, r) /\ Reached(from.walk, from.at, r) => Behind(next, r)
       /\ remaining = {} => \A r \in FoundIn(batch) : Behind(next, r)
  BY <1>3, PassForward
<1>12. next # NoCursor => next \in Cursors /\ next.order = order /\ next.walk = from.walk
  BY <1>3, NextFacts
<1>13. ASSUME remaining = {} \/ Way = "oldest"
       PROVE  \A r : IsMatch(log, r) /\ InSpan(Span, r) /\ ~Reached(from.walk, from.at, r)
                       /\ Behind(next, r) => r \in FoundIn(batch)
  BY <1>3, <1>4, <1>13, PassComplete
<1>14. Cardinality(Found) \in Nat BY <1>8, FS_CardinalityType
<1> HIDE DEF next, from, ws
<1>15. cursor' # NoCursor => IsAlong(cursor') BY <1>4, <1>6, <1>12 DEF IsAlong, order
<1>16. \A r \in InQuery : Past(cursor, r) => Behind(cursor', r) BY <1>4, <1>6, <1>7, <1>11
<1>17. remaining = {} => \A r \in Found : Behind(cursor', r) BY <1>5, <1>6, <1>11
<1>18. remaining = {} \/ Way = "oldest" =>
              \A r \in InQuery : Behind(cursor', r) /\ ~Past(cursor, r) => r \in Found
  BY <1>4, <1>5, <1>6, <1>7, <1>13
<1> QED BY <1>8, <1>9, <1>10, <1>14, <1>15, <1>16, <1>17, <1>18

\* A pass ends.
LEMMA EndPassPages == PagesInv /\ EndPass => PagesInv'
<1> SUFFICES ASSUME PagesInv, EndPass PROVE PagesInv' OBVIOUS
<1> DEFINE room == query.limit - Cardinality(kept)
<1>1. /\ pc = "scan" /\ (remaining = {} \/ late)
      /\ kept' = kept \cup Found /\ whole' = (whole /\ remaining = {})
      /\ UNCHANGED <<log, params, query, marks, opened, delivered, repeated, partial>>
      /\ pc' \in {"page", "pass"}
      /\ pc' = "pass" => /\ ~(Cardinality(Found) >= room) /\ cursor' # NoCursor /\ ~late
  BY DEF EndPass, queryVars, historyVars
<1>2. Running /\ Running' BY <1>1 DEF Running
<1>3. Posed' BY <1>1, <1>2 DEF PagesInv, Posed, Running
<1>4. /\ Span' = Span /\ Asked' = Asked /\ InQuery' = InQuery /\ take' = take
      /\ \A c : IsAlong(c)' <=> IsAlong(c)
  BY <1>1, SameRead
<1>5. /\ Found \subseteq Asked /\ IsFiniteSet(Found) /\ Cardinality(Found) \in Nat
      /\ \A r \in Found : ~Past(cursor, r)
      /\ cursor' # NoCursor => IsAlong(cursor')
      /\ \A r \in InQuery : Past(cursor, r) => Behind(cursor', r)
      /\ remaining = {} => \A r \in Found : Behind(cursor', r)
  BY EndFacts
<1>6. Asked \subseteq InQuery BY DEF Asked
<1>7. /\ repeated \subseteq partial /\ delivered \subseteq Asked /\ kept \subseteq Asked
      /\ \A r \in kept : r \in delivered => r \in partial
      /\ \A r \in delivered : Past(cursor, r) \/ r \in partial
      /\ \A r \in kept : Past(cursor, r)
  BY <1>1, <1>2 DEF PagesInv, Forward
<1>8. /\ opened = NoCursor => query.cursor = NoCursor /\ delivered = {}
      /\ opened # NoCursor => IsAlong(opened)
      /\ marks = Span /\ take > 0
      /\ whole /\ IsFiniteSet(kept) /\ Cardinality(kept) < query.limit
  BY <1>1, <1>2 DEF PagesInv, Along
<1>9. Along'
  <2>1. ASSUME pc' = "pass"
        PROVE  (whole /\ IsFiniteSet(kept) /\ Cardinality(kept) < query.limit)'
    <3>1. remaining = {} /\ ~(Cardinality(Found) >= room) BY <1>1, <2>1
    <3>2. IsFiniteSet(kept \cup Found) BY <1>5, <1>8, FS_Union
    <3>3. Cardinality(kept \cup Found)
            = Cardinality(kept) + Cardinality(Found) - Cardinality(kept \cap Found)
      BY <1>5, <1>8, FS_Union
    <3>4. IsFiniteSet(kept \cap Found) BY <1>8, FS_Subset
    <3>5. Cardinality(kept) \in Nat /\ Cardinality(kept \cap Found) \in Nat
      BY <1>8, <3>4, FS_CardinalityType
    <3>6. query.limit \in Nat BY <1>2, QueryFacts DEF PagesInv
    <3>7. Cardinality(kept \cup Found) < query.limit BY <3>1, <3>3, <3>5, <3>6, <1>5
    <3> QED BY <3>1, <3>2, <3>7, <1>1, <1>8
  <2>2. opened' # NoCursor => IsAlong(opened)' BY <1>1, <1>4, <1>8
  <2>3. cursor' # NoCursor => IsAlong(cursor)' BY <1>4, <1>5 DEF IsAlong, Way
  <2> QED BY <1>1, <1>4, <1>8, <2>1, <2>2, <2>3 DEF Along
<1>10. Scanning' BY <1>1 DEF Scanning
<1>11. Forward'
  <2>1. kept' \subseteq Asked /\ \A r \in kept' : r \in delivered => r \in partial
    BY <1>1, <1>5, <1>7
  <2>2. \A r \in delivered : Behind(cursor', r) \/ r \in partial BY <1>5, <1>6, <1>7
  <2>3. \A r \in kept' : Behind(cursor', r) \/ ~whole' BY <1>1, <1>5, <1>6, <1>7
  <2>4. ASSUME pc' = "pass" PROVE \A r : Behind(cursor', r) => Past(cursor', r)
    BY <1>1, <2>4 DEF Past
  <2>5. pc' = "pass" => whole' BY <1>1, <1>8
  <2>6. pc' = "page" \/ pc' = "pass" BY <1>1
  <2> QED BY <1>1, <1>4, <1>7, <2>1, <2>2, <2>3, <2>4, <2>5, <2>6 DEF Forward, Past, Behind
<1>12. NeverBack'
  <2>1. query.cursor # NoCursor => \A r \in InQuery : Behind(query.cursor, r) => Behind(cursor', r)
    BY <1>1, <1>2, <1>5 DEF PagesInv, NeverBack
  <2>2. pc' = "pass" => cursor' # NoCursor BY <1>1
  <2> QED BY <1>1, <1>4, <2>1, <2>2 DEF NeverBack, Past
<1> QED BY <1>3, <1>9, <1>10, <1>11, <1>12 DEF PagesInv

\* The next page is asked for with the cursor of this one.
LEMMA FollowedIsCursor == ASSUME PagesInv, pc = "page" PROVE Followed = cursor
<1>1. cursor # NoCursor => cursor \in Cursors /\ cursor.order = order
  BY DEF PagesInv, Along, IsAlong, order
<1> QED BY <1>1, ReadsBack DEF Followed

\* A page is returned.
LEMMA EndPagePages == PagesInv /\ EndPage => PagesInv'
<1> SUFFICES ASSUME PagesInv, EndPage PROVE PagesInv' OBVIOUS
<1>1. /\ pc = "page" /\ UNCHANGED <<log, params, query, marks, cursor, kept, whole>>
  BY DEF EndPage, queryVars
<1>2. Followed = cursor BY <1>1, FollowedIsCursor
<1>3. Running BY <1>1 DEF Running
<1>4. /\ repeated \subseteq partial /\ delivered \subseteq Asked /\ kept \subseteq Asked
      /\ \A r \in kept : r \in delivered => r \in partial
      /\ \A r \in delivered : Behind(cursor, r) \/ r \in partial
      /\ \A r \in kept : Behind(cursor, r) \/ ~whole
  BY <1>1, <1>3 DEF PagesInv, Forward
<1>5. CASE pc' = "failed" /\ UNCHANGED <<opened, historyVars>>
  <2>1. repeated' \subseteq partial' BY <1>4, <1>5 DEF historyVars
  <2> QED BY <1>1, <1>5, <2>1, EndsPages
<1>6. CASE /\ delivered' = delivered \cup kept
           /\ repeated' = repeated \cup (delivered \cap kept)
           /\ partial' = IF whole THEN partial ELSE partial \cup kept
           /\ opened' = Followed
           /\ pc' = CASE Followed = NoCursor -> "done"
                      [] Followed # NoCursor /\ Followed = opened -> "failed"
                      [] OTHER -> "open"
  <2>1. repeated' \subseteq partial' /\ partial \subseteq partial' BY <1>4, <1>6
  <2>2. \/ pc' = "done" /\ cursor = NoCursor
        \/ pc' = "failed"
        \/ pc' = "open" /\ cursor # NoCursor
    BY <1>2, <1>6
  <2>3. CASE pc' \in {"done", "failed"} BY <2>1, <2>3, <1>1, EndsPages
  <2>4. CASE pc' = "open" /\ cursor # NoCursor
    <3>1. Running' BY <2>4 DEF Running
    <3>2. Posed' BY <1>1, <1>3, <3>1 DEF PagesInv, Posed, Running
    <3>3. /\ Span' = Span /\ Asked' = Asked /\ InQuery' = InQuery
          /\ \A c : IsAlong(c)' <=> IsAlong(c)
      BY <1>1, SameRead
    <3>4. opened' = cursor /\ IsAlong(cursor) /\ marks = Span
      BY <1>1, <1>2, <1>6, <2>4 DEF PagesInv, Along
    <3>5. Along'
      <4>1. IsAlong(opened)' BY <3>3, <3>4 DEF IsAlong
      <4> QED BY <4>1, <1>1, <2>4, <3>3, <3>4 DEF Along
    <3>6. Scanning' BY <2>4 DEF Scanning
    <3>7. Forward'
      <4>1. \A r \in delivered' : Past(opened', r) \/ r \in partial'
        BY <1>4, <1>6, <2>4, <3>4 DEF Past
      <4>2. delivered' \subseteq Asked BY <1>4, <1>6
      <4> QED BY <4>1, <4>2, <2>1, <2>4, <3>3 DEF Forward, Past, Behind
    <3>8. NeverBack'
      <4>1. query.cursor # NoCursor => \A r \in InQuery : Behind(query.cursor, r) => Behind(cursor, r)
        BY <1>1, <1>3 DEF PagesInv, NeverBack
      <4> QED BY <4>1, <1>1, <2>4, <3>3, <3>4 DEF NeverBack, Past
    <3> QED BY <3>2, <3>5, <3>6, <3>7, <3>8 DEF PagesInv
  <2> QED BY <2>2, <2>3, <2>4
<1> QED BY <1>5, <1>6 DEF EndPage

\* Every step keeps the invariant.
LEMMA PagesInvNext == ASSUME ~MarksFail, PagesInv, [Next]_vars PROVE PagesInv'
<1>1. CASE Ask BY <1>1, AskPages
<1>2. CASE OpenEmpty
  <2>1. /\ pc = "open" /\ pc' \in {"unknown", "done"}
        /\ UNCHANGED <<log, params, query, marks, repeated, partial>>
    BY <1>2 DEF OpenEmpty, queryVars, pageVars, historyVars
  <2> QED BY <2>1, EndsPages DEF PagesInv, Forward
<1>3. CASE OpenPage BY <1>3, OpenPages
<1>4. CASE DeadlinePasses BY <1>4, SamePages DEF DeadlinePasses
<1>5. CASE OpenTimesOut
  <2>1. /\ pc = "pass" /\ pc' = "failed"
        /\ UNCHANGED <<log, params, query, marks, repeated, partial>>
    BY <1>5 DEF OpenTimesOut, queryVars, pageVars, historyVars
  <2> QED BY <2>1, EndsPages DEF PagesInv, Forward
<1>6. CASE StartPass BY <1>6, StartPages
<1>7. CASE EndPass BY <1>7, EndPassPages
<1>8. CASE EndPage BY <1>8, EndPagePages
<1>9. CASE EndRecord
  <2>1. /\ pc = "page" /\ pc' \in {"unknown", "done", "failed"}
        /\ UNCHANGED <<log, params, query, marks, repeated, partial>>
    BY <1>9 DEF EndRecord, queryVars, pageVars
  <2> QED BY <2>1, EndsPages DEF PagesInv, Forward
<1>10. CASE \E p \in remaining : PollRecord(p) \/ SettleIdle(p)
  BY <1>10, PollPages, SettlePages
<1>11. CASE UNCHANGED vars BY <1>11, SamePages DEF vars
<1> QED
  BY <1>1, <1>2, <1>3, <1>4, <1>5, <1>6, <1>7, <1>8, <1>9, <1>10, <1>11 DEF Next

\* The cursor never goes back, and the batch of every pass is the best of what it
\* polled.
THEOREM PagesGoForward == ASSUME ~MarksFail PROVE Spec => []PagesInv
<1>1. Init => PagesInv BY PagesInvInit
<1>2. PagesInv /\ [Next]_vars => PagesInv' BY PagesInvNext
<1> QED BY <1>1, <1>2, PTL DEF Spec

\* LogSpan::rewind goes back over what the cursor has left behind, and over nothing
\* else.
LEMMA RewindFacts ==
  ASSUME NEW ms, AreMarks(ms), DOMAIN ms \subseteq Nat, IsFiniteSet(DOMAIN ms),
         NEW c \in Cursors, NEW r, InSpan(ms, r)
  PROVE  Behind(c, r) <=> ~Behind(Rewind(ms, c), r)
<1> DEFINE back == [p \in DOMAIN ms |->
                      IF p \in DOMAIN c.at THEN c.at[p]
                      ELSE IF c.walk = "oldest" THEN ms[p].high ELSE ms[p].low]
<1>1. Rewind(ms, c) = Cursor(ms, c.order, Flipped(c.walk), back) BY DEF Rewind
<1>2. /\ c.order \in Orders /\ c.walk \in Orders /\ \A p \in DOMAIN c.at : c.at[p] \in Nat
  BY CursorParts
<1>3. Flipped(c.walk) \in Orders /\ (Flipped(c.walk) = "oldest" <=> c.walk # "oldest")
  BY <1>2 DEF Flipped, Orders
<1>4. DOMAIN back = DOMAIN ms /\ \A p \in DOMAIN back : back[p] \in Nat
  BY <1>2 DEF AreMarks
<1>5. /\ r.p \in DOMAIN ms /\ r.o \in Nat /\ ms[r.p].low <= r.o /\ r.o < ms[r.p].high
      /\ ms[r.p].low \in Nat /\ ms[r.p].high \in Nat
  BY DEF InSpan, AreMarks
<1>6. back[r.p] = IF r.p \in DOMAIN c.at THEN c.at[r.p]
                  ELSE IF c.walk = "oldest" THEN ms[r.p].high ELSE ms[r.p].low
  BY <1>5
<1> HIDE DEF back
<1>7. Behind(Rewind(ms, c), r) <=> Reached(Flipped(c.walk), back, r)
  BY <1>1, <1>2, <1>3, <1>4, CursorReaches
<1>8. Reached(Flipped(c.walk), back, r) <=>
        IF c.walk # "oldest" THEN r.o < back[r.p] ELSE r.o >= back[r.p]
  BY <1>3, <1>4, <1>5 DEF Reached
<1>9. Behind(c, r) <=> Reached(c.walk, c.at, r) BY BehindReached
<1>10. CASE r.p \in DOMAIN c.at
  <2>1. back[r.p] = c.at[r.p] /\ c.at[r.p] \in Nat BY <1>2, <1>6, <1>10
  <2> QED BY <2>1, <1>5, <1>7, <1>8, <1>9, <1>10 DEF Reached
<1>11. CASE r.p \notin DOMAIN c.at
  <2>1. Reached(c.walk, c.at, r) BY <1>11 DEF Reached
  <2>2. back[r.p] = IF c.walk = "oldest" THEN ms[r.p].high ELSE ms[r.p].low BY <1>6, <1>11
  <2> QED BY <2>1, <2>2, <1>5, <1>7, <1>8, <1>9
<1> QED BY <1>10, <1>11

\* A record comes a second time only when the page that returned it first was not
\* complete, and a page and its way back share the log between them, for every log
\* and every request, however often the deadline cuts a page.
THEOREM PagesReturnNothingTwice == ASSUME ~MarksFail PROVE Spec => []NothingTwice
<1>1. PagesInv => NothingTwice
  <2> SUFFICES ASSUME PagesInv PROVE NothingTwice OBVIOUS
  <2>1. repeated \subseteq partial BY DEF PagesInv, Forward
  <2>2. ASSUME pc = "open", opened # NoCursor, marks # <<>>, NEW r \in InQuery
        PROVE  Behind(opened, r) = ~Behind(Rewind(marks, opened), r)
    <3>1. Running BY <2>2 DEF Running
    <3>2. marks = Span /\ opened \in Cursors BY <2>2, <3>1 DEF PagesInv, Along, IsAlong
    <3>3. /\ AreMarks(Span) /\ DOMAIN Span \subseteq Nat /\ IsFiniteSet(DOMAIN Span)
          /\ InSpan(Span, r)
      BY <2>2, <3>1, QueryFacts DEF PagesInv
    <3>4. Behind(opened, r) <=> ~Behind(Rewind(marks, opened), r) BY <3>2, <3>3, RewindFacts
    <3>5. Behind(opened, r) \in BOOLEAN
      <4>1. CASE r.p \notin DOMAIN opened.at BY <4>1 DEF Behind
      <4>2. CASE r.p \in DOMAIN opened.at /\ opened.walk = "oldest"
        <5>1. Behind(opened, r) = (r.o < opened.at[r.p]) BY <2>2, <4>2, Zenon DEF Behind
        <5> QED BY <5>1
      <4>3. CASE r.p \in DOMAIN opened.at /\ opened.walk # "oldest"
        <5>1. Behind(opened, r) = (r.o >= opened.at[r.p]) BY <2>2, <4>3, Zenon DEF Behind
        <5> QED BY <5>1
      <4> QED BY <4>1, <4>2, <4>3
    <3> QED BY <3>4, <3>5
  <2> QED BY <2>1, <2>2 DEF NothingTwice
<1> QED BY <1>1, PagesGoForward, PTL

------------------------------------------------------------------------------
(* What is behind the cursor was returned.                                   *)

\* The two ways to say what a read is to return.
LEMMA MatchingFacts ==
  /\ Matching = {r \in Asked : params.kind = "record" => r.o \in params.start}
  /\ params.kind # "record" => Matching = Asked
  /\ \A r \in Asked : r \in InQuery /\ (query.cursor # NoCursor => ~Behind(query.cursor, r))
BY DEF Matching, AskedFor, Asked

\* A read by offset starts at its offset, of one partition, and keeps one record.
LEMMA RecordFacts ==
  ASSUME Posed, Running, params.kind = "record"
  PROVE  \E p, o : /\ Selected = {p} /\ params.start = {o} /\ o \in Nat
                   /\ query.limit = 1 /\ ~query.searching
                   /\ query.cursor.at = [q \in {p} |-> o]
                   /\ Way = "oldest" /\ query.cursor # NoCursor
<1>1. /\ IsRequest(params) /\ RefusedQuery(params) = "no" /\ query = IntoQuery(params)
  BY DEF Posed, Running
<1>2. PICK p \in params.partitions, o \in params.start : params = RecordAt(p, o)
  BY <1>1 DEF IsRequest
<1>3. /\ params.order = {"oldest"} /\ params.limit = 1 /\ params.searching = FALSE
      /\ params.partitions = {p} /\ params.token = {} /\ params.start = {o}
  BY <1>2 DEF RecordAt
<1>4. o \in Nat
  <2>1. o \in Int BY <1>1, <1>3 DEF IsRequest
  <2>2. ~StartRefused(params) BY <1>1 DEF RefusedQuery
  <2>3. o >= 0 BY <2>2, <1>3 DEF StartRefused
  <2> QED BY <2>1, <2>3
<1>5. OrderOf(params) = "oldest" BY <1>3 DEF OrderOf
<1>6. CursorOf(params) = CursorAt("oldest", p, o)
  <2>1. (CHOOSE x \in params.partitions : TRUE) = p /\ (CHOOSE x \in params.start : TRUE) = o
    BY <1>3
  <2> QED BY <2>1, <1>3, <1>5 DEF CursorOf
<1>7. query.cursor = [order |-> "oldest", walk |-> "oldest", at |-> [q \in {p} |-> o]]
  BY <1>1, <1>6 DEF IntoQuery, CursorAt
<1>8. query.limit = 1 /\ query.searching = FALSE /\ query.partitions = {p}
  <2>1. query.limit = ClampLimit(1) BY <1>1, <1>3 DEF IntoQuery
  <2>2. ClampLimit(1) = 1 BY LimitsAssumption DEF ClampLimit, AtMost
  <2>3. query.searching = FALSE /\ query.partitions = {p} BY <1>1, <1>3 DEF IntoQuery
  <2> QED BY <2>1, <2>2, <2>3
<1>9. Selected = {p} BY <1>8 DEF Selected
<1>10. query.cursor # NoCursor
  <2>1. query.cursor.order = "oldest" BY <1>7
  <2>2. NoCursor.order = "none" BY DEF NoCursor
  <2> QED BY <2>1, <2>2
<1>11. Way = "oldest" BY <1>7, <1>10 DEF Way
<1>12. query.cursor.at = [q \in {p} |-> o] BY <1>7
<1> QED BY <1>3, <1>4, <1>8, <1>9, <1>10, <1>11, <1>12

\* The first pass of a read by offset keeps its record, or reads nothing.
LEMMA EndRecordPass ==
  ASSUME PagesInv, OneRecord, EndPass, params.kind = "record"
  PROVE  pc' = "page" /\ (Matching \subseteq kept' \/ (~scanned' /\ kept' = {}))
<1>1. /\ pc = "scan" /\ kept' = kept \cup Found
      /\ scanned' = (scanned \/ remaining # DOMAIN windows)
  BY DEF EndPass
<1>2. /\ opened = query.cursor /\ cursor = opened /\ kept = {} /\ pass = 0 /\ ~scanned
  BY <1>1 DEF OneRecord, Running
<1>3. PICK p, o : /\ Selected = {p} /\ params.start = {o} /\ o \in Nat
                  /\ query.limit = 1 /\ ~query.searching
                  /\ query.cursor.at = [q \in {p} |-> o]
                  /\ Way = "oldest" /\ query.cursor # NoCursor
  BY <1>1, RecordFacts DEF PagesInv, Running
<1>4. pc' = "page"
  <2>1. maxPasses = 1 BY <1>3 DEF maxPasses
  <2> QED BY <2>1, <1>2 DEF EndPass
<1>5. ASSUME NEW r \in Matching, r \notin kept' PROVE ~scanned' /\ kept' = {}
  <2>1. /\ IsPass(Span, log, order, take, cursor, position, 1, batch, remaining)
        /\ windows = Windows(Span, order, take, cursor)
    <3>1. Cardinality(kept) = 0 BY <1>2, FS_EmptySet
    <3>2. query.limit - Cardinality(kept) = 1 BY <3>1, <1>3
    <3> QED BY <3>2, <1>1, ScanIsPass DEF PagesInv
  <2>2. /\ FromOf(Span, order, cursor).walk = "oldest"
        /\ FromOf(Span, order, cursor).at = [q \in {p} |-> o]
    BY <1>1, <1>2, <1>3, FromFacts DEF PagesInv, FromOf
  <2>3. /\ r \in InQuery /\ ~Behind(query.cursor, r) /\ r.o = o
    BY <1>3, <1>5, MatchingFacts
  <2>4. IsMatch(log, r) /\ InSpan(Span, r) /\ r.p = p
    <3>1. DOMAIN Span = {p} BY <1>3 DEF Span
    <3> QED BY <2>3, <3>1, <1>1, QueryFacts DEF PagesInv, Running, InSpan
  <2>5. ~Reached("oldest", [q \in {p} |-> o], r) BY <2>3, <2>4, <1>3 DEF Reached
  <2>6. /\ DOMAIN windows \subseteq DOMAIN Span /\ DOMAIN Span = {p}
        /\ \A q \in DOMAIN windows :
             /\ windows[q].start \in Nat /\ windows[q].end \in Nat
             /\ windows[q].start < windows[q].end
             /\ Span[q].low <= windows[q].start /\ windows[q].end <= Span[q].high
        /\ \A x : InSpan(Span, x) /\ x.p \in DOMAIN windows =>
              (Reached("oldest", [q \in {p} |-> o], x) <=> x.o < windows[x.p].start)
        /\ \A x : InSpan(Span, x) /\ x.p \notin DOMAIN windows =>
              Reached("oldest", [q \in {p} |-> o], x)
    BY <2>1, <2>2, <1>3, PassWindows DEF Span
  <2>7. p \in DOMAIN windows BY <2>4, <2>5, <2>6
  <2>8. windows[p].start = o
    <3> DEFINE x == [p |-> p, o |-> windows[p].start]
    <3>1. windows[p].start \in Nat BY <2>6, <2>7
    <3>2. InSpan(Span, x)
      <4>1. Span[p].low \in Nat /\ Span[p].high \in Nat
        BY <2>6, <1>1, QueryFacts DEF PagesInv, Running, AreMarks
      <4> QED BY <4>1, <2>6, <2>7 DEF InSpan
    <3>3. ~Reached("oldest", [q \in {p} |-> o], x) BY <3>1, <3>2, <2>6, <2>7
    <3>4. windows[p].start >= o BY <3>1, <3>3, <1>3 DEF Reached
    <3>5. o >= windows[p].start BY <2>3, <2>4, <2>5, <2>6, <2>7, <1>3, <3>1
    <3> QED BY <3>1, <3>4, <3>5, <1>3
  <2>9. Found = FoundIn(batch) BY DEF Found, FoundIn
  <2>10. r \notin FoundIn(batch) BY <1>1, <1>5, <2>9
  <2>11. DOMAIN windows = {p} BY <2>6, <2>7
  <2>12. remaining # {} /\ batch = {}
    BY <2>1, <2>2, <2>3, <2>4, <2>8, <2>10, <2>11, PassFirst
  <2>13. remaining = DOMAIN windows BY <2>1, <2>11, <2>12 DEF IsPass
  <2>14. Found = {} BY <2>12 DEF Found
  <2> QED BY <2>13, <2>14, <1>1, <1>2
<1> QED BY <1>4, <1>5

Returned == Complete /\ OneRecord

\* The request is accepted: nothing is behind its cursor that it is to return.
LEMMA AskReturned == ASSUME PagesInv, Ask PROVE Returned'
<1>1. pc = "ask" /\ delivered = {} /\ UNCHANGED <<delivered, params>>
  BY DEF PagesInv, Along, Ask, historyVars
<1>2. CASE pc' = "failed" BY <1>2 DEF Returned, Complete, OneRecord, Running
<1>3. CASE pc' = "open" /\ opened' = query'.cursor
  <2>1. \A r : r \in Asked' /\ Past(opened', r) => FALSE BY <1>3 DEF Asked, Past
  <2>2. Complete' BY <1>3, <2>1 DEF Complete, Past, Behind
  <2>3. OneRecord' BY <1>1, <1>3 DEF OneRecord
  <2> QED BY <2>2, <2>3 DEF Returned
<1> QED BY <1>2, <1>3 DEF Ask

\* With nothing in front of it, a read has returned what it was to return.
LEMMA EmptyReturned ==
  ASSUME ~MarksFail, PagesInv, Returned, OpenEmpty
  PROVE  Returned'
<1>1. /\ pc = "open" /\ pc' \in {"unknown", "done"}
      /\ UNCHANGED <<log, params, query, delivered>>
  BY DEF OpenEmpty, queryVars, historyVars
<1>2. Running BY <1>1 DEF Running
<1>3. DOMAIN Windows(Span, order, take, opened) = {}
  <2>1. PICK lost \in Losses : DOMAIN Windows(Resolved(lost), order, take, opened) = {}
    BY DEF OpenEmpty
  <2>2. lost = AllAnswered BY <2>1 DEF Losses
  <2> QED BY <2>1, <2>2, AnsweredIsSpan
<1>4. opened = NoCursor \/ (opened \in Cursors /\ opened.order = order)
  BY <1>2 DEF PagesInv, Along, IsAlong, order
<1>5. ASSUME take > 0, NEW r, InSpan(Span, r) PROVE Past(opened, r)
  <2>1. /\ order \in Orders /\ take \in Nat \ {0} /\ AreMarks(Span)
        /\ DOMAIN Span \subseteq Nat /\ IsFiniteSet(DOMAIN Span)
    BY <1>2, <1>5, QueryFacts DEF PagesInv
  <2> QED BY <2>1, <1>3, <1>4, <1>5, NothingLeft
<1>6. take > 0 => \A r \in Asked : Past(opened, r)
  BY <1>2, <1>5, MatchingFacts, QueryFacts DEF PagesInv
<1>7. ASSUME take > 0 PROVE delivered = Matching
  <2> USE <1>7
  <2>1. CASE params.kind # "record"
    <3>1. \A r \in Asked : r \in delivered BY <1>1, <1>6 DEF Returned, Complete
    <3>2. delivered \subseteq Asked BY <1>2 DEF PagesInv, Forward
    <3> QED BY <3>1, <3>2, <2>1, MatchingFacts
  <2>2. CASE params.kind = "record"
    <3>1. delivered = {} /\ opened = query.cursor BY <2>2, <1>2 DEF Returned, OneRecord
    <3>2. Asked = {} BY <3>1, <1>6, MatchingFacts DEF Past
    <3> QED BY <3>1, <3>2, MatchingFacts
  <2> QED BY <2>1, <2>2
<1>8. Matching' = Matching /\ take' = take BY <1>1, SameRead
<1>9. Complete' BY <1>1, <1>7, <1>8 DEF Complete
<1>10. OneRecord' BY <1>1 DEF OneRecord, Running
<1> QED BY <1>9, <1>10 DEF Returned

\* A page opens where the one before it ended.
LEMMA OpenReturned ==
  ASSUME PagesInv, Returned, OpenPage
  PROVE  Returned'
<1>1. /\ pc = "open" /\ pc' = "pass" /\ cursor' = opened /\ kept' = {} /\ pass' = 0
      /\ scanned' = FALSE
      /\ UNCHANGED <<log, params, query, opened, delivered>>
  BY DEF OpenPage, queryVars, historyVars
<1>2. Asked' = Asked BY <1>1, SameRead
<1>3. Complete' BY <1>1, <1>2 DEF Returned, Complete
<1>4. OneRecord' BY <1>1 DEF Returned, OneRecord, Running
<1> QED BY <1>3, <1>4 DEF Returned

\* A step within a page that moves neither the cursor nor what was kept.
LEMMA SameReturned ==
  ASSUME Returned,
         UNCHANGED <<log, params, query, pc, opened, cursor, kept, pass, scanned, delivered>>
  PROVE  Returned'
<1>1. Asked' = Asked /\ Matching' = Matching /\ take' = take BY SameRead
<1>2. Running' <=> Running BY DEF Running
<1>3. Complete' BY <1>1 DEF Returned, Complete
<1>4. OneRecord' BY <1>1, <1>2 DEF Returned, OneRecord
<1> QED BY <1>3, <1>4 DEF Returned

\* A pass starts, or ends the page with all of the span behind it.
LEMMA StartReturned == ASSUME PagesInv, Returned, StartPass PROVE Returned'
<1>1. /\ pc = "pass"
      /\ UNCHANGED <<log, params, query, opened, kept, pass, scanned, delivered>>
  BY DEF StartPass, queryVars, historyVars
<1>2. \/ /\ DOMAIN Windows(marks, order, take, cursor) = {}
         /\ pc' = "page" /\ cursor' = NoCursor
      \/ pc' = "scan" /\ cursor' = cursor
  BY DEF StartPass
<1>3. Asked' = Asked /\ Matching' = Matching BY <1>1, SameRead
<1>4. CASE pc' = "scan" /\ cursor' = cursor
  <2>1. Complete' BY <1>1, <1>3, <1>4 DEF Returned, Complete
  <2>2. OneRecord' BY <1>1, <1>4 DEF Returned, OneRecord, Running
  <2> QED BY <2>1, <2>2 DEF Returned
<1>5. CASE /\ DOMAIN Windows(marks, order, take, cursor) = {}
           /\ pc' = "page" /\ cursor' = NoCursor
  <2>1. /\ marks = Span
        /\ cursor = NoCursor \/ (cursor \in Cursors /\ cursor.order = order)
    BY <1>1, FromFacts DEF PagesInv
  <2>2. /\ order \in Orders /\ take \in Nat \ {0} /\ AreMarks(Span)
        /\ DOMAIN Span \subseteq Nat /\ IsFiniteSet(DOMAIN Span)
        /\ \A r \in InQuery : InSpan(Span, r)
    BY <1>1, QueryFacts DEF PagesInv, Running, Along
  <2>3. \A r : InSpan(Span, r) => Past(cursor, r) BY <2>1, <2>2, <1>5, NothingLeft
  <2>4. \A r \in Asked : Past(cursor, r) BY <2>2, <2>3, MatchingFacts
  <2>5. Complete' BY <1>1, <1>3, <1>5, <2>4 DEF Returned, Complete
  <2>6. OneRecord'
    <3>1. ASSUME params.kind = "record" PROVE Matching = {}
      <4>1. cursor = query.cursor BY <1>1, <3>1 DEF Returned, OneRecord, Running
      <4>2. Asked = {} BY <4>1, <2>4, MatchingFacts DEF Past
      <4> QED BY <4>2, MatchingFacts
    <3> QED BY <3>1, <1>1, <1>3, <1>5 DEF Returned, OneRecord, Running
  <2> QED BY <2>5, <2>6 DEF Returned
<1> QED BY <1>2, <1>4, <1>5

\* A pass ends with its cursor past what it kept and no further.
LEMMA EndPassReturned ==
  ASSUME PagesInv, Returned, CutOnlyUpwards, EndPass
  PROVE  Returned'
<1>1. /\ pc = "scan" /\ (remaining = {} \/ late) /\ kept' = kept \cup Found
      /\ UNCHANGED <<log, params, query, opened, delivered>>
      /\ pc' \in {"page", "pass"}
  BY DEF EndPass, queryVars, historyVars
<1>2. Asked' = Asked /\ Matching' = Matching BY <1>1, SameRead
<1>3. remaining = {} \/ Way = "oldest"
  <2>1. walk = Way BY <1>1, WalkIsWay DEF PagesInv, Running
  <2> QED BY <2>1, <1>1 DEF CutOnlyUpwards
<1>4. \A r \in InQuery : Behind(cursor', r) /\ ~Past(cursor, r) => r \in Found
  BY <1>3, EndFacts
<1>5. \A r \in Asked : Past(cursor, r) => r \in delivered \cup kept
  BY <1>1 DEF Returned, Complete
<1>6. \A r \in Asked : Behind(cursor', r) => r \in delivered \cup kept'
  BY <1>1, <1>4, <1>5, MatchingFacts
<1>7. Complete' BY <1>1, <1>2, <1>6 DEF Complete, Past
<1>8. OneRecord'
  <2>1. ASSUME params.kind = "record"
        PROVE  /\ pc' = "page" /\ (Matching \subseteq kept' \/ (~scanned' /\ kept' = {}))
               /\ delivered = {} /\ opened = query.cursor
    BY <2>1, <1>1, EndRecordPass DEF Returned, OneRecord, Running
  <2> QED BY <2>1, <1>1, <1>2 DEF OneRecord
<1> QED BY <1>7, <1>8 DEF Returned

\* A page is returned, and the read goes on from its cursor or is done.
LEMMA EndPageReturned == ASSUME PagesInv, Returned, EndPage PROVE Returned'
<1>1. pc = "page" /\ params.kind # "record" /\ UNCHANGED <<log, params, query>>
  BY DEF EndPage, queryVars
<1>2. OneRecord' BY <1>1 DEF OneRecord
<1>3. Followed = cursor BY <1>1, FollowedIsCursor
<1>4. Asked' = Asked /\ Matching' = Matching /\ Matching = Asked
  BY <1>1, SameRead, MatchingFacts
<1>5. \A r \in Asked : Behind(cursor, r) => r \in delivered \cup kept
  BY <1>1 DEF Returned, Complete
<1>6. CASE pc' = "failed" BY <1>2, <1>6 DEF Returned, Complete
<1>7. CASE /\ delivered' = delivered \cup kept /\ opened' = cursor
           /\ \/ pc' = "done" /\ cursor = NoCursor
              \/ pc' = "open" /\ cursor # NoCursor
  <2>1. CASE pc' = "open" /\ cursor # NoCursor
    <3>1. \A r \in Asked : Past(opened', r) => r \in delivered' BY <1>5, <1>7, <2>1 DEF Past
    <3> QED BY <1>2, <1>4, <2>1, <3>1 DEF Returned, Complete, Past, Behind
  <2>2. CASE pc' = "done" /\ cursor = NoCursor
    <3>1. \A r \in Asked : r \in delivered' BY <1>5, <1>7, <2>2 DEF Behind
    <3>2. delivered' \subseteq Asked BY <1>1, <1>7 DEF PagesInv, Forward, Running
    <3> QED BY <1>2, <1>4, <2>2, <3>1, <3>2 DEF Returned, Complete
  <2> QED BY <1>7, <2>1, <2>2
<1> QED BY <1>3, <1>6, <1>7 DEF EndPage

\* read_record finds the record, or there is none.
LEMMA EndRecordReturned == ASSUME PagesInv, Returned, EndRecord PROVE Returned'
<1>1. pc = "page" /\ params.kind = "record" /\ UNCHANGED <<log, params, query>>
  BY DEF EndRecord, queryVars
<1>2. pc' \in {"failed", "unknown", "done"} BY DEF EndRecord
<1>3. OneRecord' BY <1>2 DEF OneRecord, Running
<1>4. Matching' = Matching BY <1>1, SameRead
<1>5. ASSUME pc' # "failed" PROVE delivered' = Matching
  <2>1. ~(~scanned /\ kept = {}) /\ delivered' = {r \in kept : r.o \in params.start}
    BY <1>5 DEF EndRecord
  <2>2. Matching \subseteq kept BY <1>1, <2>1 DEF Returned, OneRecord
  <2>3. kept \subseteq Asked BY <1>1 DEF PagesInv, Forward
  <2> QED BY <2>1, <2>2, <2>3, <1>1, MatchingFacts
<1>6. Complete' BY <1>2, <1>4, <1>5 DEF Complete
<1> QED BY <1>3, <1>6 DEF Returned

\* Every step keeps it.
LEMMA ReturnedNext ==
  ASSUME ~MarksFail, PagesInv, Returned, CutOnlyUpwards, [Next]_vars
  PROVE  Returned'
<1>1. CASE Ask BY <1>1, AskReturned
<1>2. CASE OpenEmpty BY <1>2, EmptyReturned
<1>3. CASE OpenPage BY <1>3, OpenReturned
<1>4. CASE DeadlinePasses
  BY <1>4, SameReturned DEF DeadlinePasses, queryVars, pageVars, historyVars
<1>5. CASE OpenTimesOut BY <1>5 DEF OpenTimesOut, Returned, Complete, OneRecord, Running
<1>6. CASE StartPass BY <1>6, StartReturned
<1>7. CASE EndPass BY <1>7, EndPassReturned
<1>8. CASE EndPage BY <1>8, EndPageReturned
<1>9. CASE EndRecord BY <1>9, EndRecordReturned
<1>10. CASE \E p \in remaining : PollRecord(p) \/ SettleIdle(p)
  BY <1>10, SameReturned DEF PollRecord, SettleIdle, queryVars, pageVars, historyVars
<1>11. CASE UNCHANGED vars
  BY <1>11, SameReturned DEF vars, queryVars, pageVars, historyVars
<1> QED
  BY <1>1, <1>2, <1>3, <1>4, <1>5, <1>6, <1>7, <1>8, <1>9, <1>10, <1>11 DEF Next

\* What is behind the cursor was returned, of every log and every request.
THEOREM ReadIsReturned ==
  ASSUME ~MarksFail PROVE Spec /\ []CutOnlyUpwards => [](PagesInv /\ Returned)
<1>1. Init => Returned BY DEF Init, Returned, Complete, OneRecord, Running
<1>2. PagesInv /\ Returned /\ CutOnlyUpwards /\ [Next]_vars => Returned' BY ReturnedNext
<1> QED BY <1>1, <1>2, PagesGoForward, PTL DEF Spec

\* The cursor never steps over a record that the pages left out, unless the
\* deadline cuts a page that walks down the log: each partition's share of a page
\* is consecutive although its timestamps need not rise (WindowScan::rank).
THEOREM PagesStepOverNothing ==
  ASSUME ~MarksFail PROVE Spec /\ []CutOnlyUpwards => []StepsOverNothing
<1>1. PagesInv /\ Returned => StepsOverNothing
  BY MatchingFacts DEF Returned, Complete, StepsOverNothing, Past
<1> QED BY <1>1, ReadIsReturned, PTL

\* A read that ends without an error has returned every matching record of its
\* span that is stamped in its range of instants, and nothing else, but for what
\* comes after a later timestamp in its partition (scan/session.rs, plan.rs).
THEOREM ReadsHaveEveryRecord ==
  ASSUME ~MarksFail PROVE Spec /\ []CutOnlyUpwards => []HasEveryRecord
<1>1. ASSUME PagesInv, Returned, pc \in {"done", "unknown"}, take > 0
      PROVE  HasEveryRecord
  <2>1. delivered = Matching BY <1>1 DEF Returned, Complete
  <2>2. /\ IsRequest(params) /\ RefusedQuery(params) = "no" /\ query = IntoQuery(params)
        /\ \A p \in DOMAIN log : p \in Nat /\ IsLog(log[p])
        /\ params.partitions \subseteq DOMAIN log
    BY <1>1 DEF PagesInv, Posed
  <2>3. query.from \subseteq Int /\ query.to \subseteq Int BY <2>2, AcceptedRequest
  <2>4. \A p \in Selected : IsLog(log[p])
    <3>1. query.partitions = params.partitions BY <2>2 DEF IntoQuery
    <3> QED BY <2>2, <3>1 DEF Selected
  <2>5. ASSUME NEW r \in Unstamped
        PROVE  /\ Stamp(r) \in StampsUpTo(r) /\ StampsUpTo(r) \subseteq Int
    <3>1. PICK p \in Selected : \E o \in DOMAIN log[p].recs :
             log[p].low <= o /\ r = [p |-> p, o |-> o]
      BY DEF Unstamped
    <3>2. PICK o \in DOMAIN log[p].recs : log[p].low <= o /\ r = [p |-> p, o |-> o] BY <3>1
    <3>3. DOMAIN log[p].recs \subseteq Nat /\ \A i \in DOMAIN log[p].recs : log[p].recs[i].ts \in Int
      BY <2>4 DEF IsLog
    <3>4. r.p = p /\ r.o = o /\ o <= o BY <3>2, <3>3
    <3> QED BY <3>2, <3>3, <3>4 DEF Stamp, StampsUpTo
  <2>6. AskedFor(InQuery) = AskedFor(Unstamped) \cap InQuery /\ AskedFor(Unstamped) \subseteq Unstamped
    BY DEF AskedFor, InQuery
  <2>7. ASSUME NEW r \in AskedFor(Unstamped), Stamped(r),
               \A to \in query.to : \A ts \in StampsUpTo(r) : ts <= to
        PROVE  r \in delivered
    <3>1. r \in InQuery BY <2>5, <2>6, <2>7 DEF InQuery, Stamped
    <3> QED BY <3>1, <2>1, <2>6 DEF Matching
  <2>8. ASSUME NEW r \in delivered
        PROVE  /\ r \in AskedFor(Unstamped)
               /\ \/ Stamped(r)
                  \/ \E from \in query.from :
                        /\ Stamp(r) < from /\ \E ts \in StampsUpTo(r) : ts >= from
                        /\ \A to \in query.to : Stamp(r) <= to
    <3>1. r \in AskedFor(Unstamped) /\ r \in InQuery /\ r \in Unstamped
      BY <2>1, <2>6 DEF Matching
    <3>2. Stamp(r) \in Int /\ \A to \in query.to : Stamp(r) <= to
      BY <3>1, <2>5 DEF InQuery
    <3>3. \A from \in query.from : from \in Int /\ \E ts \in StampsUpTo(r) : ts >= from
      BY <3>1, <2>3 DEF InQuery
    <3> QED BY <3>1, <3>2, <3>3 DEF Stamped
  <2> QED BY <2>7, <2>8 DEF HasEveryRecord
<1>2. PagesInv /\ Returned => HasEveryRecord BY <1>1 DEF HasEveryRecord
<1> QED BY <1>2, ReadIsReturned, PTL
------------------------------------------------------------------------------
(* The live tail: sums over partitions.                                      *)

\* Numbers up to n, by induction over a set of them.
LEMMA UpTo ==
  ASSUME NEW n \in Nat, NEW S, 0 \in S, \A i \in 1..n : i - 1 \in S => i \in S
  PROVE  0..n \subseteq S
<1> DEFINE bad == {i \in 0..n : i \notin S}
<1> SUFFICES ASSUME bad # {} PROVE FALSE OBVIOUS
<1>1. bad \in SUBSET Nat OBVIOUS
<1>2. PICK m \in bad : \A j \in bad : m <= j BY <1>1, LeastOffset
<1>3. m \in 1..n /\ m - 1 \in 0..n BY <1>2
<1>4. m - 1 \notin bad BY <1>2, <1>3
<1> QED BY <1>2, <1>3, <1>4

Cells(f) == UNION {{p} \X (1 .. f[p]) : p \in Partitions}

LEMMA InCells ==
  ASSUME NEW f, NEW p, NEW i
  PROVE  <<p, i>> \in Cells(f) <=> p \in Partitions /\ i \in 1 .. f[p]
BY DEF Cells

LEMMA CellsArePairs ==
  ASSUME NEW f, NEW c \in Cells(f)
  PROVE  c = <<c[1], c[2]>> /\ c[1] \in Partitions /\ c[2] \in 1 .. f[c[1]]
<1>1. PICK p \in Partitions : c \in {p} \X (1 .. f[p]) BY DEF Cells
<1> QED BY <1>1

\* A sum of naturals over the partitions is a natural.
LEMMA CellsFinite ==
  ASSUME NEW f \in [Partitions -> Nat]
  PROVE  IsFiniteSet(Cells(f)) /\ Total(f) \in Nat /\ Total(f) = Cardinality(Cells(f))
<1> DEFINE values == {f[p] : p \in Partitions}
<1>1. PICK m \in Nat : \A p \in Partitions : f[p] <= m
  <2>1. CASE Partitions = {} BY <2>1
  <2>2. CASE Partitions # {}
    <3>1. f \in Surjection(Partitions, values) BY DEF Surjection
    <3>2. IsFiniteSet(Partitions) BY TailAssumption
    <3>3. IsFiniteSet(values)
      <4> HIDE DEF values
      <4> QED BY <3>1, <3>2, FS_Surjection
    <3>4. values \in SUBSET Int /\ values # {} /\ values \subseteq Nat BY <2>2
    <3>5. Max(values) \in values /\ \A j \in values : j <= Max(values)
      <4> HIDE DEF values
      <4> QED BY <3>3, <3>4, GreatestOf
    <3> QED BY <3>4, <3>5
  <2> QED BY <2>1, <2>2
<1>2. IsFiniteSet(Partitions) /\ IsFiniteSet(1 .. m) BY TailAssumption, FS_Interval
<1>3. IsFiniteSet(Partitions \X (1 .. m)) BY <1>2, FS_Product
<1>4. Cells(f) \subseteq Partitions \X (1 .. m)
  <2>1. SUFFICES ASSUME NEW c \in Cells(f) PROVE c \in Partitions \X (1 .. m) OBVIOUS
  <2>2. c = <<c[1], c[2]>> /\ c[1] \in Partitions /\ c[2] \in 1 .. f[c[1]] BY CellsArePairs
  <2>3. c[2] \in 1 .. m /\ f[c[1]] \in Nat BY <2>2, <1>1
  <2> QED BY <2>2, <2>3
<1>5. IsFiniteSet(Cells(f)) BY <1>3, <1>4, FS_Subset
<1>6. Cardinality(Cells(f)) \in Nat BY <1>5, FS_CardinalityType
<1>7. Total(f) = Cardinality(Cells(f)) BY DEF Total, Cells
<1> QED BY <1>5, <1>6, <1>7

\* Sums add up.
LEMMA TotalAdds ==
  ASSUME NEW f \in [Partitions -> Nat], NEW g \in [Partitions -> Nat]
  PROVE  Total([p \in Partitions |-> f[p] + g[p]]) = Total(f) + Total(g)
<1> DEFINE h == [p \in Partitions |-> f[p] + g[p]]
           rest == Cells(h) \ Cells(f)
           shift == [c \in Cells(g) |-> <<c[1], f[c[1]] + c[2]>>]
<1>1. h \in [Partitions -> Nat] OBVIOUS
<1>2. /\ IsFiniteSet(Cells(f)) /\ Total(f) = Cardinality(Cells(f)) /\ Total(f) \in Nat
      /\ IsFiniteSet(Cells(g)) /\ Total(g) = Cardinality(Cells(g)) /\ Total(g) \in Nat
      /\ IsFiniteSet(Cells(h)) /\ Total(h) = Cardinality(Cells(h))
  <2> HIDE DEF h
  <2> QED BY <1>1, CellsFinite
<1>3. Cells(f) \subseteq Cells(h)
  <2>1. SUFFICES ASSUME NEW c \in Cells(f) PROVE c \in Cells(h) OBVIOUS
  <2>2. c = <<c[1], c[2]>> /\ c[1] \in Partitions /\ c[2] \in 1 .. f[c[1]] BY CellsArePairs
  <2>3. c[2] \in 1 .. h[c[1]] BY <2>2
  <2> HIDE DEF h
  <2> QED BY <2>2, <2>3, InCells
<1>4. ASSUME NEW c \in Cells(g)
      PROVE  /\ shift[c] = <<c[1], f[c[1]] + c[2]>> /\ c = <<c[1], c[2]>>
             /\ c[1] \in Partitions /\ c[2] \in Nat /\ f[c[1]] \in Nat
             /\ shift[c] \in rest
  <2>1. c = <<c[1], c[2]>> /\ c[1] \in Partitions /\ c[2] \in 1 .. g[c[1]] BY CellsArePairs
  <2>2. /\ f[c[1]] \in Nat /\ g[c[1]] \in Nat /\ h[c[1]] = f[c[1]] + g[c[1]] BY <2>1
  <2>3. f[c[1]] + c[2] \in 1 .. h[c[1]] /\ f[c[1]] + c[2] \notin 1 .. f[c[1]] BY <2>1, <2>2
  <2>4. shift[c] = <<c[1], f[c[1]] + c[2]>> OBVIOUS
  <2> HIDE DEF h, shift
  <2>5. shift[c] \in Cells(h) /\ shift[c] \notin Cells(f) BY <2>1, <2>3, <2>4, InCells
  <2> QED BY <2>1, <2>2, <2>4, <2>5
<1>5. shift \in Injection(Cells(g), rest)
  <2>1. shift \in [Cells(g) -> rest] BY <1>4
  <2>2. ASSUME NEW c \in Cells(g), NEW d \in Cells(g), shift[c] = shift[d] PROVE c = d
    <3> HIDE DEF shift, rest
    <3>1. c[1] = d[1] /\ f[c[1]] + c[2] = f[d[1]] + d[2] BY <1>4, <2>2
    <3>2. c[2] = d[2] BY <3>1, <1>4
    <3> QED BY <3>1, <3>2, <1>4
  <2> HIDE DEF shift, rest
  <2> QED BY <2>1, <2>2 DEF Injection, IsInjective
<1>6. shift \in Surjection(Cells(g), rest)
  <2>1. ASSUME NEW e \in rest PROVE \E c \in Cells(g) : shift[c] = e
    <3> HIDE DEF h
    <3>1. e \in Cells(h) /\ e \notin Cells(f) OBVIOUS
    <3>2. e = <<e[1], e[2]>> /\ e[1] \in Partitions /\ e[2] \in 1 .. h[e[1]]
      BY <3>1, CellsArePairs
    <3>3. e[2] \notin 1 .. f[e[1]] BY <3>1, <3>2, InCells
    <3>4. f[e[1]] \in Nat /\ g[e[1]] \in Nat /\ h[e[1]] = f[e[1]] + g[e[1]] BY <3>2 DEF h
    <3> DEFINE c == <<e[1], e[2] - f[e[1]]>>
    <3>5. e[2] - f[e[1]] \in 1 .. g[e[1]] BY <3>2, <3>3, <3>4
    <3>6. c \in Cells(g) BY <3>2, <3>5, InCells
    <3>7. f[e[1]] + (e[2] - f[e[1]]) = e[2] BY <3>2, <3>4
    <3>8. shift[c] = <<e[1], f[e[1]] + (e[2] - f[e[1]])>> BY <3>6
    <3>9. shift[c] = e BY <3>2, <3>7, <3>8
    <3> QED BY <3>6, <3>9
  <2>2. shift \in [Cells(g) -> rest] BY <1>4
  <2> HIDE DEF shift, rest
  <2> QED BY <2>1, <2>2 DEF Surjection
<1>7. ExistsBijection(Cells(g), rest)
  <2> HIDE DEF shift, rest
  <2> QED BY <1>5, <1>6 DEF Bijection, ExistsBijection
<1>8. IsFiniteSet(rest) /\ Cardinality(rest) = Cardinality(Cells(g))
  <2> HIDE DEF rest
  <2> QED BY <1>2, <1>7, FS_Bijection
<1>9. Cells(h) = Cells(f) \cup rest /\ Cells(f) \cap rest = {} BY <1>3
<1> HIDE DEF h, rest
<1>10. Cardinality(Cells(f) \cup rest)
         = Cardinality(Cells(f)) + Cardinality(rest) - Cardinality(Cells(f) \cap rest)
  BY <1>2, <1>8, FS_Union
<1>11. Cardinality({}) = 0 BY FS_EmptySet
<1>12. Total(h) = Total(f) + Total(g) BY <1>2, <1>8, <1>9, <1>10, <1>11
<1> QED BY <1>12 DEF h

LEMMA TotalOfNothing == Total([p \in Partitions |-> 0]) = 0
<1> DEFINE f == [p \in Partitions |-> 0]
<1>1. ASSUME NEW c \in Cells(f) PROVE FALSE
  <2>1. c[1] \in Partitions /\ c[2] \in 1 .. f[c[1]] BY CellsArePairs
  <2>2. f[c[1]] = 0 BY <2>1
  <2> QED BY <2>1, <2>2
<1>2. Cells(f) = {} BY <1>1
<1>3. f \in [Partitions -> Nat] OBVIOUS
<1> HIDE DEF f
<1>4. Total(f) = Cardinality(Cells(f)) BY <1>3, CellsFinite
<1> QED BY <1>2, <1>4, FS_EmptySet DEF f
------------------------------------------------------------------------------
(* The live tail: admission.                                                 *)

\* A listing of a set has each of its elements once.
LEMMA ListingFacts ==
  ASSUME NEW S, IsFiniteSet(S), NEW s \in SetToSeqs(S)
  PROVE  /\ s \in Seq(S) /\ Len(s) \in Nat /\ Len(s) = Cardinality(S)
         /\ DOMAIN s = 1 .. Len(s)
         /\ \A i \in 1 .. Len(s) : s[i] \in S
         /\ \A i, j \in 1 .. Len(s) : i # j => s[i] # s[j]
         /\ S = {s[i] : i \in 1 .. Len(s)}
<1> DEFINE n == Cardinality(S)
<1>1. s \in [1..n -> S] /\ \A i, j \in 1..n : i # j => s[i] # s[j] BY DEF SetToSeqs
<1>2. n \in Nat BY FS_CardinalityType
<1>3. IsFiniteSet(1..n) /\ Cardinality(1..n) = n BY <1>2, FS_Interval
<1>4. s \in Injection(1..n, S) BY <1>1 DEF Injection, IsInjective
<1>5. s \in Surjection(1..n, S)
  <2>1. Cardinality(1..n) = Cardinality(S) <=> s \in Surjection(1..n, S) BY <1>4, FS_Injection
  <2> QED BY <2>1, <1>3
<1>6. \A e \in S : \E i \in 1..n : s[i] = e BY <1>5 DEF Surjection
<1>7. s \in Seq(S) /\ Len(s) = n BY <1>1, <1>2
<1>8. S = {s[i] : i \in 1 .. n} BY <1>1, <1>6
<1> HIDE DEF n
<1> QED BY <1>1, <1>2, <1>7, <1>8 DEF n

\* A full batch that turns a record away is the best of what there was with it.
LEMMA RejectKeepsBest ==
  ASSUME NEW S \in SUBSET Keys, NEW b, NEW key \in Keys, key \notin S,
         Best(b, S, BatchLimit, "newest", "newest"), ~Admits(b, key)
  PROVE  Best(b, S \cup {key}, BatchLimit, "newest", "newest")
<1> DEFINE Above(j, k) == Ranks(j, k, "newest", "newest")
           worst == CHOOSE k \in b : \A j \in b \ {k} : Above(j, k)
<1>1. BatchLimit \in Nat \ {0} /\ "newest" \in Orders BY TailAssumption DEF Orders
<1>2. b \in SUBSET Keys /\ IsFiniteSet(b) /\ Cardinality(b) \in Nat /\ Cardinality(b) <= BatchLimit
  BY FS_CardinalityType DEF Best
<1>3. Cardinality(b) >= BatchLimit BY <1>1, <1>2 DEF Admits
<1>4. b # {} BY <1>1, <1>2, <1>3, FS_EmptySet
<1>5. \E k \in b : \A j \in b \ {k} : Above(j, k) BY <1>1, <1>2, <1>4, WorstExists
<1>6. worst \in b /\ \A j \in b \ {worst} : Above(j, worst) BY <1>5
<1>7. ~Above(key, worst)
  <2> HIDE DEF worst
  <2> QED BY <1>6 DEF Admits
<1>8. Push(b, key, BatchLimit, "newest", "newest") = b
  <2> DEFINE w == CHOOSE k \in b : \A j \in b \ {k} : Ranks(j, k, "newest", "newest")
  <2>1. ~Ranks(key, w, "newest", "newest") BY <1>7
  <2>2. ~(Cardinality(b) < BatchLimit) BY <1>1, <1>2, <1>3
  <2> QED BY <2>1, <2>2 DEF Push
<1>9. Best(Push(b, key, BatchLimit, "newest", "newest"), S \cup {key}, BatchLimit,
           "newest", "newest")
  BY <1>1, PushKeepsBest
<1> QED BY <1>8, <1>9

\* And so is a batch after a push, which adds at most one record.
LEMMA PushKeyKeepsBest ==
  ASSUME NEW S \in SUBSET Keys, NEW b, NEW key \in Keys, key \notin S,
         Best(b, S, BatchLimit, "newest", "newest")
  PROVE  /\ Best(PushKey(b, key), S \cup {key}, BatchLimit, "newest", "newest")
         /\ Cardinality(b) \in Nat /\ Cardinality(PushKey(b, key)) \in Nat
         /\ Cardinality(PushKey(b, key)) <= Cardinality(b) + 1
<1>1. BatchLimit \in Nat \ {0} /\ "newest" \in Orders BY TailAssumption DEF Orders
<1>2. Best(PushKey(b, key), S \cup {key}, BatchLimit, "newest", "newest")
  BY <1>1, PushKeepsBest DEF PushKey
<1>3. /\ IsFiniteSet(b) /\ Cardinality(b) \in Nat /\ Cardinality(b) <= BatchLimit
      /\ IsFiniteSet(PushKey(b, key)) /\ Cardinality(PushKey(b, key)) \in Nat
      /\ Cardinality(PushKey(b, key)) <= BatchLimit
  BY <1>2, FS_CardinalityType DEF Best
<1>4. CASE Cardinality(b) < BatchLimit
  <2>1. PushKey(b, key) = b \cup {key}
    <3>1. ~(Cardinality(b) >= BatchLimit) BY <1>1, <1>3, <1>4
    <3> QED BY <3>1, <1>4 DEF PushKey, Push
  <2>2. Cardinality(b \cup {key}) = IF key \in b THEN Cardinality(b) ELSE Cardinality(b) + 1
    BY <1>3, FS_AddElement
  <2> QED BY <1>2, <1>3, <2>1, <2>2
<1>5. CASE ~(Cardinality(b) < BatchLimit) BY <1>1, <1>2, <1>3, <1>5
<1> QED BY <1>4, <1>5

\* A pass that has looked at the records D of a poll.
IsScreening(st, D) ==
  /\ st \in [kept : SUBSET Keys, pushed : Nat, rejected : Nat, dropped : Nat,
             candidates : SUBSET D]
  /\ IsFiniteSet(D)
  /\ Best(st.kept, pool \cup {k \in D \ st.candidates : Hit(k)}, BatchLimit, "newest", "newest")
  /\ st.pushed + st.rejected + st.dropped + Cardinality(st.candidates) = Cardinality(D)
  /\ Cardinality(st.kept) <= Cardinality(sample) + st.pushed
  /\ st.pushed > 0 => \E k \in D : Hit(k)

\* Stages::screen keeps it.
LEMMA ScreenKeeps ==
  ASSUME pool \in SUBSET Keys, NEW D \in SUBSET Keys, NEW st, IsScreening(st, D),
         NEW key \in Keys, key \notin D, key \notin pool, Cardinality(sample) \in Nat
  PROVE  IsScreening(Screen(st, key), D \cup {key})
<1> DEFINE new == Screen(st, key)
           S == pool \cup {k \in D \ st.candidates : Hit(k)}
           E == D \cup {key}
<1>1. /\ st.kept \in SUBSET Keys /\ st.pushed \in Nat /\ st.rejected \in Nat
      /\ st.dropped \in Nat /\ st.candidates \in SUBSET D
      /\ st = [kept |-> st.kept, pushed |-> st.pushed, rejected |-> st.rejected,
               dropped |-> st.dropped, candidates |-> st.candidates]
      /\ IsFiniteSet(D) /\ Best(st.kept, S, BatchLimit, "newest", "newest")
      /\ st.pushed + st.rejected + st.dropped + Cardinality(st.candidates) = Cardinality(D)
      /\ Cardinality(st.kept) <= Cardinality(sample) + st.pushed
      /\ st.pushed > 0 => \E k \in D : Hit(k)
  BY DEF IsScreening
<1>2. /\ IsFiniteSet(E) /\ Cardinality(E) = Cardinality(D) + 1 /\ Cardinality(D) \in Nat
      /\ IsFiniteSet(st.candidates) /\ Cardinality(st.candidates) \in Nat
      /\ IsFiniteSet(st.kept) /\ Cardinality(st.kept) \in Nat
  <2>1. IsFiniteSet(E) /\ Cardinality(E) = Cardinality(D) + 1 BY <1>1, FS_AddElement
  <2>2. Cardinality(D) \in Nat BY <1>1, FS_CardinalityType
  <2>3. IsFiniteSet(st.candidates) BY <1>1, FS_Subset
  <2>4. Cardinality(st.candidates) \in Nat BY <2>3, FS_CardinalityType
  <2>5. IsFiniteSet(st.kept) BY <1>1 DEF Best
  <2>6. Cardinality(st.kept) \in Nat BY <2>5, FS_CardinalityType
  <2> QED BY <2>1, <2>2, <2>3, <2>4, <2>5, <2>6
<1>3. S \in SUBSET Keys /\ key \notin S BY <1>1
<1> DEFINE T == pool \cup {k \in E \ new.candidates : Hit(k)}
<1>4. CASE ~Admits(st.kept, key)
  <2>1. new = [st EXCEPT !.rejected = st.rejected + 1] BY <1>4 DEF Screen
  <2>2. /\ new.kept = st.kept /\ new.pushed = st.pushed /\ new.rejected = st.rejected + 1
        /\ new.dropped = st.dropped /\ new.candidates = st.candidates
        /\ new = [kept |-> new.kept, pushed |-> new.pushed, rejected |-> new.rejected,
                  dropped |-> new.dropped, candidates |-> new.candidates]
    BY <2>1, <1>1
  <2> HIDE DEF new
  <2>3. T = IF Hit(key) THEN S \cup {key} ELSE S BY <2>2, <1>1
  <2> HIDE DEF S
  <2>4. Best(st.kept, S \cup {key}, BatchLimit, "newest", "newest")
    BY <1>1, <1>3, <1>4, RejectKeepsBest
  <2>5. Best(new.kept, T, BatchLimit, "newest", "newest")
    <3> HIDE DEF T
    <3> QED BY <2>2, <2>3, <2>4, <1>1
  <2>6. new.candidates \in SUBSET E BY <2>2, <1>1
  <2>7. /\ new.pushed + new.rejected + new.dropped + Cardinality(new.candidates)
             = Cardinality(E)
        /\ Cardinality(new.kept) <= Cardinality(sample) + new.pushed
    BY <1>1, <1>2, <2>2
  <2>10. new.pushed > 0 => \E k \in E : Hit(k) BY <1>1, <2>2
  <2> QED BY <1>1, <1>2, <2>2, <2>5, <2>6, <2>7, <2>10 DEF IsScreening, new
<1>5. CASE Admits(st.kept, key) /\ ~Kind(key).raw
  <2>1. new = [st EXCEPT !.candidates = st.candidates \cup {key}] BY <1>5 DEF Screen
  <2>2. /\ new.kept = st.kept /\ new.pushed = st.pushed /\ new.rejected = st.rejected
        /\ new.dropped = st.dropped /\ new.candidates = st.candidates \cup {key}
        /\ new = [kept |-> new.kept, pushed |-> new.pushed, rejected |-> new.rejected,
                  dropped |-> new.dropped, candidates |-> new.candidates]
    BY <2>1, <1>1
  <2> HIDE DEF new
  <2>3. T = S BY <2>2, <1>1
  <2>4. Best(new.kept, T, BatchLimit, "newest", "newest")
    <3> HIDE DEF T, S
    <3> QED BY <2>2, <2>3, <1>1
  <2>5. new.candidates \in SUBSET E /\ key \notin st.candidates BY <2>2, <1>1
  <2>6. Cardinality(new.candidates) = Cardinality(st.candidates) + 1
    <3>1. Cardinality(st.candidates \cup {key}) = Cardinality(st.candidates) + 1
      <4> DEFINE C == st.candidates
      <4>1. IsFiniteSet(C) /\ key \notin C BY <1>2, <2>5
      <4> HIDE DEF C
      <4>2. Cardinality(C \cup {key}) = Cardinality(C) + 1 BY <4>1, FS_AddElement
      <4> QED BY <4>2 DEF C
    <3> QED BY <2>2, <3>1
  <2>7. /\ new.pushed + new.rejected + new.dropped + Cardinality(new.candidates)
             = Cardinality(E)
        /\ Cardinality(new.kept) <= Cardinality(sample) + new.pushed
    BY <1>1, <1>2, <2>2, <2>6
  <2>10. new.pushed > 0 => \E k \in E : Hit(k) BY <1>1, <2>2
  <2> QED BY <1>1, <1>2, <2>2, <2>4, <2>5, <2>7, <2>10 DEF IsScreening, new
<1>6. CASE Admits(st.kept, key) /\ Kind(key).raw /\ Hit(key)
  <2> DEFINE mid == [st EXCEPT !.kept = PushKey(st.kept, key)]
  <2>1. new = [st EXCEPT !.kept = PushKey(st.kept, key), !.pushed = st.pushed + 1]
    BY <1>6 DEF Screen
  <2>2. /\ mid.kept = PushKey(st.kept, key) /\ mid.pushed = st.pushed
        /\ mid.rejected = st.rejected /\ mid.dropped = st.dropped
        /\ mid.candidates = st.candidates
        /\ mid = [kept |-> mid.kept, pushed |-> mid.pushed, rejected |-> mid.rejected,
                  dropped |-> mid.dropped, candidates |-> mid.candidates]
    BY <1>1
  <2>3. new = [mid EXCEPT !.pushed = st.pushed + 1] BY <2>1
  <2> HIDE DEF mid, new
  <2>4. /\ new.kept = PushKey(st.kept, key) /\ new.pushed = st.pushed + 1
        /\ new.rejected = st.rejected /\ new.dropped = st.dropped
        /\ new.candidates = st.candidates
        /\ new = [kept |-> new.kept, pushed |-> new.pushed, rejected |-> new.rejected,
                  dropped |-> new.dropped, candidates |-> new.candidates]
    BY <2>2, <2>3
  <2>5. T = S \cup {key} BY <2>4, <1>1, <1>6
  <2> HIDE DEF S
  <2>6. /\ Best(new.kept, S \cup {key}, BatchLimit, "newest", "newest")
        /\ Cardinality(new.kept) \in Nat
        /\ Cardinality(new.kept) <= Cardinality(st.kept) + 1
    <3>1. Best(st.kept, S, BatchLimit, "newest", "newest") BY <1>1
    <3>2. /\ Best(PushKey(st.kept, key), S \cup {key}, BatchLimit, "newest", "newest")
          /\ Cardinality(PushKey(st.kept, key)) \in Nat
          /\ Cardinality(PushKey(st.kept, key)) <= Cardinality(st.kept) + 1
      BY <3>1, <1>3, PushKeyKeepsBest
    <3> QED BY <2>4, <3>2
  <2>7. new.kept \in SUBSET Keys /\ new.candidates \in SUBSET E
    BY <2>4, <2>6, <1>1, <1>3 DEF Best
  <2>8. /\ new.pushed + new.rejected + new.dropped + Cardinality(new.candidates)
             = Cardinality(E)
        /\ Cardinality(new.kept) <= Cardinality(sample) + new.pushed
    BY <1>1, <1>2, <2>4, <2>6
  <2>9. Best(new.kept, T, BatchLimit, "newest", "newest") BY <2>5, <2>6
  <2>10. \E k \in E : Hit(k) BY <1>6
  <2> QED BY <1>1, <1>2, <2>4, <2>7, <2>8, <2>9, <2>10 DEF IsScreening, new
<1>7. CASE Admits(st.kept, key) /\ Kind(key).raw /\ ~Hit(key)
  <2>1. new = [st EXCEPT !.dropped = st.dropped + 1] BY <1>7 DEF Screen
  <2>2. /\ new.kept = st.kept /\ new.pushed = st.pushed /\ new.rejected = st.rejected
        /\ new.dropped = st.dropped + 1 /\ new.candidates = st.candidates
        /\ new = [kept |-> new.kept, pushed |-> new.pushed, rejected |-> new.rejected,
                  dropped |-> new.dropped, candidates |-> new.candidates]
    BY <2>1, <1>1
  <2> HIDE DEF new
  <2>3. T = S BY <2>2, <1>1, <1>7
  <2>4. Best(new.kept, T, BatchLimit, "newest", "newest")
    <3> HIDE DEF T, S
    <3> QED BY <2>2, <2>3, <1>1
  <2>5. new.candidates \in SUBSET E BY <2>2, <1>1
  <2>6. /\ new.pushed + new.rejected + new.dropped + Cardinality(new.candidates)
             = Cardinality(E)
        /\ Cardinality(new.kept) <= Cardinality(sample) + new.pushed
    BY <1>1, <1>2, <2>2
  <2>10. new.pushed > 0 => \E k \in E : Hit(k) BY <1>1, <2>2
  <2> QED BY <1>1, <1>2, <2>2, <2>4, <2>5, <2>6, <2>10 DEF IsScreening, new
<1> QED BY <1>4, <1>5, <1>6, <1>7

\* Screened is the recursion that it is written as.
LEMMA ScreenedDef ==
  ASSUME NEW keys, Len(keys) \in Nat
  PROVE  Screened(keys) =
           [i \in 0..Len(keys) |->
              IF i = 0
              THEN [kept |-> sample, pushed |-> 0, rejected |-> 0, dropped |-> 0,
                    candidates |-> {}]
              ELSE Screen(Screened(keys)[i - 1], keys[i])]
<1> DEFINE base == [kept |-> sample, pushed |-> 0, rejected |-> 0, dropped |-> 0,
                    candidates |-> {}]
           Def(n, f) == f = [i \in 0..n |-> IF i = 0 THEN base ELSE Screen(f[i - 1], keys[i])]
           good == {n \in 0..Len(keys) : \E f : Def(n, f)}
<1>0. Screened(keys) = CHOOSE h : Def(Len(keys), h) BY DEF Screened
<1> HIDE DEF base
<1>1. 0 \in good
  <2>1. Def(0, [i \in 0..0 |-> base]) OBVIOUS
  <2> HIDE DEF Def
  <2>2. \E f : Def(0, f) BY <2>1
  <2> QED BY <2>2
<1>2. ASSUME NEW n \in 1..Len(keys), n - 1 \in good PROVE n \in good
  <2>1. PICK f : Def(n - 1, f) BY <1>2
  <2> DEFINE next == Screen(f[n - 1], keys[n])
             g == [i \in 0..n |-> IF i = n THEN next ELSE f[i]]
  <2>2. n \in Nat /\ n # 0 /\ n - 1 \in 0..n /\ n - 1 # n BY <1>2
  <2>3. ASSUME NEW i \in 0..n
        PROVE  g[i] = IF i = 0 THEN base ELSE Screen(g[i - 1], keys[i])
    <3>1. CASE i = n BY <3>1, <2>2
    <3>2. CASE i = 0 BY <3>2, <2>1, <2>2
    <3>3. CASE i # n /\ i # 0
      <4>1. i \in 0..(n - 1) /\ i - 1 \in 0..n /\ i - 1 # n BY <3>3, <2>2
      <4>2. g[i] = f[i] /\ g[i - 1] = f[i - 1] BY <4>1, <3>3
      <4>3. f[i] = Screen(f[i - 1], keys[i]) BY <2>1, <4>1, <3>3
      <4> QED BY <4>2, <4>3, <3>3
    <3> QED BY <3>1, <3>2, <3>3
  <2>4. Def(n, g) BY <2>3
  <2> HIDE DEF Def
  <2>5. \E h : Def(n, h) BY <2>4
  <2> QED BY <2>5
<1>3. 0..Len(keys) \subseteq good
  <2> HIDE DEF good
  <2> QED BY <1>1, <1>2, UpTo
<1>4. PICK f : Def(Len(keys), f) BY <1>3
<1> HIDE DEF Def
<1>5. Def(Len(keys), CHOOSE h : Def(Len(keys), h)) BY <1>4
<1>6. Def(Len(keys), Screened(keys)) BY <1>0, <1>5
<1> QED BY <1>6 DEF Def, base

\* And so is Decided.
LEMMA DecidedDef ==
  ASSUME NEW keys, Len(keys) \in Nat, NEW base, NEW matched
  PROVE  Decided(keys, base, matched) =
           [i \in 0..Len(keys) |->
              IF i = 0 THEN base
              ELSE Decide(Decided(keys, base, matched)[i - 1], keys[i], matched)]
<1> DEFINE Def(n, f) ==
              f = [i \in 0..n |-> IF i = 0 THEN base ELSE Decide(f[i - 1], keys[i], matched)]
           good == {n \in 0..Len(keys) : \E f : Def(n, f)}
<1>0. Decided(keys, base, matched) = CHOOSE h : Def(Len(keys), h) BY DEF Decided
<1>1. 0 \in good
  <2>1. Def(0, [i \in 0..0 |-> base]) OBVIOUS
  <2> HIDE DEF Def
  <2>2. \E f : Def(0, f) BY <2>1
  <2> QED BY <2>2
<1>2. ASSUME NEW n \in 1..Len(keys), n - 1 \in good PROVE n \in good
  <2>1. PICK f : Def(n - 1, f) BY <1>2
  <2> DEFINE next == Decide(f[n - 1], keys[n], matched)
             g == [i \in 0..n |-> IF i = n THEN next ELSE f[i]]
  <2>2. n \in Nat /\ n # 0 /\ n - 1 \in 0..n /\ n - 1 # n BY <1>2
  <2>3. ASSUME NEW i \in 0..n
        PROVE  g[i] = IF i = 0 THEN base ELSE Decide(g[i - 1], keys[i], matched)
    <3>1. CASE i = n BY <3>1, <2>2
    <3>2. CASE i = 0 BY <3>2, <2>1, <2>2
    <3>3. CASE i # n /\ i # 0
      <4>1. i \in 0..(n - 1) /\ i - 1 \in 0..n /\ i - 1 # n BY <3>3, <2>2
      <4>2. g[i] = f[i] /\ g[i - 1] = f[i - 1] BY <4>1, <3>3
      <4>3. f[i] = Decide(f[i - 1], keys[i], matched) BY <2>1, <4>1, <3>3
      <4> QED BY <4>2, <4>3, <3>3
    <3> QED BY <3>1, <3>2, <3>3
  <2>4. Def(n, g) BY <2>3
  <2> HIDE DEF Def
  <2>5. \E h : Def(n, h) BY <2>4
  <2> QED BY <2>5
<1>3. 0..Len(keys) \subseteq good
  <2> HIDE DEF good
  <2> QED BY <1>1, <1>2, UpTo
<1>4. PICK f : Def(Len(keys), f) BY <1>3
<1> HIDE DEF Def
<1>5. Def(Len(keys), CHOOSE h : Def(Len(keys), h)) BY <1>4
<1>6. Def(Len(keys), Decided(keys, base, matched)) BY <1>0, <1>5
<1> QED BY <1>6 DEF Def

\* The first i records of a list.
Firsts(keys, i) == {keys[j] : j \in 1..i}

LEMMA FirstsFacts ==
  ASSUME NEW keys, NEW n \in Nat, \A i, j \in 1..n : i # j => keys[i] # keys[j]
  PROVE  /\ Firsts(keys, 0) = {}
         /\ \A i \in 1..n : /\ Firsts(keys, i) = Firsts(keys, i - 1) \cup {keys[i]}
                            /\ keys[i] \notin Firsts(keys, i - 1)
<1>1. Firsts(keys, 0) = {} BY DEF Firsts
<1>2. ASSUME NEW i \in 1..n
      PROVE  /\ Firsts(keys, i) = Firsts(keys, i - 1) \cup {keys[i]}
             /\ keys[i] \notin Firsts(keys, i - 1)
  <2>1. 1..i = (1..(i - 1)) \cup {i} BY <1>2
  <2>2. \A j \in 1..(i - 1) : j \in 1..n /\ j # i BY <1>2
  <2> QED BY <1>2, <2>1, <2>2 DEF Firsts
<1> QED BY <1>1, <1>2

\* Admission keeps the batch the best of the matching records, and counts each
\* record of the poll once.
LEMMA AdmitFacts ==
  ASSUME pool \in SUBSET Keys, Best(sample, pool, BatchLimit, "newest", "newest"),
         NEW K \in SUBSET Keys, IsFiniteSet(K), K \cap pool = {},
         NEW keys \in SetToSeqs(K)
  PROVE  /\ Best(Admit(keys).kept, pool \cup {k \in K : Hit(k)}, BatchLimit, "newest", "newest")
         /\ Admit(keys).pushed \in Nat /\ Admit(keys).rejected \in Nat
         /\ Admit(keys).dropped \in Nat
         /\ Admit(keys).pushed + Admit(keys).rejected + Admit(keys).dropped = Cardinality(K)
         /\ Cardinality(Admit(keys).kept) <= Cardinality(sample) + Admit(keys).pushed
         /\ Admit(keys).pushed > 0 => \E k \in K : Hit(k)
<1> DEFINE n == Len(keys)
           scr == Screened(keys)
<1>1. /\ n \in Nat /\ n = Cardinality(K)
      /\ \A i \in 1..n : keys[i] \in K
      /\ \A i, j \in 1..n : i # j => keys[i] # keys[j]
      /\ K = {keys[i] : i \in 1..n}
  BY ListingFacts
<1>2. sample \in SUBSET Keys /\ IsFiniteSet(sample) /\ Cardinality(sample) \in Nat
  BY FS_CardinalityType DEF Best
<1>3. /\ Firsts(keys, 0) = {} /\ Firsts(keys, n) = K
      /\ \A i \in 1..n : /\ Firsts(keys, i) = Firsts(keys, i - 1) \cup {keys[i]}
                         /\ keys[i] \notin Firsts(keys, i - 1)
  <2> HIDE DEF n
  <2>1. Firsts(keys, n) = K BY <1>1 DEF Firsts
  <2> QED BY <1>1, <2>1, FirstsFacts
<1>4. ASSUME NEW i \in 0..n PROVE Firsts(keys, i) \in SUBSET Keys
  <2> HIDE DEF n
  <2>1. \A j \in 1..i : j \in 1..n BY <1>1, <1>4
  <2> QED BY <2>1, <1>1 DEF Firsts
<1>5. /\ scr[0] = [kept |-> sample, pushed |-> 0, rejected |-> 0, dropped |-> 0, candidates |-> {}]
      /\ \A i \in 1..n : scr[i] = Screen(scr[i - 1], keys[i])
  <2>1. 0 \in 0..n /\ \A i \in 1..n : i \in 0..n /\ i # 0
    <3> HIDE DEF n
    <3> QED BY <1>1
  <2>2. scr = [i \in 0..n |->
                 IF i = 0 THEN [kept |-> sample, pushed |-> 0, rejected |-> 0, dropped |-> 0,
                                candidates |-> {}]
                 ELSE Screen(scr[i - 1], keys[i])]
    BY <1>1, ScreenedDef
  <2> HIDE DEF scr, n
  <2> QED BY <2>1, <2>2
<1> HIDE DEF n, scr
<1> DEFINE good == {i \in 0..n : IsScreening(scr[i], Firsts(keys, i))}
<1>6. 0 \in good
  <2>1. IsFiniteSet({}) /\ Cardinality({}) = 0 BY FS_EmptySet
  <2>2. pool \cup {k \in {} \ {} : Hit(k)} = pool OBVIOUS
  <2>3. IsScreening([kept |-> sample, pushed |-> 0, rejected |-> 0, dropped |-> 0,
                     candidates |-> {}], {})
    BY <1>2, <2>1, <2>2 DEF IsScreening
  <2>4. IsScreening(scr[0], Firsts(keys, 0)) BY <2>3, <1>3, <1>5
  <2>5. 0 \in 0..n BY <1>1
  <2> QED BY <2>4, <2>5
<1>7. ASSUME NEW i \in 1..n, i - 1 \in good PROVE i \in good
  <2>1. i - 1 \in 0..n /\ i \in 0..n BY <1>1, <1>7
  <2>2. Firsts(keys, i - 1) \in SUBSET Keys BY <2>1, <1>4
  <2>3. /\ keys[i] \in Keys /\ keys[i] \notin pool /\ keys[i] \notin Firsts(keys, i - 1)
    BY <1>1, <1>3, <1>7
  <2>4. IsScreening(scr[i - 1], Firsts(keys, i - 1)) BY <1>7
  <2>5. IsScreening(Screen(scr[i - 1], keys[i]), Firsts(keys, i - 1) \cup {keys[i]})
    BY <2>2, <2>3, <2>4, <1>2, ScreenKeeps
  <2> QED BY <2>1, <2>5, <1>3, <1>5
<1>8. IsScreening(scr[n], K)
  <2> HIDE DEF good
  <2>1. 0..n \subseteq good BY <1>1, <1>6, <1>7, UpTo
  <2>2. n \in good BY <2>1, <1>1
  <2> QED BY <2>2, <1>3 DEF good
<1> DEFINE st == scr[n]
           C == st.candidates
           matched == {key \in C : Hit(key)}
           dec == Decided(keys, st.kept, matched)
           S(i) == pool \cup {k \in K \ C : Hit(k)} \cup (matched \cap Firsts(keys, i))
<1>9. /\ Admit(keys).kept = dec[n]
      /\ Admit(keys).pushed = st.pushed + Cardinality(matched)
      /\ Admit(keys).rejected = st.rejected
      /\ Admit(keys).dropped = st.dropped + Cardinality(C \ matched)
  BY DEF Admit, n, scr
<1>10. /\ st.pushed \in Nat /\ st.rejected \in Nat /\ st.dropped \in Nat
       /\ C \in SUBSET K
       /\ Best(st.kept, pool \cup {k \in K \ C : Hit(k)}, BatchLimit, "newest", "newest")
       /\ st.pushed + st.rejected + st.dropped + Cardinality(C) = Cardinality(K)
       /\ Cardinality(st.kept) <= Cardinality(sample) + st.pushed
       /\ st.pushed > 0 => \E k \in K : Hit(k)
  BY <1>8 DEF IsScreening
<1>11. /\ dec[0] = st.kept
       /\ \A i \in 1..n : dec[i] = Decide(dec[i - 1], keys[i], matched)
  <2>1. 0 \in 0..n /\ \A i \in 1..n : i \in 0..n /\ i # 0 BY <1>1
  <2> HIDE DEF st, matched
  <2>2. Len(keys) = n /\ Len(keys) \in Nat BY <1>1 DEF n
  <2>3. dec = [i \in 0..Len(keys) |->
                 IF i = 0 THEN st.kept ELSE Decide(dec[i - 1], keys[i], matched)]
    BY <2>2, DecidedDef
  <2> HIDE DEF dec
  <2>4. dec[0] = st.kept BY <2>1, <2>2, <2>3
  <2>5. ASSUME NEW i \in 1..n PROVE dec[i] = Decide(dec[i - 1], keys[i], matched)
    BY <2>1, <2>2, <2>3
  <2> QED BY <2>4, <2>5
<1> HIDE DEF st, dec
<1> DEFINE fine == {i \in 0..n :
                /\ Best(dec[i], S(i), BatchLimit, "newest", "newest")
                /\ IsFiniteSet(matched \cap Firsts(keys, i))
                /\ Cardinality(dec[i]) <= Cardinality(st.kept)
                                             + Cardinality(matched \cap Firsts(keys, i))}
<1>12. IsFiniteSet(C) /\ matched \subseteq C /\ IsFiniteSet(matched) /\ Cardinality(C) \in Nat
  <2>1. IsFiniteSet(C) BY <1>10, FS_Subset
  <2>2. IsFiniteSet(matched) BY <2>1, FS_Subset
  <2> QED BY <2>1, <2>2, FS_CardinalityType
<1>13. Cardinality(st.kept) \in Nat BY <1>10, FS_CardinalityType DEF Best
<1>14. 0 \in fine
  <2>1. S(0) = pool \cup {k \in K \ C : Hit(k)} BY <1>3
  <2>2. matched \cap Firsts(keys, 0) = {} BY <1>3
  <2>3. IsFiniteSet({}) /\ Cardinality({}) = 0 BY FS_EmptySet
  <2>4. Best(dec[0], S(0), BatchLimit, "newest", "newest") BY <1>10, <1>11, <2>1
  <2> HIDE DEF S, matched, C
  <2>5. /\ IsFiniteSet(matched \cap Firsts(keys, 0))
        /\ Cardinality(dec[0]) <= Cardinality(st.kept) + Cardinality(matched \cap Firsts(keys, 0))
    BY <1>11, <1>13, <2>2, <2>3
  <2>6. 0 \in 0..n BY <1>1
  <2> QED BY <2>4, <2>5, <2>6
<1>15. ASSUME NEW i \in 1..n, i - 1 \in fine PROVE i \in fine
  <2>1. /\ Best(dec[i - 1], S(i - 1), BatchLimit, "newest", "newest")
        /\ IsFiniteSet(matched \cap Firsts(keys, i - 1))
        /\ Cardinality(dec[i - 1]) <= Cardinality(st.kept)
                                        + Cardinality(matched \cap Firsts(keys, i - 1))
    BY <1>15
  <2>2. i \in 0..n /\ i - 1 \in 0..n BY <1>1
  <2>3. keys[i] \in K /\ keys[i] \in Keys /\ keys[i] \notin pool BY <1>1
  <2>4. /\ Firsts(keys, i) = Firsts(keys, i - 1) \cup {keys[i]}
        /\ keys[i] \notin Firsts(keys, i - 1)
    BY <1>3
  <2>5. CASE keys[i] \notin matched
    <3>1. matched \cap Firsts(keys, i) = matched \cap Firsts(keys, i - 1) BY <2>4, <2>5
    <3>2. S(i) = S(i - 1) BY <3>1
    <3>3. dec[i] = dec[i - 1] BY <1>11, <2>5 DEF Decide
    <3> HIDE DEF S, matched
    <3> QED BY <2>1, <2>2, <3>1, <3>2, <3>3
  <2>6. CASE keys[i] \in matched
    <3>1. /\ matched \cap Firsts(keys, i) = (matched \cap Firsts(keys, i - 1)) \cup {keys[i]}
          /\ keys[i] \notin matched \cap Firsts(keys, i - 1)
      BY <2>4, <2>6
    <3>2. S(i) = S(i - 1) \cup {keys[i]} BY <3>1
    <3>3. keys[i] \notin S(i - 1) /\ S(i - 1) \in SUBSET Keys
      BY <2>3, <2>4, <2>6, <1>10
    <3>4. dec[i] = PushKey(dec[i - 1], keys[i]) BY <1>11, <2>6 DEF Decide
    <3> HIDE DEF S
    <3>5. /\ Best(PushKey(dec[i - 1], keys[i]), S(i - 1) \cup {keys[i]}, BatchLimit,
                  "newest", "newest")
          /\ Cardinality(dec[i - 1]) \in Nat /\ Cardinality(PushKey(dec[i - 1], keys[i])) \in Nat
          /\ Cardinality(PushKey(dec[i - 1], keys[i])) <= Cardinality(dec[i - 1]) + 1
      BY <2>1, <2>3, <3>3, PushKeyKeepsBest
    <3> DEFINE M == matched \cap Firsts(keys, i - 1)
    <3>6. /\ IsFiniteSet(M \cup {keys[i]}) /\ Cardinality(M \cup {keys[i]}) = Cardinality(M) + 1
          /\ Cardinality(M) \in Nat
      <4>1. IsFiniteSet(M) /\ keys[i] \notin M BY <2>1, <3>1
      <4> HIDE DEF M
      <4> QED BY <4>1, FS_AddElement, FS_CardinalityType
    <3> HIDE DEF matched
    <3>7. Best(dec[i], S(i), BatchLimit, "newest", "newest") BY <3>2, <3>4, <3>5
    <3>8. /\ IsFiniteSet(matched \cap Firsts(keys, i))
          /\ Cardinality(matched \cap Firsts(keys, i)) = Cardinality(M) + 1
      <4> HIDE DEF M
      <4>1. matched \cap Firsts(keys, i) = M \cup {keys[i]} BY <3>1 DEF M
      <4> QED BY <4>1, <3>6
    <3>9. Cardinality(dec[i]) <= Cardinality(dec[i - 1]) + 1 BY <3>4, <3>5
    <3>10. Cardinality(dec[i]) \in Nat BY <3>4, <3>5
    <3>11. Cardinality(dec[i]) <= Cardinality(st.kept) + Cardinality(matched \cap Firsts(keys, i))
      BY <2>1, <3>5, <3>6, <3>8, <3>9, <3>10, <1>13
    <3> QED BY <2>2, <3>7, <3>8, <3>11
  <2> QED BY <2>5, <2>6
<1>16. n \in fine
  <2> HIDE DEF fine
  <2>1. 0..n \subseteq fine BY <1>1, <1>14, <1>15, UpTo
  <2> QED BY <2>1, <1>1
<1>17. matched \cap Firsts(keys, n) = matched BY <1>3, <1>10
<1>18. S(n) = pool \cup {k \in K : Hit(k)} BY <1>17, <1>10
<1>19. /\ Cardinality(matched) \in Nat /\ Cardinality(C \ matched) \in Nat
       /\ Cardinality(C) = Cardinality(matched) + Cardinality(C \ matched)
  <2> HIDE DEF matched, C
  <2>1. IsFiniteSet(C \ matched) BY <1>12, FS_Subset
  <2>2. Cardinality(C \ matched) \in Nat /\ Cardinality(matched) \in Nat
    BY <1>12, <2>1, FS_CardinalityType
  <2>3. C = matched \cup (C \ matched) /\ matched \cap (C \ matched) = {} BY <1>12
  <2>4. Cardinality(matched \cup (C \ matched))
          = Cardinality(matched) + Cardinality(C \ matched)
              - Cardinality(matched \cap (C \ matched))
    BY <1>12, <2>1, FS_Union
  <2>5. Cardinality({}) = 0 BY FS_EmptySet
  <2>6. Cardinality(C) = Cardinality(matched \cup (C \ matched)) BY <2>3
  <2>7. Cardinality(matched \cap (C \ matched)) = 0 BY <2>3, <2>5
  <2> QED BY <2>2, <2>4, <2>6, <2>7
<1>20. /\ Best(Admit(keys).kept, pool \cup {k \in K : Hit(k)}, BatchLimit, "newest", "newest")
       /\ Cardinality(dec[n]) <= Cardinality(st.kept) + Cardinality(matched)
       /\ Cardinality(dec[n]) \in Nat
  <2> HIDE DEF matched, C
  <2>1. Best(dec[n], S(n), BatchLimit, "newest", "newest") BY <1>16
  <2>2. Cardinality(dec[n]) \in Nat
    <3>1. IsFiniteSet(dec[n]) BY <2>1 DEF Best
    <3> QED BY <3>1, FS_CardinalityType
  <2> QED BY <1>9, <1>16, <1>17, <1>18, <2>1, <2>2
<1>21. Admit(keys).pushed > 0 => \E k \in K : Hit(k)
  <2>1. CASE matched = {}
    <3>1. Cardinality(matched) = 0 BY <2>1, FS_EmptySet
    <3> HIDE DEF matched, C
    <3> QED BY <1>9, <1>10, <3>1
  <2>2. CASE matched # {} BY <2>2, <1>10
  <2> QED BY <2>1, <2>2
<1> HIDE DEF matched, C
<1> QED BY <1>2, <1>9, <1>10, <1>12, <1>13, <1>19, <1>20, <1>21
------------------------------------------------------------------------------
(* The live tail: its invariant.                                             *)

\* The reader is between where it started and the end of each partition.
Reading ==
  /\ topic \in [Partitions -> Seq([ts : Times, kind : Kinds])]
  /\ start \in [Partitions -> Nat] /\ pos \in [Partitions -> Nat]
  /\ \A p \in Partitions : start[p] <= pos[p] /\ pos[p] <= End(p)
  /\ stream \in {"none", "open", "next", "poll", "skip", "flush", "ended"}
  /\ client \in {"connecting", "live", "paused", "error"}
  /\ quiet \in 0 .. Heartbeat

\* The batch is the best of the matching records, all of them behind the reader.
Sampled ==
  /\ pool \in SUBSET Keys /\ IsFiniteSet(pool)
  /\ \A k \in pool : k.p \in Partitions /\ k.o <= pos[k.p]
  /\ Best(sample, pool, BatchLimit, "newest", "newest")

\* What the page and the wire have is behind the reader, and a batch that is being
\* gathered is ahead of it.
Shown ==
  /\ list \in Seq(Keys) /\ Len(list) <= ListMax
  /\ \A r \in Range(list) :
        /\ r.p \in Partitions /\ r.o <= End(r.p)
        /\ Following => r.o <= pos[r.p]
        /\ stream \in {"poll", "skip", "flush"} => \A k \in pool : k.p = r.p => k.o > r.o

IsFrame(f) ==
  /\ f = Frame(f.records, f.skipped) /\ f.records \in Seq(Keys) /\ f.skipped \in Nat
  /\ \A r \in Range(f.records) :
        /\ r.p \in Partitions /\ r.o <= pos[r.p]
        /\ \A shown \in Range(list) : r.p = shown.p => r.o > shown.o

Wired ==
  \/ wire = <<>>
  \/ wire = <<Ready>> /\ stream = "next"
  \/ wire = <<Error>> /\ stream = "ended"
  \/ stream = "next" /\ \E f : IsFrame(f) /\ wire = <<f>>

\* The counts add up, and between two calls of next() nothing is pending.
Counted ==
  /\ seen \in Nat /\ skipped \in Nat /\ unmatched \in Nat /\ told \in Nat
  /\ Cardinality(sample) <= seen
  /\ pool = {} => seen = 0
  /\ stream = "next" => seen = 0 /\ skipped = 0
  /\ stream = "poll" => sample = {}
  /\ EveryRecordCounted

Permits ==
  /\ free \in Nat /\ others \in Nat
  /\ free + others + (IF stream = "none" THEN 0 ELSE 1) = MaxLive

TailInv == Reading /\ Sampled /\ Shown /\ Wired /\ Counted /\ Permits

\* A batch can be listed oldest first.
LEMMA SortedExists ==
  ASSUME NEW S \in SUBSET Keys, IsFiniteSet(S)
  PROVE  \E s \in SetToSeqs(S) : \A i, j \in DOMAIN s : i < j => Precedes(s[i], s[j], "oldest")
<1> DEFINE Older(a, b) == Ranks(a, b, "oldest", "oldest")
           Rises(s) == \A i, j \in DOMAIN s : i < j => Older(s[i], s[j])
           Listed(T) == \E s \in SetToSeqs(T) : Rises(s)
           bad == {T \in FiniteSubsetsOf(S) : ~Listed(T)}
           smaller == StrictSubsetOrdering(S)
<1>0. \A a, b : Older(a, b) <=> Precedes(a, b, "oldest") BY DEF Ranks
<1>1. SUFFICES ASSUME bad # {} PROVE FALSE
  <2>1. S \in FiniteSubsetsOf(S) BY DEF FiniteSubsetsOf
  <2>2. CASE bad = {}
    <3>1. Listed(S) BY <2>1, <2>2
    <3> HIDE DEF Older
    <3> QED BY <3>1, <1>0
  <2> QED BY <2>2, <1>1
<1> HIDE DEF Older
<1>2. IsWellFoundedOn(smaller, FiniteSubsetsOf(S))
  BY FS_StrictSubsetOrderingWellFounded
<1>3. PICK T \in bad : \A U \in bad : <<U, T>> \notin smaller
  <2>1. bad \subseteq FiniteSubsetsOf(S) OBVIOUS
  <2> HIDE DEF bad, smaller
  <2> QED BY <1>1, <1>2, <2>1, WFMin
<1>4. T \in SUBSET S /\ IsFiniteSet(T) /\ ~Listed(T) BY <1>3 DEF FiniteSubsetsOf
<1>5. T # {}
  <2>1. SUFFICES ASSUME T = {} PROVE Listed({}) BY <1>4
  <2>2. Cardinality({}) = 0 BY FS_EmptySet
  <2> DEFINE none == [i \in 1..0 |-> i]
  <2>3. none \in [1..Cardinality({}) -> {}] BY <2>2
  <2>4. none \in SetToSeqs({}) BY <2>2, <2>3 DEF SetToSeqs
  <2>5. Rises(none) OBVIOUS
  <2> QED BY <2>4, <2>5
<1>6. PICK m \in T : \A j \in T \ {m} : Older(j, m)
  BY <1>4, <1>5, WorstExists, "oldest" \in Orders, T \in SUBSET Keys DEF Orders, Older
<1> DEFINE U == T \ {m}
           n == Cardinality(U)
<1>7. IsFiniteSet(U) BY <1>4, FS_RemoveElement
<1>8. n \in Nat BY <1>7, FS_CardinalityType
<1>9. Cardinality(T) = n + 1
  <2>1. Cardinality(T \ {m}) = Cardinality(T) - 1 BY <1>4, <1>6, FS_RemoveElement
  <2>2. Cardinality(T) \in Nat BY <1>4, FS_CardinalityType
  <2> QED BY <2>1, <2>2
<1>10. Listed(U)
  <2>1. U \in FiniteSubsetsOf(S) BY <1>4, <1>7 DEF FiniteSubsetsOf
  <2>2. <<U, T>> \in smaller BY <1>4, <1>6 DEF StrictSubsetOrdering
  <2> HIDE DEF Listed, U, smaller
  <2> QED BY <2>1, <2>2, <1>3
<1> HIDE DEF n
<1>11. PICK f \in SetToSeqs(U) : Rises(f) BY <1>10
<1>12. /\ f \in [1..n -> U] /\ \A i, j \in 1..n : i # j => f[i] # f[j]
  BY <1>11 DEF SetToSeqs, n
<1> DEFINE g == [i \in 1..(n + 1) |-> IF i = n + 1 THEN m ELSE f[i]]
<1>13. \A i \in 1..n : i \in 1..(n + 1) /\ g[i] = f[i] /\ f[i] \in U BY <1>8, <1>12
<1>14. n + 1 \in 1..(n + 1) /\ g[n + 1] = m BY <1>8
<1>15. \A i \in 1..(n + 1) : i = n + 1 \/ i \in 1..n BY <1>8
<1>16. \A u \in U : u \in T /\ u # m /\ Older(u, m) BY <1>6
<1>17. DOMAIN g = 1..(n + 1) /\ g \in [1..(n + 1) -> T]
  <2>1. \A i \in 1..(n + 1) : g[i] \in T BY <1>6, <1>13, <1>14, <1>15, <1>16
  <2> QED BY <2>1
<1>18. Rises(g)
  <2>1. SUFFICES ASSUME NEW i \in 1..(n + 1), NEW j \in 1..(n + 1), i < j
                 PROVE  Older(g[i], g[j])
    BY <1>17
  <2>2. i \in 1..n BY <2>1, <1>15, <1>8
  <2>3. CASE j = n + 1 BY <2>2, <2>3, <1>13, <1>14, <1>16
  <2>4. CASE j \in 1..n
    <3>1. DOMAIN f = 1..n BY <1>12
    <3>2. Older(f[i], f[j]) BY <1>11, <3>1, <2>1, <2>2, <2>4
    <3> QED BY <3>2, <1>13, <2>2, <2>4
  <2> QED BY <2>3, <2>4, <1>15
<1>19. \A i, j \in 1..(n + 1) : i # j => g[i] # g[j]
  <2>1. ASSUME NEW i \in 1..(n + 1), NEW j \in 1..(n + 1), i # j PROVE g[i] # g[j]
    <3> HIDE DEF g, U
    <3>1. CASE i \in 1..n /\ j \in 1..n BY <3>1, <2>1, <1>12, <1>13
    <3>2. CASE i = n + 1 /\ j \in 1..n BY <3>2, <1>13, <1>14, <1>16
    <3>3. CASE j = n + 1 /\ i \in 1..n BY <3>3, <1>13, <1>14, <1>16
    <3> QED BY <3>1, <3>2, <3>3, <2>1, <1>15
  <2> QED BY <2>1
<1>20. g \in SetToSeqs(T) BY <1>9, <1>17, <1>19 DEF SetToSeqs
<1>21. Listed(T)
  <2> HIDE DEF g, Rises
  <2> QED BY <1>18, <1>20
<1> QED BY <1>4, <1>21

\* Sequences over a set.
LEMMA ElementOf ==
  ASSUME NEW S, NEW s \in Seq(S), NEW i \in 1 .. Len(s)
  PROVE  s[i] \in S
OBVIOUS

LEMMA SeqOver ==
  ASSUME NEW S, NEW n \in Nat, NEW s \in [1 .. n -> S]
  PROVE  s \in Seq(S) /\ Len(s) = n /\ Range(s) = {s[i] : i \in 1 .. n}
BY DEF Range

\* The frame has the records of the batch.
LEMMA FrameFacts ==
  ASSUME Sampled
  PROVE  /\ BatchFrame = Frame(BatchFrame.records, BatchFrame.skipped)
         /\ BatchFrame.records \in Seq(Keys)
         /\ Len(BatchFrame.records) = Cardinality(sample) /\ Cardinality(sample) \in Nat
         /\ Range(BatchFrame.records) = sample
         /\ BatchFrame.skipped = skipped + (seen - Cardinality(sample))
         /\ BatchFrame.kind = "records"
<1>1. sample \in SUBSET Keys /\ IsFiniteSet(sample) BY DEF Sampled, Best
<1> DEFINE Sorted(page) ==
              \A i, j \in DOMAIN page : i < j => Precedes(page[i], page[j], "oldest")
           s == CHOOSE page \in SetToSeqs(sample) : Sorted(page)
<1>2. s \in SetToSeqs(sample) BY <1>1, SortedExists
<1>3. BatchFrame = Frame(s, skipped + (seen - Cardinality(sample))) BY DEF BatchFrame
<1> HIDE DEF s
<1>4. BatchFrame.records = s /\ BatchFrame.skipped = skipped + (seen - Cardinality(sample))
      /\ BatchFrame.kind = "records"
  BY <1>3 DEF Frame
<1>5. /\ s \in Seq(sample) /\ Len(s) = Cardinality(sample) /\ DOMAIN s = 1 .. Len(s)
      /\ sample = {s[i] : i \in 1 .. Len(s)} /\ Len(s) \in Nat
  BY <1>1, <1>2, ListingFacts
<1>6. Range(s) = sample BY <1>5 DEF Range
<1>7. s \in Seq(Keys)
  <2>1. s \in [1 .. Cardinality(sample) -> sample] BY <1>2 DEF SetToSeqs
  <2>2. s \in [1 .. Cardinality(sample) -> Keys] BY <1>1, <2>1
  <2> QED BY <2>2, <1>5, SeqOver
<1> QED BY <1>3, <1>4, <1>5, <1>6, <1>7

------------------------------------------------------------------------------
(* The live tail: every step keeps the invariant.                            *)

\* A poll reads records ahead of the reader, as many as it moves.
LEMMA PolledFacts ==
  ASSUME TailInv, NEW n \in [Partitions -> Nat],
         \A p \in Partitions : pos[p] + n[p] <= End(p)
  PROVE  /\ Polled(n) \in SUBSET Keys /\ IsFiniteSet(Polled(n)) /\ Polled(n) \cap pool = {}
         /\ \A k \in Polled(n) : k.p \in Partitions /\ pos[k.p] < k.o /\ k.o <= pos[k.p] + n[k.p]
         /\ Cardinality(Polled(n)) = Total(n)
<1> DEFINE K == Polled(n)
           at == [c \in Cells(n) |-> Key(c[1], pos[c[1]] + c[2])]
<1>1. /\ topic \in [Partitions -> Seq([ts : Times, kind : Kinds])]
      /\ pos \in [Partitions -> Nat]
      /\ pool \in SUBSET Keys /\ \A k \in pool : k.o <= pos[k.p]
      /\ Partitions \subseteq Nat /\ Times \subseteq Int
  BY TailAssumption DEF TailInv, Reading, Sampled
<1>2. ASSUME NEW p \in Partitions, NEW i \in 1 .. n[p]
      PROVE  /\ Key(p, pos[p] + i) \in Keys /\ Key(p, pos[p] + i).p = p
             /\ Key(p, pos[p] + i).o = pos[p] + i
  <2>1. /\ topic[p] \in Seq([ts : Times, kind : Kinds]) /\ pos[p] \in Nat /\ n[p] \in Nat
        /\ pos[p] + n[p] <= Len(topic[p])
    BY <1>1, <1>2 DEF End
  <2>2. Len(topic[p]) \in Nat BY <2>1
  <2>3. pos[p] + i \in Nat /\ pos[p] + i \in 1 .. Len(topic[p]) BY <1>2, <2>1, <2>2
  <2>4. topic[p][pos[p] + i] \in [ts : Times, kind : Kinds]
    BY <2>1, <2>3, ElementOf
  <2>5. topic[p][pos[p] + i].ts \in Int /\ p \in Nat BY <1>1, <1>2, <2>4
  <2> QED BY <2>3, <2>5 DEF Key, Keys
<1>3. \A k \in K : \E p \in Partitions : \E i \in 1 .. n[p] : k = Key(p, pos[p] + i)
  BY DEF Polled
<1>4. ASSUME NEW k \in K
      PROVE  /\ k \in Keys /\ k.p \in Partitions /\ pos[k.p] < k.o /\ k.o <= pos[k.p] + n[k.p]
             /\ k.o \in Nat /\ k.o - pos[k.p] \in 1 .. n[k.p] /\ k = Key(k.p, k.o)
  <2>1. PICK p \in Partitions : \E i \in 1 .. n[p] : k = Key(p, pos[p] + i) BY <1>3
  <2>2. PICK i \in 1 .. n[p] : k = Key(p, pos[p] + i) BY <2>1
  <2>3. k \in Keys /\ k.p = p /\ k.o = pos[p] + i BY <1>2, <2>2
  <2>4. pos[p] \in Nat /\ n[p] \in Nat BY <1>1
  <2>5. k = Key(k.p, k.o) BY <2>2, <2>3
  <2> QED BY <2>3, <2>4, <2>5
<1>5. K \in SUBSET Keys /\ K \cap pool = {}
  <2>1. ASSUME NEW k \in K, k \in pool PROVE FALSE
    <3>1. k.o <= pos[k.p] /\ pos[k.p] < k.o /\ k.o \in Nat /\ pos[k.p] \in Nat
      BY <1>1, <1>4, <2>1
    <3> QED BY <3>1
  <2> QED BY <1>4, <2>1
<1>6. ASSUME NEW c \in Cells(n)
      PROVE  /\ at[c] = Key(c[1], pos[c[1]] + c[2]) /\ at[c] \in K
             /\ at[c].p = c[1] /\ at[c].o = pos[c[1]] + c[2]
             /\ c = <<c[1], c[2]>> /\ c[1] \in Partitions /\ c[2] \in Nat /\ pos[c[1]] \in Nat
  <2>1. c = <<c[1], c[2]>> /\ c[1] \in Partitions /\ c[2] \in 1 .. n[c[1]] BY CellsArePairs
  <2>2. at[c] = Key(c[1], pos[c[1]] + c[2]) OBVIOUS
  <2>3. at[c] \in K BY <2>1, <2>2 DEF Polled
  <2>4. at[c].p = c[1] /\ at[c].o = pos[c[1]] + c[2] BY <1>2, <2>1, <2>2
  <2> HIDE DEF at, K
  <2> QED BY <1>1, <2>1, <2>2, <2>3, <2>4
<1>7. at \in [Cells(n) -> K] BY <1>6
<1>8. at \in Injection(Cells(n), K)
  <2>1. ASSUME NEW c \in Cells(n), NEW d \in Cells(n), at[c] = at[d] PROVE c = d
    <3> HIDE DEF at, K
    <3>1. c[1] = d[1] /\ pos[c[1]] + c[2] = pos[d[1]] + d[2] BY <1>6, <2>1
    <3>2. c[2] = d[2] BY <3>1, <1>6
    <3> QED BY <3>1, <3>2, <1>6
  <2> HIDE DEF at, K
  <2> QED BY <1>7, <2>1 DEF Injection, IsInjective
<1>9. at \in Surjection(Cells(n), K)
  <2>1. ASSUME NEW k \in K PROVE \E c \in Cells(n) : at[c] = k
    <3> DEFINE c == <<k.p, k.o - pos[k.p]>>
    <3>1. c \in Cells(n) BY <1>4, InCells
    <3>2. at[c] = Key(k.p, pos[k.p] + (k.o - pos[k.p])) BY <3>1
    <3>3. pos[k.p] + (k.o - pos[k.p]) = k.o
      <4>1. k.o \in Nat /\ pos[k.p] \in Nat BY <1>1, <1>4
      <4> QED BY <4>1
    <3>4. at[c] = k BY <3>2, <3>3, <1>4
    <3> QED BY <3>1, <3>4
  <2> HIDE DEF at, K
  <2> QED BY <1>7, <2>1 DEF Surjection
<1>10. ExistsBijection(Cells(n), K)
  <2> HIDE DEF at, K
  <2> QED BY <1>8, <1>9 DEF Bijection, ExistsBijection
<1>11. IsFiniteSet(Cells(n)) /\ Total(n) = Cardinality(Cells(n)) BY CellsFinite
<1>12. IsFiniteSet(K) /\ Cardinality(K) = Cardinality(Cells(n))
  <2> HIDE DEF K
  <2> QED BY <1>10, <1>11, FS_Bijection
<1> HIDE DEF K
<1> QED BY <1>4, <1>5, <1>11, <1>12 DEF K

\* An empty batch is the best of nothing.
LEMMA EmptyBatch == Best({}, {}, BatchLimit, "newest", "newest")
<1>1. IsFiniteSet({}) /\ Cardinality({}) = 0 BY FS_EmptySet
<1> QED BY <1>1, TailAssumption DEF Best

LEMMA TailInvInit == TailInit => TailInv
<1> SUFFICES ASSUME TailInit PROVE TailInv OBVIOUS
<1>1. /\ topic = [p \in Partitions |-> <<>>] /\ client = "connecting" /\ list = <<>>
      /\ wire = <<>> /\ stream = "none" /\ start = [p \in Partitions |-> 0] /\ pos = start
      /\ sample = {} /\ seen = 0 /\ skipped = 0 /\ quiet = 0 /\ pool = {}
      /\ unmatched = 0 /\ told = 0 /\ others \in 0 .. MaxLive /\ free = MaxLive - others
  BY DEF TailInit
<1>2. Heartbeat \in Nat /\ MaxLive \in Nat /\ ListMax \in Nat BY TailAssumption
<1>3. Reading
  <2>1. <<>> \in Seq([ts : Times, kind : Kinds]) OBVIOUS
  <2>2. topic \in [Partitions -> Seq([ts : Times, kind : Kinds])] BY <1>1, <2>1
  <2>3. \A p \in Partitions : End(p) = 0 /\ pos[p] = 0 /\ start[p] = 0 BY <1>1 DEF End
  <2>4. start \in [Partitions -> Nat] /\ pos \in [Partitions -> Nat] BY <1>1
  <2> QED BY <1>1, <1>2, <2>2, <2>3, <2>4 DEF Reading
<1>4. Sampled BY <1>1, EmptyBatch, FS_EmptySet DEF Sampled
<1>5. Shown
  <2>1. list \in Seq(Keys) /\ Len(list) = 0 BY <1>1
  <2>2. Range(list) = {} BY <1>1 DEF Range
  <2> QED BY <1>2, <2>1, <2>2 DEF Shown
<1>6. Wired BY <1>1 DEF Wired
<1>7. Counted
  <2>1. Cardinality({}) = 0 BY FS_EmptySet
  <2> QED BY <1>1, <2>1 DEF Counted, EveryRecordCounted, Following
<1>8. Permits BY <1>1, <1>2 DEF Permits
<1> QED BY <1>3, <1>4, <1>5, <1>6, <1>7, <1>8 DEF TailInv

\* Steps that leave the reader and the page's list alone.
LEMMA StaysPut ==
  ASSUME TailInv, UNCHANGED <<topic, list, tailVars>>,
         stream' = stream \/ stream' \in {"none", "open", "ended"},
         client' \in {"connecting", "live", "paused", "error"}, Wired', Permits'
  PROVE  TailInv'
<1>1. /\ topic' = topic /\ list' = list /\ start' = start /\ pos' = pos /\ sample' = sample
      /\ seen' = seen /\ skipped' = skipped /\ quiet' = quiet /\ pool' = pool
      /\ unmatched' = unmatched /\ told' = told
  BY DEF tailVars
<1>2. Reading' BY <1>1 DEF TailInv, Reading, End
<1>3. Sampled' BY <1>1 DEF TailInv, Sampled
<1>4. Shown' BY <1>1 DEF TailInv, Shown, End, Following
<1>5. Counted' BY <1>1 DEF TailInv, Counted, EveryRecordCounted, Following, Total
<1> QED BY <1>2, <1>3, <1>4, <1>5 DEF TailInv

LEMMA ConnectTail == ASSUME TailInv, Connect PROVE TailInv'
<1>1. UNCHANGED <<topic, list, wire, tailVars, others>> BY DEF Connect
<1>2. wire = <<>> /\ stream = "none" BY DEF Connect
<1>3. Wired' BY <1>1, <1>2 DEF Wired
<1>4. free \in Nat /\ others \in Nat /\ MaxLive \in Nat BY TailAssumption DEF TailInv, Permits
<1>5. Permits' BY <1>1, <1>4 DEF TailInv, Permits, Connect
<1>6. /\ stream' = stream \/ stream' \in {"none", "open", "ended"}
      /\ client' \in {"connecting", "live", "paused", "error"}
  BY DEF Connect
<1> QED BY <1>1, <1>3, <1>5, <1>6, StaysPut

LEMMA OpenFailsTail == ASSUME TailInv, OpenFails PROVE TailInv'
<1>1. UNCHANGED <<topic, list, wire, tailVars, others>> BY DEF OpenFails
<1>2. stream = "open" /\ stream' = "none" /\ client' = "error" /\ free' = free + 1 BY DEF OpenFails
<1>3. Wired' BY <1>1, <1>2 DEF TailInv, Wired
<1>4. Permits' BY <1>1, <1>2, TailAssumption DEF TailInv, Permits
<1> QED BY <1>1, <1>2, <1>3, <1>4, StaysPut

LEMMA KafkaFailsTail == ASSUME TailInv, KafkaFails PROVE TailInv'
<1>1. UNCHANGED <<topic, list, tailVars, free, others, client>>
  BY DEF KafkaFails, Ends, tailVars, clientVars, permitVars
<1>2. stream \in {"poll", "skip"} /\ stream' = "ended" /\ wire' = <<Error>> BY DEF KafkaFails, Ends
<1>3. Wired' BY <1>2 DEF Wired, Error
<1>4. Permits' BY <1>1, <1>2 DEF TailInv, Permits
<1>5. client' \in {"connecting", "live", "paused", "error"} BY <1>1 DEF TailInv, Reading
<1> QED BY <1>1, <1>2, <1>3, <1>4, <1>5, StaysPut

LEMMA DropTail == ASSUME TailInv, Drop PROVE TailInv'
<1>1. UNCHANGED <<topic, list, wire, tailVars, others, client>> BY DEF Drop, clientVars
<1>2. stream = "ended" /\ stream' = "none" /\ wire = <<>> /\ free' = free + 1 BY DEF Drop
<1>3. Wired' BY <1>1, <1>2 DEF Wired
<1>4. Permits' BY <1>1, <1>2, TailAssumption DEF TailInv, Permits
<1>5. client' \in {"connecting", "live", "paused", "error"} BY <1>1 DEF TailInv, Reading
<1> QED BY <1>1, <1>2, <1>3, <1>4, <1>5, StaysPut

LEMMA PauseTail == ASSUME TailInv, Pause PROVE TailInv'
<1>1. UNCHANGED <<topic, list, tailVars, others>> BY DEF Pause, Leaves
<1>2. /\ stream' = "none" /\ wire' = <<>> /\ client' = "paused"
      /\ free' = IF stream = "none" THEN free ELSE free + 1
  BY DEF Pause, Leaves
<1>3. Wired' BY <1>2 DEF Wired
<1>4. Permits' BY <1>1, <1>2, TailAssumption DEF TailInv, Permits
<1> QED BY <1>1, <1>2, <1>3, <1>4, StaysPut

LEMMA DisconnectTail == ASSUME TailInv, Disconnect PROVE TailInv'
<1>1. UNCHANGED <<topic, list, tailVars, free>> BY DEF Disconnect
<1>2. /\ stream # "none" /\ stream' = "none" /\ wire' = <<>> /\ client' = "connecting"
      /\ others' = others + 1
  BY DEF Disconnect
<1>3. Wired' BY <1>2 DEF Wired
<1>4. Permits' BY <1>1, <1>2, TailAssumption DEF TailInv, Permits
<1> QED BY <1>1, <1>2, <1>3, <1>4, StaysPut

\* Steps of the page and of others.
LEMMA AroundTail ==
  ASSUME TailInv, Resume \/ SessionEnds \/ OtherOpens \/ OtherCloses \/ UNCHANGED allVars
  PROVE  TailInv'
<1>1. /\ UNCHANGED <<topic, list, wire, stream, tailVars>>
      /\ client' \in {"connecting", "live", "paused", "error"}
  BY DEF TailInv, Reading, Resume, SessionEnds, OtherOpens, OtherCloses, allVars, clientVars
<1>2. pos' = pos BY <1>1 DEF tailVars
<1>3. Wired' BY <1>1, <1>2 DEF TailInv, Wired, IsFrame, Ready, Error, Frame
<1>4. free \in Nat /\ others \in Nat /\ MaxLive \in Nat
      /\ free + others + (IF stream = "none" THEN 0 ELSE 1) = MaxLive
  BY TailAssumption DEF TailInv, Permits
<1>5. /\ free' \in Nat /\ others' \in Nat /\ free' + others' = free + others
  BY <1>4 DEF Resume, SessionEnds, OtherOpens, OtherCloses, permitVars, allVars
<1>6. Permits' BY <1>1, <1>4, <1>5 DEF Permits
<1> QED BY <1>1, <1>3, <1>6, StaysPut

LEMMA ClearTail == ASSUME TailInv, Clear PROVE TailInv'
<1>1. /\ UNCHANGED <<topic, client, wire, stream, session, free, others>> /\ list' = <<>>
      /\ UNCHANGED <<start, pos, sample, seen, skipped, quiet, pool, unmatched, told>>
  BY DEF Clear, tailVars, permitVars
<1>2. Range(list') = {} BY <1>1 DEF Range
<1>3. Reading' BY <1>1 DEF TailInv, Reading, End
<1>4. Sampled' BY <1>1 DEF TailInv, Sampled
<1>5. Shown'
  <2>1. <<>> \in Seq(Keys) /\ Len(<<>>) = 0 OBVIOUS
  <2> QED BY <1>1, <1>2, <2>1, TailAssumption DEF Shown
<1>6. Wired'
  <2>1. ASSUME NEW f, IsFrame(f) PROVE IsFrame(f)'
    BY <1>1, <1>2, <2>1 DEF IsFrame, Frame
  <2> QED BY <1>1, <2>1 DEF TailInv, Wired, Ready, Error
<1>7. Counted' BY <1>1 DEF TailInv, Counted, EveryRecordCounted, Following, Total
<1>8. Permits' BY <1>1 DEF TailInv, Permits
<1> QED BY <1>3, <1>4, <1>5, <1>6, <1>7, <1>8 DEF TailInv

\* A partition grows at its end.
LEMMA ProduceTail ==
  ASSUME TailInv, NEW q \in Partitions, NEW ts \in Times, NEW kind \in Kinds,
         Produce(q, ts, kind)
  PROVE  TailInv'
<1> DEFINE R == [ts : Times, kind : Kinds]
           r == [ts |-> ts, kind |-> kind]
<1>1. /\ topic' = [topic EXCEPT ![q] = Append(topic[q], r)]
      /\ UNCHANGED <<client, list, wire, stream, free, others>>
      /\ UNCHANGED <<start, pos, sample, seen, skipped, quiet, pool, unmatched, told>>
  BY DEF Produce, clientVars, tailVars, permitVars
<1>2. topic \in [Partitions -> Seq(R)] BY DEF TailInv, Reading
<1>3. r \in R OBVIOUS
<1> HIDE DEF R, r
<1>4. /\ topic[q] \in Seq(R) /\ Append(topic[q], r) \in Seq(R)
      /\ Len(Append(topic[q], r)) = Len(topic[q]) + 1 /\ Len(topic[q]) \in Nat
  BY <1>2, <1>3
<1>5. topic' \in [Partitions -> Seq(R)] BY <1>1, <1>2, <1>4
<1>6. \A p \in Partitions : End(p) \in Nat /\ End(p)' \in Nat /\ End(p) <= End(p)'
  <2>1. ASSUME NEW p \in Partitions
        PROVE  Len(topic[p]) \in Nat /\ Len(topic'[p]) \in Nat /\ Len(topic[p]) <= Len(topic'[p])
    <3>1. Len(topic[p]) \in Nat BY <1>2
    <3>2. topic'[p] = IF p = q THEN Append(topic[q], r) ELSE topic[p] BY <1>1, <1>2
    <3> QED BY <3>1, <3>2, <1>4
  <2> QED BY <2>1 DEF End
<1>7. Reading'
  <2>1. \A p \in Partitions : start[p] <= pos[p] /\ pos[p] <= End(p) /\ pos[p] \in Nat
    BY DEF TailInv, Reading
  <2>2. \A p \in Partitions : pos[p] <= End(p)' BY <2>1, <1>6
  <2> QED BY <1>1, <1>5, <2>1, <2>2 DEF TailInv, Reading, R
<1>8. Sampled' BY <1>1 DEF TailInv, Sampled
<1>9. Shown'
  <2>1. ASSUME NEW e \in Range(list) PROVE e.p \in Partitions /\ e.o <= End(e.p)'
    <3>1. e.p \in Partitions /\ e.o <= End(e.p) BY DEF TailInv, Shown
    <3>2. e.o \in Nat
      <4>1. list \in Seq(Keys) BY DEF TailInv, Shown
      <4>2. PICK i \in 1 .. Len(list) : e = list[i] BY <4>1 DEF Range
      <4>3. e \in Keys BY <4>1, <4>2, ElementOf
      <4> QED BY <4>3 DEF Keys
    <3> QED BY <3>1, <3>2, <1>6
  <2> QED BY <1>1, <2>1 DEF TailInv, Shown, Following
<1>10. Wired' BY <1>1 DEF TailInv, Wired, IsFrame, Ready, Error, Frame
<1>11. Counted' BY <1>1 DEF TailInv, Counted, EveryRecordCounted, Following, Total
<1>12. Permits' BY <1>1 DEF TailInv, Permits
<1> QED BY <1>7, <1>8, <1>9, <1>10, <1>11, <1>12 DEF TailInv

\* What Reset leaves.
LEMMA ResetFacts ==
  ASSUME Reset
  PROVE  /\ sample' = {} /\ seen' = 0 /\ skipped' = 0 /\ quiet' = 0 /\ pool' = {}
         /\ Sampled' /\ Cardinality(sample') = 0
<1>1. sample' = {} /\ seen' = 0 /\ skipped' = 0 /\ quiet' = 0 /\ pool' = {} BY DEF Reset
<1>2. IsFiniteSet({}) /\ Cardinality({}) = 0 BY FS_EmptySet
<1>3. Best(sample', pool', BatchLimit, "newest", "newest") BY <1>1, EmptyBatch
<1>4. Sampled' BY <1>1, <1>2, <1>3 DEF Sampled
<1> QED BY <1>1, <1>2, <1>4

\* Records on the page are keys of partitions.
LEMMA ShownKeys ==
  ASSUME Shown, NEW r \in Range(list)
  PROVE  r \in Keys /\ r.p \in Partitions /\ r.o \in Nat
<1>1. list \in Seq(Keys) /\ r.p \in Partitions BY DEF Shown
<1>2. PICK i \in 1 .. Len(list) : r = list[i] BY <1>1 DEF Range
<1>3. r \in Keys BY <1>1, <1>2, ElementOf
<1> QED BY <1>1, <1>3 DEF Keys

LEMMA OpenTail == ASSUME TailInv, Open PROVE TailInv'
<1>1. /\ UNCHANGED <<topic, client, list, free, others>> /\ Reset
      /\ stream = "open" /\ stream' = "next"
      /\ start' = [p \in Partitions |-> End(p)] /\ pos' = start'
      /\ unmatched' = 0 /\ told' = 0 /\ wire' = <<Ready>>
  BY DEF Open, StartAt, clientVars, permitVars
<1>2. /\ sample' = {} /\ seen' = 0 /\ skipped' = 0 /\ quiet' = 0 /\ pool' = {}
      /\ Sampled' /\ Cardinality(sample') = 0
  BY <1>1, ResetFacts
<1>3. \A p \in Partitions : End(p) \in Nat /\ End(p)' = End(p)
  BY <1>1 DEF TailInv, Reading, End
<1>4. /\ start' \in [Partitions -> Nat] /\ pos' \in [Partitions -> Nat]
      /\ \A p \in Partitions : start'[p] = End(p) /\ pos'[p] = End(p)
  BY <1>1, <1>3
<1>5. Reading'
  <2>1. 0 \in 0 .. Heartbeat BY TailAssumption
  <2>2. \A p \in Partitions : start'[p] <= pos'[p] /\ pos'[p] <= End(p)' BY <1>3, <1>4
  <2> QED BY <1>1, <1>2, <1>4, <2>1, <2>2 DEF TailInv, Reading
<1>6. Shown'
  <2>1. ASSUME NEW r \in Range(list)
        PROVE  r.p \in Partitions /\ r.o <= End(r.p)' /\ r.o <= pos'[r.p]
    <3>1. r.p \in Partitions /\ r.o <= End(r.p) BY DEF TailInv, Shown
    <3> QED BY <3>1, <1>3, <1>4
  <2> QED BY <1>1, <2>1 DEF TailInv, Shown
<1>7. Wired' BY <1>1 DEF Wired, Ready
<1>8. Counted'
  <2>1. [p \in Partitions |-> pos'[p] - start'[p]] = [p \in Partitions |-> 0] BY <1>3, <1>4
  <2>2. Total([p \in Partitions |-> pos'[p] - start'[p]]) = 0 BY <2>1, TotalOfNothing
  <2>3. EveryRecordCounted' BY <2>2, <1>1, <1>2 DEF EveryRecordCounted, Total
  <2> QED BY <1>1, <1>2, <2>3 DEF Counted
<1>9. Permits' BY <1>1 DEF TailInv, Permits
<1> QED BY <1>2, <1>5, <1>6, <1>7, <1>8, <1>9 DEF TailInv

LEMMA BeginTail == ASSUME TailInv, BeginNext PROVE TailInv'
<1>1. /\ UNCHANGED <<topic, client, list, wire, start, pos, unmatched, told, free, others>>
      /\ Reset /\ stream = "next" /\ stream' = "poll" /\ wire = <<>>
  BY DEF BeginNext, clientVars, permitVars
<1>2. /\ sample' = {} /\ seen' = 0 /\ skipped' = 0 /\ quiet' = 0 /\ pool' = {}
      /\ Sampled' /\ Cardinality(sample') = 0
  BY <1>1, ResetFacts
<1>3. Reading'
  <2>1. 0 \in 0 .. Heartbeat BY TailAssumption
  <2> QED BY <1>1, <1>2, <2>1 DEF TailInv, Reading, End
<1>4. Shown' BY <1>1, <1>2 DEF TailInv, Shown, End, Following
<1>5. Wired' BY <1>1 DEF Wired
<1>6. Counted'
  <2>1. seen = 0 /\ skipped = 0 BY <1>1 DEF TailInv, Counted
  <2> QED BY <1>1, <1>2, <2>1 DEF TailInv, Counted, EveryRecordCounted, Following, Total
<1>7. Permits' BY <1>1 DEF TailInv, Permits
<1> QED BY <1>2, <1>3, <1>4, <1>5, <1>6, <1>7 DEF TailInv

\* A reader that moves on adds what it passes to the sum.
LEMMA PassedAdds ==
  ASSUME Reading, NEW n \in [Partitions -> Nat], start' = start,
         pos' = [p \in Partitions |-> pos[p] + n[p]]
  PROVE  /\ Total([p \in Partitions |-> pos'[p] - start'[p]])
              = Total([p \in Partitions |-> pos[p] - start[p]]) + Total(n)
         /\ Total(n) \in Nat
<1> DEFINE f == [p \in Partitions |-> pos[p] - start[p]]
<1>1. \A p \in Partitions : pos[p] \in Nat /\ start[p] \in Nat /\ start[p] <= pos[p]
  BY DEF Reading
<1>2. f \in [Partitions -> Nat] BY <1>1
<1>3. [p \in Partitions |-> pos'[p] - start'[p]] = [p \in Partitions |-> f[p] + n[p]]
  <2>1. \A p \in Partitions : pos'[p] - start'[p] = f[p] + n[p] BY <1>1
  <2> QED BY <2>1
<1> HIDE DEF f
<1>4. Total([p \in Partitions |-> f[p] + n[p]]) = Total(f) + Total(n) BY <1>2, TotalAdds
<1>5. Total(n) \in Nat BY CellsFinite
<1> QED BY <1>3, <1>4, <1>5 DEF f

LEMMA PollTail == ASSUME TailInv, Poll PROVE TailInv'
<1>1. /\ UNCHANGED <<topic, client, list, wire, start, told, free, others>>
      /\ stream = "poll" /\ stream' = "skip" /\ quiet < Heartbeat
  BY DEF Poll, clientVars, permitVars
<1>2. PICK n \in [Partitions -> 0 .. MaxLog] :
           /\ \A p \in Partitions : pos[p] + n[p] <= End(p)
           /\ \E keys \in SetToSeqs(Polled(n)) :
                  /\ sample' = Admit(keys).kept
                  /\ seen' = seen + Admit(keys).pushed
                  /\ skipped' = skipped + Admit(keys).rejected
                  /\ unmatched' = unmatched + Admit(keys).dropped
                  /\ quiet' \in {quiet + 1} \cup (IF keys = <<>> THEN {} ELSE {quiet})
           /\ pool' = pool \cup {key \in Polled(n) : Hit(key)}
           /\ pos' = [p \in Partitions |-> pos[p] + n[p]]
  BY DEF Poll
<1> DEFINE K == Polled(n)
<1>3. PICK keys \in SetToSeqs(K) :
           /\ sample' = Admit(keys).kept
           /\ seen' = seen + Admit(keys).pushed
           /\ skipped' = skipped + Admit(keys).rejected
           /\ unmatched' = unmatched + Admit(keys).dropped
           /\ quiet' \in {quiet + 1} \cup (IF keys = <<>> THEN {} ELSE {quiet})
  BY <1>2
<1>4. n \in [Partitions -> Nat]
  <2>1. MaxLog \in Nat BY TailAssumption
  <2>2. \A p \in Partitions : n[p] \in Nat BY <2>1
  <2> QED BY <2>2
<1>5. /\ K \in SUBSET Keys /\ IsFiniteSet(K) /\ K \cap pool = {}
      /\ \A k \in K : k.p \in Partitions /\ pos[k.p] < k.o /\ k.o <= pos[k.p] + n[k.p]
      /\ Cardinality(K) = Total(n)
  BY <1>2, <1>4, PolledFacts
<1> HIDE DEF K
<1>6. /\ pool \in SUBSET Keys /\ IsFiniteSet(pool)
      /\ \A k \in pool : k.p \in Partitions /\ k.o <= pos[k.p]
      /\ Best(sample, pool, BatchLimit, "newest", "newest")
  BY DEF TailInv, Sampled
<1> DEFINE hits == {k \in K : Hit(k)}
           a == Admit(keys)
<1>7. /\ Best(a.kept, pool \cup hits, BatchLimit, "newest", "newest")
      /\ a.pushed \in Nat /\ a.rejected \in Nat /\ a.dropped \in Nat
      /\ a.pushed + a.rejected + a.dropped = Cardinality(K)
      /\ Cardinality(a.kept) <= Cardinality(sample) + a.pushed
      /\ a.pushed > 0 => \E k \in K : Hit(k)
  BY <1>5, <1>6, AdmitFacts
<1> HIDE DEF a
<1>8. sample' = a.kept /\ pool' = pool \cup hits BY <1>2, <1>3 DEF a, K
<1>9. /\ topic \in [Partitions -> Seq([ts : Times, kind : Kinds])] /\ start \in [Partitions -> Nat]
      /\ pos \in [Partitions -> Nat]
      /\ \A p \in Partitions : start[p] <= pos[p] /\ pos[p] <= End(p) /\ pos[p] \in Nat
                                /\ start[p] \in Nat /\ n[p] \in Nat /\ pos'[p] = pos[p] + n[p]
  BY <1>2, <1>4 DEF TailInv, Reading
<1>10. pos' \in [Partitions -> Nat] BY <1>2, <1>9
<1>11. Reading'
  <2>1. \A p \in Partitions : start'[p] <= pos'[p] /\ pos'[p] <= End(p)'
    BY <1>1, <1>2, <1>9 DEF End
  <2>2. quiet' \in 0 .. Heartbeat
    <3>1. quiet \in 0 .. Heartbeat /\ Heartbeat \in Nat BY TailAssumption DEF TailInv, Reading
    <3>2. quiet' = quiet + 1 \/ quiet' = quiet BY <1>3
    <3> QED BY <1>1, <3>1, <3>2
  <2>3. client' \in {"connecting", "live", "paused", "error"} BY <1>1 DEF TailInv, Reading
  <2> QED BY <1>1, <1>9, <1>10, <2>1, <2>2, <2>3 DEF Reading
<1>12. Sampled'
  <2>1. hits \in SUBSET K BY <1>5
  <2>2. IsFiniteSet(hits)
    <3> HIDE DEF hits
    <3> QED BY <1>5, <2>1, FS_Subset
  <2>3. IsFiniteSet(pool \cup hits)
    <3> HIDE DEF hits
    <3> QED BY <1>6, <2>2, FS_Union
  <2>4. ASSUME NEW k \in pool \cup hits PROVE k \in Keys /\ k.p \in Partitions /\ k.o <= pos'[k.p]
    <3>1. CASE k \in pool
      <4>1. k \in Keys /\ k.p \in Partitions /\ k.o <= pos[k.p] BY <1>6, <3>1
      <4>2. k.o \in Nat BY <4>1 DEF Keys
      <4> QED BY <4>1, <4>2, <1>9
    <3>2. CASE k \in K BY <3>2, <1>5, <1>9
    <3> QED BY <3>1, <3>2, <2>1, <2>4
  <2> HIDE DEF hits
  <2>5. pool' \in SUBSET Keys BY <1>8, <2>4
  <2>6. \A k \in pool' : k.p \in Partitions /\ k.o <= pos'[k.p] BY <1>8, <2>4
  <2>7. Best(sample', pool', BatchLimit, "newest", "newest") BY <1>7, <1>8
  <2>8. IsFiniteSet(pool') BY <1>8, <2>3
  <2> QED BY <2>5, <2>6, <2>7, <2>8 DEF Sampled
<1>13. Shown'
  <2>1. ASSUME NEW r \in Range(list)
        PROVE  /\ r.p \in Partitions /\ r.o <= End(r.p)' /\ r.o <= pos'[r.p]
               /\ \A k \in pool' : k.p = r.p => k.o > r.o
    <3>1. /\ r.p \in Partitions /\ r.o <= End(r.p) /\ r.o <= pos[r.p]
          /\ \A k \in pool : k.p = r.p => k.o > r.o
      BY <1>1 DEF TailInv, Shown, Following
    <3>2. r.o \in Nat BY ShownKeys DEF TailInv
    <3>3. r.o <= End(r.p)' BY <1>1, <3>1 DEF End
    <3>4. ASSUME NEW k \in K, k.p = r.p PROVE k.o > r.o
      <4>1. pos[r.p] < k.o /\ k \in Keys BY <1>5, <3>4
      <4>2. k.o \in Nat BY <4>1 DEF Keys
      <4> QED BY <4>1, <4>2, <3>1, <3>2, <1>9
    <3> QED BY <3>1, <3>2, <3>3, <3>4, <1>8, <1>9
  <2> QED BY <1>1, <2>1 DEF TailInv, Shown
<1>14. Wired'
  <2>1. wire = <<>> BY <1>1 DEF TailInv, Wired
  <2> QED BY <1>1, <2>1 DEF Wired
<1>15. Counted'
  <2>1. /\ seen \in Nat /\ skipped \in Nat /\ unmatched \in Nat /\ told \in Nat
        /\ Cardinality(sample) <= seen /\ (pool = {} => seen = 0)
        /\ Total([p \in Partitions |-> pos[p] - start[p]]) = told + unmatched + seen + skipped
    BY <1>1 DEF TailInv, Counted, EveryRecordCounted, Following
  <2>2. /\ seen' = seen + a.pushed /\ skipped' = skipped + a.rejected
        /\ unmatched' = unmatched + a.dropped
    BY <1>3 DEF a
  <2>3. Total([p \in Partitions |-> pos'[p] - start'[p]])
           = Total([p \in Partitions |-> pos[p] - start[p]]) + Total(n)
    BY <1>1, <1>2, <1>4, PassedAdds DEF TailInv
  <2>4. Cardinality(sample') <= seen'
    <3>1. Cardinality(sample) \in Nat BY <1>6, FS_CardinalityType DEF Best
    <3>2. Cardinality(a.kept) \in Nat BY <1>7, FS_CardinalityType DEF Best
    <3> QED BY <1>7, <1>8, <2>1, <2>2, <3>1, <3>2
  <2>5. pool' = {} => seen' = 0 BY <1>7, <1>8, <2>1, <2>2
  <2>6. Total([p \in Partitions |-> pos'[p] - start'[p]]) = told' + unmatched' + seen' + skipped'
    BY <1>1, <1>5, <1>7, <2>1, <2>2, <2>3
  <2>7. EveryRecordCounted' BY <2>6 DEF EveryRecordCounted, Total
  <2>8. seen' \in Nat /\ skipped' \in Nat /\ unmatched' \in Nat /\ told' \in Nat
    BY <1>1, <1>7, <2>1, <2>2
  <2> QED BY <1>1, <2>4, <2>5, <2>7, <2>8 DEF Counted
<1>16. Permits' BY <1>1 DEF TailInv, Permits
<1> QED BY <1>11, <1>12, <1>13, <1>14, <1>15, <1>16 DEF TailInv

LEMMA SkipTail == ASSUME TailInv, SkipAhead PROVE TailInv'
<1>1. /\ UNCHANGED <<topic, client, list, wire, start, sample, seen, quiet, pool, unmatched,
                     told, free, others>>
      /\ stream = "skip" /\ stream' = IF sample = {} THEN "poll" ELSE "flush"
  BY DEF SkipAhead, clientVars, permitVars
<1> DEFINE Lag(fetched, p) == fetched[p] - pos[p]
           Jump(fetched) == [p \in Partitions |->
                        IF Lag(fetched, p) > Backlog THEN Lag(fetched, p) - Backlog ELSE 0]
<1>2. PICK fetched \in [Partitions -> 0 .. MaxLog] :
           /\ \A p \in Partitions : pos[p] <= fetched[p] /\ fetched[p] <= End(p)
           /\ pos' = [p \in Partitions |-> pos[p] + Jump(fetched)[p]]
           /\ skipped' = skipped + Total(Jump(fetched))
  BY DEF SkipAhead
<1> DEFINE jump == Jump(fetched)
<1>3. /\ topic \in [Partitions -> Seq([ts : Times, kind : Kinds])] /\ start \in [Partitions -> Nat]
      /\ pos \in [Partitions -> Nat]
      /\ \A p \in Partitions : start[p] <= pos[p] /\ pos[p] <= End(p) /\ pos[p] \in Nat
                                /\ start[p] \in Nat /\ fetched[p] \in Nat
      /\ MaxLog \in Nat /\ Backlog \in Nat
  <2>1. MaxLog \in Nat /\ Backlog \in Nat BY TailAssumption
  <2>2. \A p \in Partitions : fetched[p] \in Nat BY <2>1, <1>2
  <2> QED BY <2>1, <2>2 DEF TailInv, Reading
<1>4. ASSUME NEW p \in Partitions PROVE jump[p] \in Nat /\ pos[p] + jump[p] <= End(p)
  <2>1. jump[p] = IF fetched[p] - pos[p] > Backlog THEN fetched[p] - pos[p] - Backlog ELSE 0
    OBVIOUS
  <2>2. End(p) \in Nat BY <1>3 DEF End
  <2> HIDE DEF jump
  <2> QED BY <2>1, <2>2, <1>2, <1>3
<1>5. jump \in [Partitions -> Nat] BY <1>4
<1> HIDE DEF jump, Jump
<1>6. /\ pos' = [p \in Partitions |-> pos[p] + jump[p]]
      /\ skipped' = skipped + Total(jump)
  BY <1>2 DEF jump
<1>7. \A p \in Partitions : pos'[p] = pos[p] + jump[p] /\ pos[p] <= pos'[p] /\ pos'[p] \in Nat
  BY <1>3, <1>4, <1>6
<1>8. Reading'
  <2>1. \A p \in Partitions : start'[p] <= pos'[p] /\ pos'[p] <= End(p)'
    <3>1. ASSUME NEW p \in Partitions PROVE start'[p] <= pos'[p] /\ pos'[p] <= End(p)'
      <4>1. End(p)' = End(p) /\ start'[p] = start[p] BY <1>1 DEF End
      <4>2. pos[p] + jump[p] <= End(p) /\ jump[p] \in Nat BY <1>4
      <4>3. start[p] <= pos[p] /\ start[p] \in Nat /\ pos[p] \in Nat BY <1>3
      <4> QED BY <4>1, <4>2, <4>3, <1>7
    <3> QED BY <3>1
  <2>2. pos' \in [Partitions -> Nat] BY <1>6, <1>7
  <2> QED BY <1>1, <2>1, <2>2 DEF TailInv, Reading
<1>9. Sampled'
  <2>1. ASSUME NEW k \in pool PROVE k.p \in Partitions /\ k.o <= pos'[k.p]
    <3>1. k \in Keys /\ k.p \in Partitions /\ k.o <= pos[k.p] BY DEF TailInv, Sampled
    <3>2. k.o \in Nat BY <3>1 DEF Keys
    <3> QED BY <3>1, <3>2, <1>3, <1>7
  <2> QED BY <1>1, <2>1 DEF TailInv, Sampled
<1>10. Shown'
  <2>1. ASSUME NEW r \in Range(list)
        PROVE  /\ r.p \in Partitions /\ r.o <= End(r.p)' /\ r.o <= pos'[r.p]
               /\ \A k \in pool' : k.p = r.p => k.o > r.o
    <3>1. /\ r.p \in Partitions /\ r.o <= End(r.p) /\ r.o <= pos[r.p]
          /\ \A k \in pool : k.p = r.p => k.o > r.o
      BY <1>1 DEF TailInv, Shown, Following
    <3>2. r.o \in Nat BY ShownKeys DEF TailInv
    <3>3. r.o <= End(r.p)' BY <1>1, <3>1 DEF End
    <3> QED BY <1>1, <3>1, <3>2, <3>3, <1>3, <1>7
  <2> QED BY <1>1, <2>1 DEF TailInv, Shown
<1>11. Wired'
  <2>1. wire = <<>> BY <1>1 DEF TailInv, Wired
  <2> QED BY <1>1, <2>1 DEF Wired
<1>12. Counted'
  <2>1. /\ seen \in Nat /\ skipped \in Nat /\ unmatched \in Nat /\ told \in Nat
        /\ Cardinality(sample) <= seen /\ (pool = {} => seen = 0)
        /\ Total([p \in Partitions |-> pos[p] - start[p]]) = told + unmatched + seen + skipped
    BY <1>1 DEF TailInv, Counted, EveryRecordCounted, Following
  <2>2. /\ Total([p \in Partitions |-> pos'[p] - start'[p]])
             = Total([p \in Partitions |-> pos[p] - start[p]]) + Total(jump)
        /\ Total(jump) \in Nat
    BY <1>1, <1>5, <1>6, PassedAdds DEF TailInv
  <2>3. Total([p \in Partitions |-> pos'[p] - start'[p]]) = told' + unmatched' + seen' + skipped'
    BY <1>1, <1>6, <2>1, <2>2
  <2>4. EveryRecordCounted' BY <2>3 DEF EveryRecordCounted, Total
  <2>5. skipped' \in Nat BY <1>6, <2>1, <2>2
  <2> QED BY <1>1, <2>1, <2>4, <2>5 DEF Counted
<1>13. Permits' BY <1>1 DEF TailInv, Permits
<1> QED BY <1>8, <1>9, <1>10, <1>11, <1>12, <1>13 DEF TailInv

\* A frame that next() returns, and a call that ends.
LEMMA SendTail ==
  ASSUME TailInv, Following, wire = <<>>, NEW f, IsFrame(f), Send(f), Reset,
         Len(f.records) + f.skipped = seen + skipped,
         UNCHANGED <<topic, clientVars, start, pos, unmatched, permitVars>>
  PROVE  TailInv'
<1>1. UNCHANGED <<topic, client, list, start, pos, unmatched, free, others>>
  BY DEF clientVars, permitVars
<1>2. /\ sample' = {} /\ seen' = 0 /\ skipped' = 0 /\ quiet' = 0 /\ pool' = {}
      /\ Sampled' /\ Cardinality(sample') = 0
  BY ResetFacts
<1>3. \/ stream' = "ended" /\ wire' = <<Error>> /\ told' = told
      \/ /\ stream' = "next" /\ told' = told + Len(f.records) + f.skipped
         /\ wire' = <<>> \/ wire' = <<f>>
  BY DEF Send, Ends
<1>4. Reading'
  <2>1. 0 \in 0 .. Heartbeat BY TailAssumption
  <2> QED BY <1>1, <1>2, <1>3, <2>1 DEF TailInv, Reading, End
<1>5. Shown' BY <1>1, <1>2, <1>3 DEF TailInv, Shown, End, Following
<1>6. Wired'
  <2>1. IsFrame(f)' BY <1>1 DEF IsFrame, Frame
  <2> QED BY <1>3, <2>1 DEF Wired, Error
<1>7. Counted'
  <2>1. /\ seen \in Nat /\ skipped \in Nat /\ unmatched \in Nat /\ told \in Nat
        /\ Total([p \in Partitions |-> pos[p] - start[p]]) = told + unmatched + seen + skipped
    BY DEF TailInv, Counted, EveryRecordCounted
  <2>2. Len(f.records) \in Nat /\ f.skipped \in Nat BY DEF IsFrame
  <2>3. told' \in Nat BY <1>3, <2>1, <2>2
  <2>4. CASE stream' = "next"
    <3>1. told' = told + Len(f.records) + f.skipped BY <1>3, <2>4
    <3>2. told + unmatched + seen + skipped = told' + unmatched + 0 + 0 BY <3>1, <2>1, <2>2
    <3>3. Total([p \in Partitions |-> pos'[p] - start'[p]]) = told' + unmatched' + seen' + skipped'
      BY <1>1, <1>2, <2>1, <3>2
    <3>4. EveryRecordCounted' BY <3>3 DEF EveryRecordCounted, Total
    <3> QED BY <1>1, <1>2, <2>1, <2>3, <2>4, <3>4 DEF Counted
  <2>5. CASE stream' = "ended"
    BY <1>1, <1>2, <2>1, <2>3, <2>5 DEF Counted, EveryRecordCounted, Following
  <2> QED BY <1>3, <2>4, <2>5
<1>8. Permits' BY <1>1, <1>3 DEF TailInv, Permits, Following
<1> QED BY <1>2, <1>4, <1>5, <1>6, <1>7, <1>8 DEF TailInv

LEMMA QuietTail == ASSUME TailInv, Quiet PROVE TailInv'
<1>1. /\ stream = "poll" /\ Send(HeartbeatFrame) /\ Reset
      /\ UNCHANGED <<topic, clientVars, start, pos, unmatched, permitVars>>
  BY DEF Quiet
<1>2. wire = <<>> /\ Following BY <1>1 DEF TailInv, Wired, Following
<1>3. seen \in Nat /\ skipped \in Nat /\ seen = 0
  <2>1. sample = {} /\ (pool = {} => seen = 0) BY <1>1 DEF TailInv, Counted
  <2>2. Best({}, pool, BatchLimit, "newest", "newest") BY <2>1 DEF TailInv, Sampled
  <2>3. Cardinality({}) = 0 /\ BatchLimit # 0 BY FS_EmptySet, TailAssumption
  <2>4. pool = {} BY <2>2, <2>3 DEF Best
  <2> QED BY <2>1, <2>4 DEF TailInv, Counted
<1> DEFINE f == HeartbeatFrame
<1>4. f = Frame(<<>>, skipped) /\ f.records = <<>> /\ f.skipped = skipped
  BY DEF HeartbeatFrame, Frame
<1>5. IsFrame(f)
  <2>1. Range(<<>>) = {} /\ <<>> \in Seq(Keys) BY DEF Range
  <2> HIDE DEF f
  <2> QED BY <1>3, <1>4, <2>1 DEF IsFrame
<1> HIDE DEF f
<1>6. Len(f.records) + f.skipped = seen + skipped BY <1>3, <1>4
<1> QED BY <1>1, <1>2, <1>5, <1>6, SendTail DEF f

LEMMA FlushTail == ASSUME TailInv, Flush PROVE TailInv'
<1>1. /\ stream = "flush" /\ Send(BatchFrame) /\ Reset
      /\ UNCHANGED <<topic, clientVars, start, pos, unmatched, permitVars>>
  BY DEF Flush
<1>2. wire = <<>> /\ Following BY <1>1 DEF TailInv, Wired, Following
<1> DEFINE f == BatchFrame
<1>3. /\ f = Frame(f.records, f.skipped) /\ f.records \in Seq(Keys)
      /\ Len(f.records) = Cardinality(sample) /\ Cardinality(sample) \in Nat
      /\ Range(f.records) = sample
      /\ f.skipped = skipped + (seen - Cardinality(sample))
  BY FrameFacts DEF TailInv
<1> HIDE DEF f
<1>4. seen \in Nat /\ skipped \in Nat /\ Cardinality(sample) <= seen BY DEF TailInv, Counted
<1>5. f.skipped \in Nat /\ Len(f.records) + f.skipped = seen + skipped BY <1>3, <1>4
<1>6. ASSUME NEW r \in sample
      PROVE  /\ r.p \in Partitions /\ r.o <= pos[r.p]
             /\ \A shown \in Range(list) : r.p = shown.p => r.o > shown.o
  <2>1. r \in pool BY DEF TailInv, Sampled, Best
  <2> QED BY <1>1, <2>1 DEF TailInv, Sampled, Shown
<1>7. IsFrame(f) BY <1>3, <1>5, <1>6 DEF IsFrame
<1> QED BY <1>1, <1>2, <1>5, <1>7, SendTail DEF f

\* The page takes a frame: what it shows is of the frame or was shown.
LEMMA DeliverTail == ASSUME TailInv, Deliver PROVE TailInv'
<1>1. /\ UNCHANGED <<topic, stream, start, pos, sample, seen, skipped, quiet, pool, unmatched,
                     told, free, others>>
      /\ wire # <<>> /\ wire' = <<>>
  BY DEF Deliver, tailVars, permitVars
<1>2. stream \in {"next", "ended"} BY <1>1 DEF TailInv, Wired
<1>3. Sampled' BY <1>1 DEF TailInv, Sampled
<1>4. Wired' BY <1>1 DEF Wired
<1>5. Counted' BY <1>1 DEF TailInv, Counted, EveryRecordCounted, Following, Total
<1>6. Permits' BY <1>1 DEF TailInv, Permits
<1>7. SUFFICES client' \in {"connecting", "live", "paused", "error"} /\ Shown'
  BY <1>1, <1>3, <1>4, <1>5, <1>6 DEF TailInv, Reading, End
<1>8. client \in {"connecting", "live", "paused", "error"} BY DEF TailInv, Reading
<1>9. CASE wire = <<Ready>> \/ wire = <<Error>>
  <2>1. Head(wire).kind \in {"ready", "error"} BY <1>9 DEF Ready, Error
  <2>2. list' = list /\ client' \in {"live", "error"} BY <2>1 DEF Deliver
  <2> QED BY <1>1, <2>2 DEF TailInv, Shown, End, Following
<1>10. CASE stream = "next" /\ \E f : IsFrame(f) /\ wire = <<f>>
  <2>1. PICK f : IsFrame(f) /\ wire = <<f>> BY <1>10
  <2>2. /\ f = Frame(f.records, f.skipped) /\ f.records \in Seq(Keys)
        /\ \A r \in Range(f.records) : r.p \in Partitions /\ r.o <= pos[r.p]
    BY <2>1 DEF IsFrame
  <2>3. f.kind = "records" BY <2>2 DEF Frame
  <2> DEFINE all == Reverse(f.records) \o list
             m == AtMost(ListMax, Len(all))
  <2>4. Head(wire) = f BY <2>1
  <2>5. list' = SubSeq(all, 1, m) /\ client' = client BY <2>3, <2>4 DEF Deliver
  <2>6. list \in Seq(Keys) BY DEF TailInv, Shown
  <2> DEFINE back == Reverse(f.records)
  <2>7. /\ back \in Seq(Keys) /\ Len(back) = Len(f.records) /\ Len(back) \in Nat
        /\ \A i \in 1 .. Len(back) : back[i] \in Range(f.records)
    <3> DEFINE l == Len(f.records)
    <3>1. l \in Nat /\ DOMAIN f.records = 1 .. l BY <2>2
    <3>2. \A i \in 1 .. l : l - i + 1 \in 1 .. l BY <3>1
    <3>3. \A i \in 1 .. l : f.records[i] \in Keys BY <2>2, ElementOf
    <3>4. back = [i \in 1 .. l |-> f.records[(l - i) + 1]] BY DEF Reverse
    <3> HIDE DEF back, l
    <3>5. back \in [1 .. l -> Keys] BY <3>2, <3>3, <3>4
    <3>6. back \in Seq(Keys) /\ Len(back) = l BY <3>1, <3>5, SeqOver
    <3>7. \A i \in 1 .. l : back[i] \in Range(f.records) BY <3>1, <3>2, <3>4 DEF Range
    <3> QED BY <3>1, <3>6, <3>7 DEF l
  <2> HIDE DEF back
  <2>8. /\ all \in Seq(Keys) /\ Len(all) = Len(back) + Len(list) /\ Len(list) \in Nat
        /\ \A i \in 1 .. Len(all) :
              all[i] = IF i <= Len(back) THEN back[i] ELSE list[i - Len(back)]
    BY <2>6, <2>7 DEF back
  <2>9. \A i \in 1 .. Len(all) : all[i] \in Range(f.records) \/ all[i] \in Range(list)
    <3> HIDE DEF all
    <3>1. SUFFICES ASSUME NEW i \in 1 .. Len(all)
                   PROVE  all[i] \in Range(f.records) \/ all[i] \in Range(list)
      OBVIOUS
    <3>2. CASE i <= Len(back)
      <4>1. i \in 1 .. Len(back) /\ all[i] = back[i] BY <2>7, <2>8, <3>1, <3>2
      <4> QED BY <4>1, <2>7
    <3>3. CASE ~(i <= Len(back))
      <4>1. i - Len(back) \in 1 .. Len(list) /\ all[i] = list[i - Len(back)]
        BY <2>7, <2>8, <3>1, <3>3
      <4>2. list[i - Len(back)] \in Range(list) BY <4>1, <2>6 DEF Range
      <4> QED BY <4>1, <4>2
    <3> QED BY <3>2, <3>3
  <2> HIDE DEF all
  <2>10. m \in Nat /\ m <= ListMax /\ m <= Len(all) /\ Len(all) \in Nat
    <3>1. Len(all) \in Nat /\ ListMax \in Nat BY <2>7, <2>8, TailAssumption
    <3> QED BY <3>1 DEF AtMost
  <2> HIDE DEF m
  <2>11. /\ list' \in Seq(Keys) /\ Len(list') = m
         /\ \A i \in 1 .. m : list'[i] = all[i] /\ i \in 1 .. Len(all)
    <3>1. \A i \in 1 .. m : i \in 1 .. Len(all) BY <2>10
    <3>2. SubSeq(all, 1, m) = [i \in 1 .. m |-> all[i]] BY <2>8, <2>10
    <3>3. \A i \in 1 .. Len(all) : all[i] \in Keys BY <2>8, ElementOf
    <3>4. [i \in 1 .. m |-> all[i]] \in [1 .. m -> Keys] BY <3>1, <3>3
    <3>5. list' \in [1 .. m -> Keys] /\ \A i \in 1 .. m : list'[i] = all[i] BY <2>5, <3>2, <3>4
    <3>6. list' \in Seq(Keys) /\ Len(list') = m BY <2>10, <3>5, SeqOver
    <3> QED BY <3>1, <3>5, <3>6
  <2>12. ASSUME NEW r \in Range(list') PROVE r \in Range(f.records) \/ r \in Range(list)
    <3>1. PICK i \in 1 .. m : r = list'[i] BY <2>11 DEF Range
    <3> QED BY <3>1, <2>9, <2>11
  <2>13. ASSUME NEW r \in Range(list')
         PROVE  r.p \in Partitions /\ r.o <= End(r.p)' /\ r.o <= pos'[r.p]
    <3>1. r.p \in Partitions /\ r.o <= pos[r.p]
      BY <2>2, <2>12, <1>10 DEF TailInv, Shown, Following
    <3>2. r.o \in Nat
      <4>1. PICK i \in 1 .. m : r = list'[i] BY <2>11 DEF Range
      <4>2. r \in Keys BY <4>1, <2>11, ElementOf
      <4> QED BY <4>2 DEF Keys
    <3>3. pos[r.p] <= End(r.p) /\ pos[r.p] \in Nat /\ End(r.p) \in Nat
      BY <3>1 DEF TailInv, Reading, End
    <3> QED BY <1>1, <3>1, <3>2, <3>3 DEF End
  <2>14. Shown' BY <1>1, <1>10, <2>10, <2>11, <2>13 DEF Shown
  <2> QED BY <1>8, <2>5, <2>14
<1> QED BY <1>1, <1>9, <1>10 DEF TailInv, Wired

LEMMA TailInvNext == TailInv /\ [TailNext]_allVars => TailInv'
<1> SUFFICES ASSUME TailInv, [TailNext]_allVars PROVE TailInv' OBVIOUS
<1>1. CASE Open BY <1>1, OpenTail
<1>2. CASE BeginNext BY <1>2, BeginTail
<1>3. CASE Poll BY <1>3, PollTail
<1>4. CASE SkipAhead BY <1>4, SkipTail
<1>5. CASE Quiet BY <1>5, QuietTail
<1>6. CASE Flush BY <1>6, FlushTail
<1>7. CASE Drop BY <1>7, DropTail
<1>8. CASE Connect BY <1>8, ConnectTail
<1>9. CASE OpenFails BY <1>9, OpenFailsTail
<1>10. CASE KafkaFails BY <1>10, KafkaFailsTail
<1>11. CASE Deliver BY <1>11, DeliverTail
<1>12. CASE Pause BY <1>12, PauseTail
<1>13. CASE Clear BY <1>13, ClearTail
<1>14. CASE Disconnect BY <1>14, DisconnectTail
<1>15. CASE Resume \/ SessionEnds \/ OtherOpens \/ OtherCloses \/ UNCHANGED allVars
  BY <1>15, AroundTail
<1>16. CASE \E p \in Partitions, ts \in Times, kind \in Kinds : Produce(p, ts, kind)
  BY <1>16, ProduceTail
<1> QED BY <1>1, <1>2, <1>3, <1>4, <1>5, <1>6, <1>7, <1>8, <1>9, <1>10, <1>11, <1>12,
           <1>13, <1>14, <1>15, <1>16 DEF TailNext, Serve

\* The batch, the page, the wire and the counts of a tail fit each other in every
\* state, whatever is produced, polled, skipped, paused or broken off.
THEOREM TailIsSound == TailSpec => []TailInv
<1> QED BY TailInvInit, TailInvNext, PTL DEF TailSpec

\* The types and the bounds of the tail: one frame on the wire, a list and a batch
\* in their limits, and every permit free, with this tail or with another.
THEOREM TailStaysInLimits == TailSpec => []TailTyped
<1>1. TailInv => TailTyped
  <2> SUFFICES ASSUME TailInv PROVE TailTyped OBVIOUS
  <2>1. Len(wire) <= 1
    <3>1. wire = <<>> \/ \E f : wire = <<f>> BY DEF TailInv, Wired
    <3>2. CASE wire = <<>> BY <3>2
    <3>3. CASE \E f : wire = <<f>>
      <4>1. PICK f : wire = <<f>> BY <3>3
      <4>2. Len(<<f>>) = 1 OBVIOUS
      <4> QED BY <4>1, <4>2
    <3> QED BY <3>1, <3>2, <3>3
  <2>2. sample \subseteq pool /\ Cardinality(sample) <= BatchLimit BY DEF TailInv, Sampled, Best
  <2> QED BY <2>1, <2>2 DEF TailInv, TailTyped, Reading, Shown, Counted, Permits
<1> QED BY <1>1, TailIsSound, PTL

\* FrameIsNewest: RecordBatch with admits and the second pass keeps the newest of
\* all matching records, and as many of them as it may.
THEOREM FramesAreNewest == TailSpec => []FrameIsNewest
<1>1. TailInv => FrameIsNewest
  <2> SUFFICES ASSUME TailInv PROVE FrameIsNewest OBVIOUS
  <2>1. /\ IsFiniteSet(pool) /\ sample \subseteq pool /\ IsFiniteSet(sample)
        /\ Cardinality(sample) <= BatchLimit
        /\ \A out \in pool \ sample :
              /\ Cardinality(sample) = BatchLimit
              /\ \A k \in sample : Ranks(k, out, "newest", "newest")
    BY DEF TailInv, Sampled, Best
  <2>2. \A k \in sample, out \in pool \ sample : Precedes(k, out, "newest")
    BY <2>1 DEF Ranks
  <2>3. /\ Cardinality(sample) \in Nat /\ Cardinality(pool) \in Nat
        /\ Cardinality(sample) <= Cardinality(pool)
    BY <2>1, FS_CardinalityType, FS_Subset
  <2>4. BatchLimit \in Nat BY TailAssumption
  <2>5. CASE pool = sample BY <2>1, <2>2, <2>3, <2>4, <2>5 DEF FrameIsNewest, AtMost
  <2>6. CASE pool # sample
    <3>1. Cardinality(sample) = BatchLimit BY <2>1, <2>6
    <3> QED BY <2>2, <2>3, <2>4, <3>1 DEF FrameIsNewest, AtMost
  <2> QED BY <2>5, <2>6
<1> QED BY <1>1, TailIsSound, PTL

\* FramesGoForward: a frame on the wire is ahead of what the page shows.
THEOREM PagesGetNothingTwice == TailSpec => []FramesGoForward
<1>1. TailInv => FramesGoForward
  <2> SUFFICES ASSUME TailInv, NEW frame \in Range(wire), frame.kind = "records",
                      NEW r \in Range(frame.records), NEW shown \in Range(list), r.p = shown.p
               PROVE  r.o > shown.o
    BY DEF FramesGoForward
  <2>1. frame = Ready \/ frame = Error \/ IsFrame(frame)
    BY DEF TailInv, Wired, Range
  <2> QED BY <2>1 DEF IsFrame, Ready, Error
<1> QED BY <1>1, TailIsSound, PTL

\* EveryRecordCounted: what Tail::next says it skipped, what it gave and what the
\* filter dropped are all that the reader passed.
THEOREM TailCountsEveryRecord == TailSpec => []EveryRecordCounted
<1>1. TailInv => EveryRecordCounted BY DEF TailInv, Counted
<1> QED BY <1>1, TailIsSound, PTL
=============================================================================

----------------------------- MODULE ViewsProofs -----------------------------
(***************************************************************************)
(* Proofs about what klens shows: the marks and rates of the watermark     *)
(* lane, replies cut to their size, the pages and tools that join tables   *)
(* (StoreViews, Projections, Replies), and the records of a page           *)
(* (RecordValues).                                                         *)
(***************************************************************************)
EXTENDS StoreViews, RecordValues, FiniteSetTheorems, TLAPS

-----------------------------------------------------------------------------
(* The watermark lane.                                                       *)

\* The lane's clock readings, and the reading that is under way.
LaneTypes ==
  /\ now \in Nat /\ polledAt \in Nat /\ polledAt <= now
  /\ lowReadAt \in Nat \union {Null} /\ (lowReadAt # Null => lowReadAt <= now)
  /\ committedAt \in Nat \union {Null} /\ (committedAt # Null => committedAt <= now)

\* Every low of the table was asked for when the lows were read last, or later, by a
\* lookup of its own; a table is there only after a full reading.
LowsRead ==
  marks # Null =>
       /\ lowReadAt # Null /\ committedAt # Null /\ DOMAIN askedAt = DOMAIN marks
       /\ polledAt - committedAt < IdleHeartbeat
       /\ \A p \in DOMAIN marks :
            /\ marks[p].low <= marks[p].high
            /\ askedAt[p] \in Nat /\ lowReadAt <= askedAt[p]
            /\ polledAt - askedAt[p] < LowInterval

\* A reading of highs alone started from a table whose lows are not due.
CachedFetch ==
  fetch # Null /\ ~fetch.full => marks # Null /\ lowReadAt # Null /\ now - lowReadAt < LowInterval

MarksInv == LaneTypes /\ LowsRead /\ CachedFetch

LEMMA IntervalsAreNat == LowInterval \in Nat \ {0} /\ IdleHeartbeat \in Nat \ {0}
BY ViewsAssumption

LEMMA MarksInvInit == Init => MarksInv
BY ViewsAssumption DEF Init, MarksInv, LaneTypes, LowsRead, CachedFetch

\* A step that leaves the lane alone.
LEMMA MarksSame ==
  ASSUME MarksInv,
         UNCHANGED <<marks, fetch, lowReadAt, committedAt, now, askedAt, polledAt>>
  PROVE  MarksInv'
BY DEF MarksInv, LaneTypes, LowsRead, CachedFetch

LEMMA StartFetchMarks ==
  ASSUME MarksInv, NEW refresh \in BOOLEAN, StartFetch(refresh) PROVE MarksInv'
<1> DEFINE full == marks = Null \/ refresh \/ LowDue
<1>1. UNCHANGED <<marks, lowReadAt, committedAt, now, askedAt, polledAt>>
  BY DEF StartFetch, tables, history
<1>2. fetch'.full = full
  <2>1. PICK first, got : fetch' = [full |-> full, first |-> first, got |-> got,
                                    wanted |-> WantedPartitions]
    BY DEF StartFetch
  <2> QED BY <2>1
<1>3. CachedFetch'
  <2>1. ~fetch'.full => marks # Null /\ ~LowDue BY <1>2
  <2>2. ~LowDue => lowReadAt # Null /\ now - lowReadAt < LowInterval
    BY ViewsAssumption DEF LowDue, MarksInv, LaneTypes
  <2> QED BY <2>1, <2>2, <1>1 DEF CachedFetch
<1>4. LaneTypes' /\ LowsRead' BY <1>1 DEF MarksInv, LaneTypes, LowsRead
<1> QED BY <1>3, <1>4 DEF MarksInv

\* What a poll makes of its two answers.
LEMMA MergedMarks ==
  ASSUME NEW lows, NEW highs
  PROVE  /\ DOMAIN MergeWatermarks(lows, highs) \subseteq DOMAIN highs
         /\ \A p \in DOMAIN MergeWatermarks(lows, highs) :
              MergeWatermarks(lows, highs)[p].low <= MergeWatermarks(lows, highs)[p].high
BY DEF MergeWatermarks

LEMMA EndFetchMarks == ASSUME MarksInv, EndFetch PROVE MarksInv'
<1>1. PICK lows, highs :
        LET next == MergeWatermarks(lows, highs) IN
        /\ askedAt' = [p \in DOMAIN next |->
                        IF fetch.full \/ p \in Uncached(highs) THEN now ELSE askedAt[p]]
        /\ polledAt' = now /\ lowReadAt' = ReadLows(fetch.full)
        /\ IF Diff(next)
           THEN marks' = next /\ committedAt' = now
           ELSE UNCHANGED <<marks, committedAt>>
  BY DEF EndFetch
<1> DEFINE next == MergeWatermarks(lows, highs)
<1>2. fetch # Null /\ fetch' = Null /\ now' = now BY DEF EndFetch
<1>3. DOMAIN next \subseteq DOMAIN highs /\ \A p \in DOMAIN next : next[p].low <= next[p].high
  BY MergedMarks
<1> HIDE DEF next
<1>4. marks' = next /\ DOMAIN askedAt' = DOMAIN next BY <1>1 DEF Diff, next
<1>5. lowReadAt' \in Nat /\ lowReadAt' <= now /\ now - lowReadAt' < LowInterval
  BY <1>1, <1>2, ViewsAssumption DEF ReadLows, MarksInv, LaneTypes, CachedFetch
<1>6. ASSUME NEW p \in DOMAIN next
      PROVE  askedAt'[p] \in Nat /\ lowReadAt' <= askedAt'[p]
  <2>1. CASE fetch.full \/ p \in Uncached(highs)
    BY <2>1, <1>1, <1>5 DEF MarksInv, LaneTypes, next
  <2>2. CASE ~fetch.full /\ p \notin Uncached(highs)
    <3>1. p \in DOMAIN marks BY <2>2, <1>3 DEF Uncached
    <3>2. askedAt'[p] = askedAt[p] /\ lowReadAt' = lowReadAt
      BY <1>1, <2>2 DEF ReadLows, next
    <3> QED BY <3>1, <3>2, <2>2, <1>2 DEF MarksInv, CachedFetch, LowsRead
  <2> QED BY <2>1, <2>2
<1>7. committedAt' \in Nat /\ committedAt' <= now /\ now - committedAt' < IdleHeartbeat
  <2>1. CASE Diff(next) BY <2>1, <1>1, ViewsAssumption DEF MarksInv, LaneTypes, next
  <2>2. CASE ~Diff(next)
    BY <2>2, <1>1, ViewsAssumption DEF MarksInv, LaneTypes, next, Diff
  <2> QED BY <2>1, <2>2
<1>8. LaneTypes' BY <1>1, <1>2, <1>5, <1>7 DEF MarksInv, LaneTypes
<1>9. LowsRead'
  <2>1. ASSUME NEW p \in DOMAIN next PROVE polledAt' - askedAt'[p] < LowInterval
    <3>1. polledAt' = now /\ now \in Nat /\ askedAt'[p] \in Nat /\ lowReadAt' <= askedAt'[p]
      BY <1>1, <1>6 DEF MarksInv, LaneTypes
    <3>2. now - askedAt'[p] < LowInterval
      <4> DEFINE r == askedAt'[p]
                 l == lowReadAt'
      <4>1. now \in Nat /\ r \in Nat /\ l \in Nat /\ l <= r /\ now - l < LowInterval BY <1>5, <3>1
      <4>2. now - r < LowInterval
        <5> HIDE DEF r, l
        <5> QED BY <4>1, IntervalsAreNat
      <4> QED BY <4>2
    <3> QED BY <3>1, <3>2
  <2>2. lowReadAt' # Null /\ committedAt' # Null BY <1>5, <1>7, ViewsAssumption
  <2> QED BY <2>1, <2>2, <1>1, <1>3, <1>4, <1>6, <1>7 DEF LowsRead
<1>10. CachedFetch' BY <1>2 DEF CachedFetch
<1> QED BY <1>8, <1>9, <1>10 DEF MarksInv

LEMMA MarksInvNext == ASSUME MarksInv, [Next]_vars PROVE MarksInv'
<1> USE DEF tables, lane, history
<1>1. CASE KafkaChanges BY <1>1, MarksSame DEF KafkaChanges, Change
<1>2. CASE PollTopology BY <1>2, MarksSame DEF PollTopology
<1>3. CASE PollOffsets BY <1>3, MarksSame DEF PollOffsets
<1>4. CASE PollLogDirs BY <1>4, MarksSame DEF PollLogDirs
<1>5. ASSUME NEW refresh \in BOOLEAN, StartFetch(refresh) PROVE MarksInv'
  BY <1>5, StartFetchMarks
<1>6. CASE EndFetch BY <1>6, EndFetchMarks
<1>7. CASE FetchFails
  BY <1>7 DEF FetchFails, MarksInv, LaneTypes, LowsRead, CachedFetch
<1>8. CASE Tick
  BY <1>8 DEF Tick, MarksInv, LaneTypes, LowsRead, CachedFetch
<1>9. ASSUME NEW name \in Tools, Call(name) PROVE MarksInv' BY <1>9, MarksSame DEF Call
<1>10. CASE Reply BY <1>10, MarksSame DEF Reply
<1>11. CASE CutReply BY <1>11, MarksSame DEF CutReply
<1>12. CASE UNCHANGED vars BY <1>12, MarksSame DEF vars
<1> QED BY <1>1, <1>2, <1>3, <1>4, <1>5, <1>6, <1>7, <1>8, <1>9, <1>10, <1>11, <1>12 DEF Next

-----------------------------------------------------------------------------
(* Numbers: the least of a set, and induction up to a bound.                 *)

\* A set of naturals has a least one, which Min picks.
LEMMA LeastNumber ==
  ASSUME NEW S \in SUBSET Nat, S # {}
  PROVE  Min(S) \in S /\ \A j \in S : Min(S) <= j
<1> DEFINE initials == {1..i : i \in S}
           smaller == StrictSubsetOrdering(Nat)
<1>1. initials \subseteq FiniteSubsetsOf(Nat)
  <2>1. ASSUME NEW i \in S PROVE 1..i \in SUBSET Nat /\ IsFiniteSet(1..i)
    BY FS_Interval
  <2> QED BY <2>1 DEF FiniteSubsetsOf
<1>2. initials # {} OBVIOUS
<1>3. IsWellFoundedOn(smaller, FiniteSubsetsOf(Nat))
  BY FS_StrictSubsetOrderingWellFounded
<1>4. PICK initial \in initials : \A other \in initials : <<other, initial>> \notin smaller
  <2> HIDE DEF initials, smaller
  <2> QED BY <1>1, <1>2, <1>3, WFMin
<1>5. PICK i \in S : initial = 1..i OBVIOUS
<1>6. ASSUME NEW j \in S, j < i PROVE FALSE
  <2>1. 1..j \subseteq 1..i /\ i \in 1..i /\ i \notin 1..j BY <1>6
  <2>2. <<1..j, 1..i>> \in smaller BY <2>1, <1>6 DEF StrictSubsetOrdering
  <2> QED BY <1>4, <1>5, <2>2
<1>7. \A j \in S : i <= j BY <1>6
<1>8. Min(S) = CHOOSE x \in S : \A y \in S : x <= y BY DEF Min
<1> QED BY <1>7, <1>8

\* Induction up to a bound, of a set.
LEMMA UpTo ==
  ASSUME NEW n \in Nat, NEW S, 0 \in S, \A i \in 1..n : i - 1 \in S => i \in S
  PROVE  0..n \subseteq S
<1> DEFINE bad == {i \in 0..n : i \notin S}
<1> SUFFICES ASSUME bad # {} PROVE FALSE OBVIOUS
<1>1. bad \in SUBSET Nat OBVIOUS
<1>2. Min(bad) \in bad /\ \A j \in bad : Min(bad) <= j BY <1>1, LeastNumber
<1>3. PICK m \in bad : \A j \in bad : m <= j BY <1>2
<1>4. m \in 1..n /\ m - 1 \in 0..n BY <1>3
<1>5. m - 1 \notin bad BY <1>3, <1>4
<1> QED BY <1>3, <1>4, <1>5

-----------------------------------------------------------------------------
(* How a reply is cut.                                                       *)

\* Halfway of an interval that has something inside.
Middle(p) == p[1] + (p[2] - p[1]) \div 2
Pairs(top) == (0..top) \X (0..top)
Within(top, n) == {p \in Pairs(top) : p[2] - p[1] <= n + 1}

LEMMA MiddleFacts ==
  ASSUME NEW top \in Nat, NEW p \in Pairs(top), p[2] - p[1] > 1
  PROVE  /\ Middle(p) \in 0..top /\ p[1] < Middle(p) /\ Middle(p) < p[2]
         /\ <<Middle(p), p[2]>> \in Pairs(top) /\ <<p[1], Middle(p)>> \in Pairs(top)
<1>1. p[1] \in 0..top /\ p[2] \in 0..top BY DEF Pairs
<1> DEFINE half == (p[2] - p[1]) \div 2
<1>2. half \in Int /\ 1 <= half /\ half < p[2] - p[1] BY <1>1, SMT
<1>3. Middle(p) = p[1] + half BY DEF Middle
<1> HIDE DEF half
<1>4. Middle(p) \in 0..top /\ p[1] < Middle(p) /\ Middle(p) < p[2] BY <1>1, <1>2, <1>3
<1> QED BY <1>1, <1>4 DEF Pairs

\* What the loop does with an interval.
Halving(fitting, f, p) ==
  IF p[2] - p[1] <= 1 THEN p[1]
  ELSE IF Middle(p) \in fitting THEN f[<<Middle(p), p[2]>>] ELSE f[<<p[1], Middle(p)>>]

\* Halved is the recursion that it is written as.
LEMMA HalvedDef ==
  ASSUME NEW top \in Nat, NEW fitting
  PROVE  Halved(top, fitting) = [p \in Pairs(top) |-> Halving(fitting, Halved(top, fitting), p)]
<1> DEFINE Def(n, f) == f = [p \in Within(top, n) |-> Halving(fitting, f, p)]
           good == {n \in 0..top : \E f : Def(n, f)}
<1>1. 0 \in good
  <2> DEFINE g == [p \in Within(top, 0) |-> p[1]]
  <2>1. ASSUME NEW p \in Within(top, 0) PROVE g[p] = Halving(fitting, g, p)
    BY DEF Halving, Within
  <2>2. Def(0, g) BY <2>1
  <2> HIDE DEF Def, g
  <2>3. \E f : Def(0, f) BY <2>2
  <2> QED BY <2>3
<1>2. ASSUME NEW n \in 1..top, n - 1 \in good PROVE n \in good
  <2>1. PICK f : Def(n - 1, f) BY <1>2
  <2> DEFINE g == [p \in Within(top, n) |-> Halving(fitting, f, p)]
  <2>2. Within(top, n - 1) \subseteq Within(top, n)
    <3>1. ASSUME NEW p \in Within(top, n - 1) PROVE p[2] - p[1] <= n + 1
      <4>1. p[1] \in Int /\ p[2] \in Int /\ p[2] - p[1] <= n - 1 + 1 BY DEF Within, Pairs
      <4> QED BY <4>1
    <3> QED BY <3>1 DEF Within
  <2>3. ASSUME NEW p \in Within(top, n - 1) PROVE g[p] = f[p]
    <3>1. f[p] = Halving(fitting, f, p) BY <2>1
    <3> QED BY <3>1, <2>2
  <2>4. ASSUME NEW p \in Within(top, n) PROVE g[p] = Halving(fitting, g, p)
    <3>1. CASE p[2] - p[1] <= 1 BY <3>1 DEF Halving
    <3>2. CASE ~(p[2] - p[1] <= 1)
      <4>1. p \in Pairs(top) /\ p[1] \in Int /\ p[2] \in Int /\ p[2] - p[1] <= n + 1
        BY DEF Within, Pairs
      <4>2. /\ Middle(p) \in 0..top /\ p[1] < Middle(p) /\ Middle(p) < p[2]
            /\ <<Middle(p), p[2]>> \in Pairs(top) /\ <<p[1], Middle(p)>> \in Pairs(top)
        BY <3>2, <4>1, MiddleFacts
      <4>3. p[2] - Middle(p) <= n - 1 + 1 /\ Middle(p) - p[1] <= n - 1 + 1 BY <4>1, <4>2
      <4>4. <<Middle(p), p[2]>> \in Within(top, n - 1) /\ <<p[1], Middle(p)>> \in Within(top, n - 1)
        BY <4>2, <4>3 DEF Within
      <4>5. g[<<Middle(p), p[2]>>] = f[<<Middle(p), p[2]>>] /\ g[<<p[1], Middle(p)>>] = f[<<p[1], Middle(p)>>]
        <5> HIDE DEF g
        <5> QED BY <2>3, <4>4
      <4>6. g[p] = Halving(fitting, f, p) OBVIOUS
      <4> HIDE DEF g
      <4> QED BY <4>5, <4>6 DEF Halving
    <3> QED BY <3>1, <3>2
  <2>5. Def(n, g)
    <3>1. g = [p \in Within(top, n) |-> g[p]] OBVIOUS
    <3> HIDE DEF g
    <3> QED BY <2>4, <3>1
  <2> HIDE DEF Def, g
  <2>6. \E h : Def(n, h) BY <2>5
  <2> QED BY <2>6
<1>3. 0..top \subseteq good
  <2> HIDE DEF good
  <2> QED BY <1>1, <1>2, UpTo
<1>4. PICK f : Def(top, f) BY <1>3
<1>5. Within(top, top) = Pairs(top)
  <2>1. ASSUME NEW p \in Pairs(top) PROVE p[2] - p[1] <= top + 1
    <3>1. p[1] \in 0..top /\ p[2] \in 0..top BY DEF Pairs
    <3> QED BY <3>1
  <2> QED BY <2>1 DEF Within
<1> DEFINE All(h) == h = [p \in Pairs(top) |-> Halving(fitting, h, p)]
<1>6. All(f) BY <1>4, <1>5
<1>7. Halved(top, fitting) = CHOOSE h : All(h) BY DEF Halved, Pairs, Halving, Middle
<1> HIDE DEF All
<1>8. All(CHOOSE h : All(h)) BY <1>6
<1>9. All(Halved(top, fitting)) BY <1>7, <1>8
<1> QED BY <1>9 DEF All

\* Between a count that fits and one that does not, halving finds two neighbours.
LEMMA HalvedFinds ==
  ASSUME NEW top \in Nat, NEW fitting, top > 0, top \notin fitting
  PROVE  LET n == Halved(top, fitting)[<<0, top>>] IN
         /\ n \in 0..(top - 1) /\ (n \in fitting \/ n = 0) /\ n + 1 \notin fitting
<1> DEFINE h == Halved(top, fitting)
           Finds(p) == /\ h[p] \in 0..(top - 1) /\ (h[p] \in fitting \/ h[p] = 0)
                       /\ h[p] + 1 \notin fitting
           Ready(p) == (p[1] \in fitting \/ p[1] = 0) /\ p[2] \notin fitting /\ p[1] < p[2]
           good == {n \in 0..top : \A p \in Within(top, n) : Ready(p) => Finds(p)}
<1>1. \A p \in Pairs(top) : h[p] = Halving(fitting, h, p) BY HalvedDef
<1> HIDE DEF h
<1>2. ASSUME NEW p \in Pairs(top), p[2] - p[1] <= 1, Ready(p) PROVE Finds(p)
  <2>1. p[1] \in 0..top /\ p[2] \in 0..top BY DEF Pairs
  <2>2. p[2] = p[1] + 1 BY <1>2, <2>1
  <2>3. h[p] = p[1] BY <1>1, <1>2 DEF Halving
  <2>4. p[1] \in 0..(top - 1) BY <2>1, <2>2
  <2> QED BY <2>2, <2>3, <2>4, <1>2
<1>3. 0 \in good
  <2>1. ASSUME NEW p \in Within(top, 0), Ready(p) PROVE Finds(p)
    <3>1. p \in Pairs(top) /\ p[2] - p[1] <= 1 BY DEF Within
    <3> QED BY <3>1, <2>1, <1>2
  <2> QED BY <2>1
<1>4. ASSUME NEW n \in 1..top, n - 1 \in good PROVE n \in good
  <2>1. ASSUME NEW p \in Within(top, n), Ready(p) PROVE Finds(p)
    <3>1. p \in Pairs(top) /\ p[1] \in Int /\ p[2] \in Int /\ p[2] - p[1] <= n + 1
      BY DEF Within, Pairs
    <3>2. CASE p[2] - p[1] <= 1 BY <3>2, <3>1, <2>1, <1>2
    <3>3. CASE ~(p[2] - p[1] <= 1)
      <4>2. /\ Middle(p) \in 0..top /\ p[1] < Middle(p) /\ Middle(p) < p[2]
            /\ <<Middle(p), p[2]>> \in Pairs(top) /\ <<p[1], Middle(p)>> \in Pairs(top)
        BY <3>1, <3>3, MiddleFacts
      <4>3. p[2] - Middle(p) <= n - 1 + 1 /\ Middle(p) - p[1] <= n - 1 + 1 BY <3>1, <4>2
      <4>4. <<Middle(p), p[2]>> \in Within(top, n - 1) /\ <<p[1], Middle(p)>> \in Within(top, n - 1)
        BY <4>2, <4>3 DEF Within
      <4>5. CASE Middle(p) \in fitting
        <5>1. h[p] = h[<<Middle(p), p[2]>>] BY <1>1, <3>1, <3>3, <4>5 DEF Halving
        <5>2. Ready(<<Middle(p), p[2]>>) BY <4>5, <2>1, <4>2
        <5>3. Finds(<<Middle(p), p[2]>>) BY <1>4, <4>4, <5>2
        <5> QED BY <5>1, <5>3
      <4>6. CASE Middle(p) \notin fitting
        <5>1. h[p] = h[<<p[1], Middle(p)>>] BY <1>1, <3>1, <3>3, <4>6 DEF Halving
        <5>2. Ready(<<p[1], Middle(p)>>) BY <4>6, <2>1, <4>2
        <5>3. Finds(<<p[1], Middle(p)>>) BY <1>4, <4>4, <5>2
        <5> QED BY <5>1, <5>3
      <4> QED BY <4>5, <4>6
    <3> QED BY <3>2, <3>3
  <2> QED BY <2>1
<1>5. 0..top \subseteq good
  <2> HIDE DEF good
  <2> QED BY <1>3, <1>4, UpTo
<1>6. top \in good BY <1>5
<1>7. <<0, top>> \in Within(top, top) BY DEF Within, Pairs
<1>8. Ready(<<0, top>>) OBVIOUS
<1>9. Finds(<<0, top>>) BY <1>6, <1>7, <1>8
<1> QED BY <1>9 DEF h
\* A finite set of integers has a greatest one, which Max picks.
LEMMA GreatestOf ==
  ASSUME NEW S \in SUBSET Int, IsFiniteSet(S), S # {}
  PROVE  Max(S) \in S /\ \A j \in S : j <= Max(S)
<1> DEFINE Topless(T) == T # {} /\ \A m \in T : \E j \in T : j > m
           bad == {T \in FiniteSubsetsOf(S) : Topless(T)}
           smaller == StrictSubsetOrdering(S)
<1>1. SUFFICES ASSUME bad # {} PROVE FALSE
  <2>1. S \in FiniteSubsetsOf(S) BY DEF FiniteSubsetsOf
  <2>2. CASE bad = {}
    <3>1. ~Topless(S) BY <2>1, <2>2
    <3>2. PICK m \in S : \A j \in S : ~(j > m) BY <3>1
    <3>3. \A j \in S : j <= m BY <3>2
    <3>4. Max(S) = CHOOSE x \in S : \A y \in S : x >= y BY DEF Max
    <3> QED BY <3>3, <3>4
  <2> QED BY <2>2, <1>1
<1>2. IsWellFoundedOn(smaller, FiniteSubsetsOf(S))
  BY FS_StrictSubsetOrderingWellFounded
<1>3. PICK T \in bad : \A U \in bad : <<U, T>> \notin smaller
  <2>1. bad \subseteq FiniteSubsetsOf(S) OBVIOUS
  <2> HIDE DEF bad, smaller
  <2> QED BY <1>1, <1>2, <2>1, WFMin
<1>4. T \in SUBSET S /\ IsFiniteSet(T) /\ Topless(T) BY <1>3 DEF FiniteSubsetsOf
<1>5. PICK x \in T : TRUE BY <1>4
<1>6. T \ {x} \in FiniteSubsetsOf(S) BY <1>4, FS_RemoveElement DEF FiniteSubsetsOf
<1>7. Topless(T \ {x})
  <2>1. PICK j \in T : j > x BY <1>4, <1>5
  <2>2. j \in T \ {x} BY <2>1, <1>4
  <2>3. ASSUME NEW m \in T \ {x} PROVE \E k \in T \ {x} : k > m
    <3>1. PICK k \in T : k > m BY <1>4
    <3>2. CASE k # x BY <3>1, <3>2
    <3>3. CASE k = x BY <3>1, <3>3, <2>1, <2>2, <1>4
    <3> QED BY <3>2, <3>3
  <2> QED BY <2>2, <2>3
<1>8. <<T \ {x}, T>> \in smaller BY <1>4, <1>5 DEF StrictSubsetOrdering
<1> QED BY <1>3, <1>6, <1>7, <1>8

LEMMA MinOfTwo ==
  ASSUME NEW a \in Int, NEW b \in Int
  PROVE  Min({a, b}) = IF a <= b THEN a ELSE b
<1> DEFINE m == IF a <= b THEN a ELSE b
<1>1. m \in {a, b} /\ \A y \in {a, b} : m <= y OBVIOUS
<1>2. Min({a, b}) = CHOOSE x \in {a, b} : \A y \in {a, b} : x <= y BY DEF Min
<1>3. Min({a, b}) \in {a, b} /\ \A y \in {a, b} : Min({a, b}) <= y BY <1>1, <1>2
<1> QED BY <1>3

\* search shows as much as fits: below everything what fits is what is not too
\* much, and nothing longer than the result fits.
LEMMA SearchFinds ==
  ASSUME NEW most \in Nat, NEW fitting \in SUBSET (0..most),
         \A a, b \in 0..most : a < b /\ b < most /\ b \in fitting => a \in fitting,
         \A b \in 0..most : b > RESULT_BYTES => b \notin fitting
  PROVE  LET n == Search(most, fitting) IN
         n \in 0..most /\ (n \in fitting \/ n = 0) /\ \A more \in n + 1..most : more \notin fitting
<1> DEFINE top == Min({most, RESULT_BYTES})
           n == Search(most, fitting)
<1>1. RESULT_BYTES \in Nat /\ RESULT_BYTES > 0 BY ViewsAssumption
<1>2. /\ top \in Nat /\ top <= most /\ top <= RESULT_BYTES
      /\ top = most \/ top = RESULT_BYTES
  BY <1>1, MinOfTwo
<1>3. n = IF top \in fitting THEN top ELSE Halved(top, fitting)[<<0, top>>] BY DEF Search
<1> HIDE DEF top, n
<1>4. CASE top \in fitting
  <2>1. n = top BY <1>3, <1>4
  <2>2. ASSUME NEW more \in n + 1..most PROVE more \notin fitting
    <3>1. more \in 0..most /\ more > top BY <2>1, <1>2
    <3>2. more > RESULT_BYTES BY <3>1, <1>2
    <3> QED BY <3>1, <3>2
  <2> QED BY <2>1, <2>2, <1>2, <1>4 DEF n
<1>5. CASE top \notin fitting /\ top = 0
  <2>1. most = 0 BY <1>5, <1>1, <1>2
  <2>2. <<0, top>> \in Pairs(top) BY <1>2 DEF Pairs
  <2>3. n = Halving(fitting, Halved(top, fitting), <<0, top>>) BY <1>2, <1>3, <1>5, <2>2, HalvedDef
  <2>4. n = 0 BY <2>3, <1>5 DEF Halving
  <2> QED BY <2>1, <2>4 DEF n
<1>6. CASE top \notin fitting /\ top # 0
  <2>1. n \in 0..(top - 1) /\ (n \in fitting \/ n = 0) /\ n + 1 \notin fitting
    BY <1>2, <1>3, <1>6, HalvedFinds
  <2>2. ASSUME NEW more \in n + 1..most, more \in fitting PROVE FALSE
    <3>1. more \in 0..most /\ more # top /\ more # n + 1 BY <2>1, <2>2, <1>6
    <3>2. more <= RESULT_BYTES BY <3>1, <2>2, <1>1
    <3>3. more < top BY <3>1, <3>2, <1>2
    <3>4. n + 1 \in 0..most /\ n + 1 < more /\ more < most BY <2>1, <2>2, <3>1, <3>3, <1>2
    <3>5. n + 1 \in fitting BY <3>1, <3>4, <2>2
    <3> QED BY <3>5, <2>1
  <2>3. n \in 0..most BY <2>1, <1>2
  <2> QED BY <2>1, <2>2, <2>3 DEF n
<1> QED BY <1>4, <1>5, <1>6

-----------------------------------------------------------------------------
(* Sizes. *)

\* Finitely many finite pieces, put together.
LEMMA PiecesFinite ==
  ASSUME NEW I, IsFiniteSet(I), NEW F, \A i \in I : IsFiniteSet(F[i])
  PROVE  IsFiniteSet(UNION {{i} \X F[i] : i \in I})
<1> DEFINE pieces == {{i} \X F[i] : i \in I}
           piece == [i \in I |-> {i} \X F[i]]
<1>1. piece \in Surjection(I, pieces) BY DEF Surjection
<1>2. IsFiniteSet(pieces)
  <2> HIDE DEF pieces, piece
  <2> QED BY <1>1, FS_Surjection
<1>3. ASSUME NEW T \in pieces PROVE IsFiniteSet(T)
  <2>1. PICK i \in I : T = {i} \X F[i] OBVIOUS
  <2>2. IsFiniteSet({i}) /\ IsFiniteSet(F[i]) BY FS_Singleton
  <2> HIDE DEF pieces
  <2> QED BY <2>1, <2>2, FS_Product
<1> HIDE DEF pieces
<1>4. IsFiniteSet(UNION pieces) BY <1>2, <1>3, FS_UNION
<1> QED BY <1>4 DEF pieces

LEMMA UnitsFinite ==
  ASSUME NEW I, IsFiniteSet(I), NEW f \in [I -> Nat]
  PROVE  IsFiniteSet(Units(f)) /\ SumOf(f) \in Nat /\ SumOf(f) = Cardinality(Units(f))
<1> DEFINE F == [i \in I |-> 1..f[i]]
<1>1. ASSUME NEW i \in I PROVE IsFiniteSet(F[i])
  <2>1. f[i] \in Int OBVIOUS
  <2>2. IsFiniteSet(1..f[i]) BY <2>1, FS_Interval
  <2> QED BY <2>2
<1>2. Units(f) = UNION {{i} \X F[i] : i \in I} BY DEF Units
<1> HIDE DEF F
<1>3. IsFiniteSet(UNION {{i} \X F[i] : i \in I}) BY <1>1, PiecesFinite
<1> QED BY <1>2, <1>3, FS_CardinalityType DEF SumOf

LEMMA ListFinite ==
  ASSUME NEW n \in Nat, NEW s \in [1..n -> Nat]
  PROVE  IsFiniteSet(Units(s)) /\ Cardinality(Units(s)) \in Nat
<1>1. IsFiniteSet(1..n) BY FS_Interval
<1> QED BY <1>1, UnitsFinite

LEMMA CutIs ==
  ASSUME NEW n \in Nat, NEW s \in [1..n -> Nat], NEW b \in Nat
  PROVE  Cut(s, b) \in [1..n -> Nat]
<1>1. \A i \in 1..n : Min({s[i], b}) = IF s[i] <= b THEN s[i] ELSE b BY MinOfTwo
<1> QED BY <1>1 DEF Cut

LEMMA CutAt ==
  ASSUME NEW n \in Nat, NEW s \in [1..n -> Nat], NEW b \in Nat, NEW i \in 1..n
  PROVE  Cut(s, b)[i] = IF s[i] <= b THEN s[i] ELSE b
<1>1. Min({s[i], b}) = IF s[i] <= b THEN s[i] ELSE b BY MinOfTwo
<1> QED BY <1>1 DEF Cut

LEMMA ListGrows ==
  ASSUME NEW n \in Nat, NEW s \in [1..n -> Nat], NEW a \in Nat, NEW b \in Nat, a <= b
  PROVE  Units(Cut(s, a)) \subseteq Units(Cut(s, b))
<1>1. Cut(s, a) \in [1..n -> Nat] /\ Cut(s, b) \in [1..n -> Nat] BY CutIs
<1>2. ASSUME NEW i \in 1..n PROVE 1..Cut(s, a)[i] \subseteq 1..Cut(s, b)[i]
  <2>1. Cut(s, a)[i] = IF s[i] <= a THEN s[i] ELSE a BY CutAt
  <2>2. Cut(s, b)[i] = IF s[i] <= b THEN s[i] ELSE b BY CutAt
  <2>3. s[i] \in Nat OBVIOUS
  <2> QED BY <2>1, <2>2, <2>3
<1> QED BY <1>1, <1>2 DEF Units

LEMMA LongestFacts ==
  ASSUME NEW n \in Nat, NEW s \in [1..n -> Nat]
  PROVE  /\ Longest(s) \in Nat /\ \A i \in 1..n : s[i] <= Longest(s)
         /\ Longest(s) = 0 \/ \E i \in 1..n : s[i] = Longest(s)
<1> DEFINE values == Range(s)
           all == values \union {0}
<1>1. s \in Surjection(1..n, values) BY DEF Surjection, Range
<1>2. IsFiniteSet(1..n) BY FS_Interval
<1>3. IsFiniteSet(values)
  <2> HIDE DEF values
  <2> QED BY <1>1, <1>2, FS_Surjection
<1>4. all \in SUBSET Int /\ all # {} /\ all \subseteq Nat BY DEF Range
<1>5. IsFiniteSet(all)
  <2>1. IsFiniteSet({0}) BY FS_Singleton
  <2> HIDE DEF values
  <2> QED BY <2>1, <1>3, FS_Union
<1>6. Max(all) \in all /\ \A j \in all : j <= Max(all)
  <2> HIDE DEF all
  <2> QED BY <1>4, <1>5, GreatestOf
<1>7. Longest(s) = Max(all) BY DEF Longest
<1>8. \A i \in 1..n : s[i] \in all BY DEF Range
<1>9. \A v \in all : v = 0 \/ \E i \in 1..n : s[i] = v BY DEF Range
<1> HIDE DEF all
<1> QED BY <1>4, <1>6, <1>7, <1>8, <1>9

\* As many elements as a list, a text, that is cut to n.
LEMMA ListMany ==
  ASSUME NEW n \in Nat, NEW s \in [1..n -> Nat], NEW i \in 1..n, NEW b \in Nat, b <= s[i]
  PROVE  Cardinality(Units(Cut(s, b))) >= b
<1> DEFINE row == {i} \X (1..b)
           all == Units(Cut(s, b))
<1>1. IsFiniteSet({i}) /\ Cardinality({i}) = 1 BY FS_Singleton
<1>2. IsFiniteSet(1..b) /\ Cardinality(1..b) = b BY FS_Interval
<1>3. IsFiniteSet(row) /\ Cardinality(row) = 1 * b BY <1>1, <1>2, FS_Product
<1>4. Cut(s, b) \in [1..n -> Nat] /\ Cut(s, b)[i] = b
  <2>1. Cut(s, b) \in [1..n -> Nat] BY CutIs
  <2>2. Cut(s, b)[i] = IF s[i] <= b THEN s[i] ELSE b BY CutAt
  <2>3. s[i] \in Nat OBVIOUS
  <2> QED BY <2>1, <2>2, <2>3
<1>5. row \subseteq all BY <1>4 DEF Units
<1>6. IsFiniteSet(all) /\ Cardinality(all) \in Nat BY <1>4, ListFinite
<1> HIDE DEF row, all
<1>7. Cardinality(row) <= Cardinality(all) BY <1>5, <1>6, FS_Subset
<1> QED BY <1>3, <1>6, <1>7 DEF all

LEMMA TimesGrows ==
  ASSUME NEW w \in Nat, NEW a \in Nat, NEW b \in Nat, a <= b
  PROVE  w * a \in Nat /\ w * b \in Nat /\ w * a <= w * b /\ (w > 0 => b <= w * b)
<1>1. PICK d \in Nat : b = a + d
  <2>1. b - a \in Nat /\ b = a + (b - a) OBVIOUS
  <2> QED BY <2>1
<1>2. w * b = w * a + w * d BY <1>1
<1>3. w * a \in Nat /\ w * b \in Nat /\ w * d \in Nat OBVIOUS
<1>4. w > 0 => b <= w * b
  <2>1. ASSUME w > 0 PROVE b <= w * b
    <3>1. w - 1 \in Nat BY <2>1
    <3>2. w * b = (w - 1) * b + b OBVIOUS
    <3>3. (w - 1) * b \in Nat BY <3>1
    <3> QED BY <3>2, <3>3
  <2> QED BY <2>1
<1> QED BY <1>2, <1>3, <1>4

-----------------------------------------------------------------------------
(* Replies of lists. *)

IsReply(w) ==
  /\ \E n \in Nat : w.lists \in [1..n -> Nat]
  /\ \E n \in Nat : w.inner \in [1..n -> Nat]
  /\ w.weight \in Nat /\ w.weight > 0

MostRows(w) == Max({Longest(w.lists), Longest(w.inner)})

LEMMA MaxOfTwo ==
  ASSUME NEW a \in Int, NEW b \in Int
  PROVE  Max({a, b}) = IF a >= b THEN a ELSE b
<1> DEFINE m == IF a >= b THEN a ELSE b
<1>1. m \in {a, b} /\ \A y \in {a, b} : m >= y OBVIOUS
<1>2. Max({a, b}) = CHOOSE x \in {a, b} : \A y \in {a, b} : x >= y BY DEF Max
<1>3. Max({a, b}) \in {a, b} /\ \A y \in {a, b} : Max({a, b}) >= y BY <1>1, <1>2
<1> QED BY <1>3

LEMMA RenderFacts ==
  ASSUME NEW w, IsReply(w)
  PROVE  /\ MostRows(w) \in Nat
         /\ \A a \in 0..MostRows(w) : RenderBytes(w, a) \in Nat
         /\ \A a, b \in 0..MostRows(w) :
              a < b /\ b < MostRows(w) => RenderBytes(w, a) <= RenderBytes(w, b)
         /\ \A b \in 0..MostRows(w) : b <= RenderBytes(w, b)
<1>1. PICK n \in Nat : w.lists \in [1..n -> Nat] BY DEF IsReply
<1>2. PICK k \in Nat : w.inner \in [1..k -> Nat] BY DEF IsReply
<1> DEFINE most == MostRows(w)
           L(a) == Cardinality(Units(Cut(w.lists, a)))
           I(a) == Cardinality(Units(Cut(w.inner, a)))
           note(a) == IF \E v \in Range(w.lists) \union Range(w.inner) : v > a THEN NoteBytes ELSE 0
<1>3. /\ Longest(w.lists) \in Nat
      /\ Longest(w.lists) = 0 \/ \E i \in 1..n : w.lists[i] = Longest(w.lists)
  BY <1>1, LongestFacts
<1>4. /\ Longest(w.inner) \in Nat
      /\ Longest(w.inner) = 0 \/ \E i \in 1..k : w.inner[i] = Longest(w.inner)
  BY <1>2, LongestFacts
<1>5. /\ most \in Nat
      /\ most = 0 \/ (\E i \in 1..n : w.lists[i] = most) \/ (\E i \in 1..k : w.inner[i] = most)
  BY <1>3, <1>4, MaxOfTwo DEF MostRows
<1>6. w.weight \in Nat /\ w.weight > 0 /\ NoteBytes \in Nat BY ViewsAssumption DEF IsReply
<1>7. ASSUME NEW a \in 0..most
      PROVE  /\ L(a) \in Nat /\ I(a) \in Nat /\ note(a) \in Nat
             /\ RenderBytes(w, a) = w.weight * L(a) + w.weight * I(a) + note(a)
  <2>1. a \in Nat BY <1>5
  <2>2. Cut(w.lists, a) \in [1..n -> Nat] BY <1>1, <2>1, CutIs
  <2>3. Cut(w.inner, a) \in [1..k -> Nat] BY <1>2, <2>1, CutIs
  <2>4. L(a) \in Nat BY <2>2, ListFinite
  <2>5. I(a) \in Nat BY <2>3, ListFinite
  <2>6. RenderBytes(w, a) = w.weight * L(a) + w.weight * I(a) + note(a)
    BY DEF RenderBytes, Render, Weight, SumOf
  <2> QED BY <2>4, <2>5, <2>6, <1>6
<1> HIDE DEF most
<1>8. ASSUME NEW a \in 0..most, NEW b \in 0..most, a <= b
      PROVE  L(a) <= L(b) /\ I(a) <= I(b)
  <2>1. a \in Nat /\ b \in Nat BY <1>5
  <2>2. Units(Cut(w.lists, a)) \subseteq Units(Cut(w.lists, b)) BY <1>1, <1>8, <2>1, ListGrows
  <2>3. Units(Cut(w.inner, a)) \subseteq Units(Cut(w.inner, b)) BY <1>2, <1>8, <2>1, ListGrows
  <2>4. Cut(w.lists, b) \in [1..n -> Nat] BY <1>1, <2>1, CutIs
  <2>5. Cut(w.inner, b) \in [1..k -> Nat] BY <1>2, <2>1, CutIs
  <2>6. IsFiniteSet(Units(Cut(w.lists, b))) BY <2>4, ListFinite
  <2>7. IsFiniteSet(Units(Cut(w.inner, b))) BY <2>5, ListFinite
  <2>8. L(a) <= L(b) BY <2>2, <2>6, FS_Subset
  <2>9. I(a) <= I(b) BY <2>3, <2>7, FS_Subset
  <2> QED BY <2>8, <2>9
<1>9. ASSUME NEW b \in 0..most PROVE b <= L(b) \/ b <= I(b)
  <2>1. b \in Nat BY <1>5
  <2>2. CASE most = 0 BY <2>2, <1>7
  <2>3. ASSUME NEW i \in 1..n, w.lists[i] = most PROVE b <= L(b)
    <3>1. b <= w.lists[i] BY <2>3, <1>5
    <3>2. L(b) >= b BY <3>1, <2>1, <1>1, ListMany
    <3>3. L(b) \in Nat BY <1>7
    <3> HIDE DEF L
    <3> QED BY <2>1, <3>2, <3>3
  <2>4. ASSUME NEW i \in 1..k, w.inner[i] = most PROVE b <= I(b)
    <3>1. b <= w.inner[i] BY <2>4, <1>5
    <3>2. I(b) >= b BY <3>1, <2>1, <1>2, ListMany
    <3>3. I(b) \in Nat BY <1>7
    <3> HIDE DEF I
    <3> QED BY <2>1, <3>2, <3>3
  <2> HIDE DEF L, I
  <2> QED BY <2>2, <2>3, <2>4, <1>5
<1>10. ASSUME NEW a \in 0..most, a < most PROVE note(a) = NoteBytes
  <2>1. \E v \in Range(w.lists) \union Range(w.inner) : v = most
    <3>1. ASSUME NEW i \in 1..n PROVE w.lists[i] \in Range(w.lists) BY <1>1 DEF Range
    <3>2. ASSUME NEW i \in 1..k PROVE w.inner[i] \in Range(w.inner) BY <1>2 DEF Range
    <3> QED BY <1>5, <1>10, <3>1, <3>2
  <2>2. \E v \in Range(w.lists) \union Range(w.inner) : v > a BY <2>1, <1>10, <1>5
  <2> QED BY <2>2
<1> HIDE DEF L, I, note
<1>11. ASSUME NEW a \in 0..most, NEW b \in 0..most, a < b, b < most
       PROVE RenderBytes(w, a) <= RenderBytes(w, b)
  <2>1. L(a) \in Nat /\ I(a) \in Nat /\ RenderBytes(w, a) = w.weight * L(a) + w.weight * I(a) + note(a)
    BY <1>7
  <2>2. L(b) \in Nat /\ I(b) \in Nat /\ RenderBytes(w, b) = w.weight * L(b) + w.weight * I(b) + note(b)
    BY <1>7
  <2>3. a <= b /\ a < most BY <1>11, <1>5
  <2>4. L(a) <= L(b) /\ I(a) <= I(b) BY <1>8, <2>3
  <2>5. w.weight * L(a) \in Nat /\ w.weight * L(b) \in Nat /\ w.weight * L(a) <= w.weight * L(b)
    BY <1>6, <2>1, <2>2, <2>4, TimesGrows
  <2>6. w.weight * I(a) \in Nat /\ w.weight * I(b) \in Nat /\ w.weight * I(a) <= w.weight * I(b)
    BY <1>6, <2>1, <2>2, <2>4, TimesGrows
  <2>7. note(a) = NoteBytes /\ note(b) = NoteBytes BY <1>10, <1>11, <2>3
  <2> DEFINE x == w.weight * L(a)
             y == w.weight * L(b)
             u == w.weight * I(a)
             v == w.weight * I(b)
  <2> HIDE DEF x, y, u, v
  <2> QED BY <2>1, <2>2, <2>5, <2>6, <2>7, <1>6 DEF x, y, u, v
<1>12. ASSUME NEW b \in 0..most PROVE RenderBytes(w, b) \in Nat /\ b <= RenderBytes(w, b)
  <2>1. /\ L(b) \in Nat /\ I(b) \in Nat /\ note(b) \in Nat
        /\ RenderBytes(w, b) = w.weight * L(b) + w.weight * I(b) + note(b)
    BY <1>7
  <2>2. w.weight * L(b) \in Nat /\ L(b) <= w.weight * L(b) BY <1>6, <2>1, TimesGrows
  <2>3. w.weight * I(b) \in Nat /\ I(b) <= w.weight * I(b) BY <1>6, <2>1, TimesGrows
  <2>4. b <= L(b) \/ b <= I(b) BY <1>9
  <2>5. b \in Nat BY <1>5
  <2> QED BY <2>1, <2>2, <2>3, <2>4, <2>5
<1> QED BY <1>5, <1>11, <1>12 DEF most

\* Lists show as many rows as fit.
LEMMA ListsFit ==
  ASSUME NEW w, IsReply(w)
  PROVE  \E n \in 0..MostRows(w) :
           /\ Fit(w) = Render(w, n) /\ (RenderBytes(w, n) <= RESULT_BYTES \/ n = 0)
           /\ \A more \in n + 1..MostRows(w) : ~(RenderBytes(w, more) <= RESULT_BYTES)
<1> DEFINE most == MostRows(w)
           fitting == {n \in 0..most : RenderBytes(w, n) <= RESULT_BYTES}
           n == Search(most, fitting)
<1>1. RESULT_BYTES \in Nat BY ViewsAssumption
<1>2. /\ most \in Nat
      /\ \A a \in 0..most : RenderBytes(w, a) \in Nat
      /\ \A a, b \in 0..most : a < b /\ b < most => RenderBytes(w, a) <= RenderBytes(w, b)
      /\ \A b \in 0..most : b <= RenderBytes(w, b)
  BY RenderFacts
<1>3. Fit(w) = Render(w, n) BY DEF Fit, MostRows
<1> HIDE DEF most
<1>4. fitting \in SUBSET (0..most) OBVIOUS
<1>5. ASSUME NEW a \in 0..most, NEW b \in 0..most, a < b, b < most, b \in fitting PROVE a \in fitting
  <2>1. RenderBytes(w, a) <= RenderBytes(w, b) BY <1>2, <1>5
  <2>2. RenderBytes(w, a) \in Nat /\ RenderBytes(w, b) \in Nat BY <1>2
  <2>3. RenderBytes(w, b) <= RESULT_BYTES BY <1>5
  <2> QED BY <1>1, <2>1, <2>2, <2>3
<1>6. ASSUME NEW b \in 0..most, b > RESULT_BYTES PROVE b \notin fitting
  <2>1. b \in Nat /\ RenderBytes(w, b) \in Nat /\ b <= RenderBytes(w, b) BY <1>2
  <2> QED BY <1>1, <1>6, <2>1
<1>7. n \in 0..most /\ (n \in fitting \/ n = 0) /\ \A more \in n + 1..most : more \notin fitting
  <2> HIDE DEF fitting
  <2> QED BY <1>2, <1>4, <1>5, <1>6, SearchFinds
<1>8. \A more \in n + 1..most : more \in 0..most BY <1>7, <1>2
<1> HIDE DEF n
<1> QED BY <1>3, <1>7, <1>8 DEF most

-----------------------------------------------------------------------------
(* Replies of records. *)

TextRecords == [texts : Seq(Nat), headers : Seq(Seq(Nat))]

LEMMA SeqFacts ==
  ASSUME NEW S, NEW s \in Seq(S)
  PROVE  Len(s) \in Nat /\ DOMAIN s = 1..Len(s) /\ s \in [1..Len(s) -> S]
OBVIOUS

LEMMA RecordLengthFacts ==
  ASSUME NEW r \in TextRecords
  PROVE  /\ RecordLength(r) \in Nat
         /\ \/ RecordLength(r) = Len(r.headers) \/ RecordLength(r) = Longest(r.texts)
            \/ \E i \in 1..Len(r.headers) : RecordLength(r) = Longest(r.headers[i])
<1>1. r.texts \in Seq(Nat) /\ r.headers \in Seq(Seq(Nat)) BY DEF TextRecords
<1> DEFINE k == Len(r.headers)
           inner == {Longest(header) : header \in Range(r.headers)}
           measure == [i \in 1..k |-> Longest(r.headers[i])]
           all == {k, Longest(r.texts)} \union inner
<1>2. k \in Nat /\ DOMAIN r.headers = 1..k /\ r.headers \in [1..k -> Seq(Nat)] BY <1>1, SeqFacts
<1>3. Len(r.texts) \in Nat /\ r.texts \in [1..Len(r.texts) -> Nat] BY <1>1, SeqFacts
<1>4. Longest(r.texts) \in Nat BY <1>3, LongestFacts
<1>5. ASSUME NEW i \in 1..k PROVE Longest(r.headers[i]) \in Nat
  <2>1. r.headers[i] \in Seq(Nat) BY <1>2
  <2>2. Len(r.headers[i]) \in Nat /\ r.headers[i] \in [1..Len(r.headers[i]) -> Nat] BY <2>1, SeqFacts
  <2> QED BY <2>2, LongestFacts
<1>6. inner = {Longest(r.headers[i]) : i \in 1..k}
  <2>1. Range(r.headers) = {r.headers[i] : i \in 1..k} BY <1>2 DEF Range
  <2> QED BY <2>1
<1>7. measure \in Surjection(1..k, inner) BY <1>6 DEF Surjection
<1>8. IsFiniteSet(1..k) BY <1>2, FS_Interval
<1>9. IsFiniteSet(inner)
  <2> HIDE DEF inner, measure
  <2> QED BY <1>7, <1>8, FS_Surjection
<1>10. IsFiniteSet({k, Longest(r.texts)})
  <2>1. IsFiniteSet({k}) /\ IsFiniteSet({Longest(r.texts)}) BY FS_Singleton
  <2>2. IsFiniteSet({k} \union {Longest(r.texts)}) BY <2>1, FS_Union
  <2>3. {k} \union {Longest(r.texts)} = {k, Longest(r.texts)} OBVIOUS
  <2> QED BY <2>2, <2>3
<1>11. IsFiniteSet(all)
  <2> DEFINE two == {k, Longest(r.texts)}
  <2>1. IsFiniteSet(two) BY <1>10
  <2> HIDE DEF two, inner
  <2>2. IsFiniteSet(two \union inner) BY <2>1, <1>9, FS_Union
  <2> QED BY <2>2 DEF two
<1>12. all \in SUBSET Int /\ all # {} /\ all \subseteq Nat
  <2>1. inner \subseteq Nat BY <1>5, <1>6
  <2>2. {k, Longest(r.texts)} \subseteq Nat BY <1>2, <1>4
  <2>3. k \in all OBVIOUS
  <2>4. all \subseteq Nat
    <3> HIDE DEF inner, k
    <3> QED BY <2>1, <2>2
  <2> HIDE DEF all
  <2> QED BY <2>3, <2>4
<1>13. Max(all) \in all
  <2> HIDE DEF all
  <2> QED BY <1>11, <1>12, GreatestOf
<1>14. RecordLength(r) = Max(all) BY DEF RecordLength
<1>15. \A v \in inner : \E i \in 1..k : v = Longest(r.headers[i]) BY <1>6
<1> HIDE DEF inner
<1> QED BY <1>12, <1>13, <1>14, <1>15

\* What is shown of a header or a record.
HeaderPiece(r, b, i) == {<<0, 0>>} \union Units(Cut(r.headers[i], b))
HeadersShown(r, b) == 1..(IF Len(r.headers) <= b THEN Len(r.headers) ELSE b)
RecordPiece(r, b) == Characters(Clipped(r, b))

LEMMA PieceIs ==
  ASSUME NEW r \in TextRecords, NEW b \in Nat
  PROVE  RecordPiece(r, b) =
           ({0} \X Units(Cut(r.texts, b)))
           \union UNION {{i} \X HeaderPiece(r, b, i) : i \in HeadersShown(r, b)}
<1>1. Len(r.headers) \in Nat
  <2>1. r.headers \in Seq(Seq(Nat)) BY DEF TextRecords
  <2> QED BY <2>1, SeqFacts
<1>2. 1..Min({Len(r.headers), b}) = HeadersShown(r, b) BY <1>1, MinOfTwo DEF HeadersShown
<1> DEFINE shown == Clipped(r, b)
<1>3. /\ shown.texts = Cut(r.texts, b) /\ DOMAIN shown.headers = HeadersShown(r, b)
      /\ \A i \in HeadersShown(r, b) : shown.headers[i] = Cut(r.headers[i], b)
  BY <1>2 DEF Clipped
<1>4. RecordPiece(r, b) = Characters(shown) BY DEF RecordPiece
<1> HIDE DEF shown
<1>5. UNION {{i} \X ({<<0, 0>>} \union Units(shown.headers[i])) : i \in DOMAIN shown.headers}
        = UNION {{i} \X HeaderPiece(r, b, i) : i \in HeadersShown(r, b)}
  BY <1>3 DEF HeaderPiece
<1> QED BY <1>3, <1>4, <1>5 DEF Characters

LEMMA HeaderAt ==
  ASSUME NEW r \in TextRecords, NEW b \in Nat, NEW i \in HeadersShown(r, b)
  PROVE  /\ i \in 1..Len(r.headers) /\ i <= b
         /\ Len(r.headers[i]) \in Nat /\ r.headers[i] \in [1..Len(r.headers[i]) -> Nat]
<1>1. r.headers \in Seq(Seq(Nat)) BY DEF TextRecords
<1>2. Len(r.headers) \in Nat /\ r.headers \in [1..Len(r.headers) -> Seq(Nat)] BY <1>1, SeqFacts
<1>3. i \in 1..Len(r.headers) /\ i <= b BY <1>2 DEF HeadersShown
<1>4. r.headers[i] \in Seq(Nat) BY <1>2, <1>3
<1> QED BY <1>3, <1>4, SeqFacts

LEMMA PieceFinite ==
  ASSUME NEW r \in TextRecords, NEW b \in Nat
  PROVE  IsFiniteSet(RecordPiece(r, b)) /\ Cardinality(RecordPiece(r, b)) \in Nat
<1> DEFINE texts == {0} \X Units(Cut(r.texts, b))
           F == [i \in HeadersShown(r, b) |-> HeaderPiece(r, b, i)]
           headers == UNION {{i} \X F[i] : i \in HeadersShown(r, b)}
<1>1. IsFiniteSet(texts)
  <2>1. r.texts \in Seq(Nat) BY DEF TextRecords
  <2>2. Len(r.texts) \in Nat /\ r.texts \in [1..Len(r.texts) -> Nat] BY <2>1, SeqFacts
  <2>3. Cut(r.texts, b) \in [1..Len(r.texts) -> Nat] BY <2>2, CutIs
  <2>4. IsFiniteSet(Units(Cut(r.texts, b))) BY <2>2, <2>3, ListFinite
  <2>5. IsFiniteSet({0}) BY FS_Singleton
  <2> QED BY <2>4, <2>5, FS_Product
<1>2. ASSUME NEW i \in HeadersShown(r, b) PROVE IsFiniteSet(F[i])
  <2>1. Len(r.headers[i]) \in Nat /\ r.headers[i] \in [1..Len(r.headers[i]) -> Nat] BY HeaderAt
  <2>2. Cut(r.headers[i], b) \in [1..Len(r.headers[i]) -> Nat] BY <2>1, CutIs
  <2>3. IsFiniteSet(Units(Cut(r.headers[i], b))) BY <2>1, <2>2, ListFinite
  <2>4. IsFiniteSet({<<0, 0>>}) BY FS_Singleton
  <2>5. IsFiniteSet({<<0, 0>>} \union Units(Cut(r.headers[i], b))) BY <2>3, <2>4, FS_Union
  <2> QED BY <2>5 DEF HeaderPiece
<1>3. IsFiniteSet(HeadersShown(r, b))
  <2>1. r.headers \in Seq(Seq(Nat)) BY DEF TextRecords
  <2>2. Len(r.headers) \in Nat BY <2>1, SeqFacts
  <2>3. (IF Len(r.headers) <= b THEN Len(r.headers) ELSE b) \in Int BY <2>2
  <2> QED BY <2>3, FS_Interval DEF HeadersShown
<1>4. IsFiniteSet(headers)
  <2> HIDE DEF F
  <2> QED BY <1>2, <1>3, PiecesFinite
<1>5. RecordPiece(r, b) = texts \union headers BY PieceIs
<1> HIDE DEF texts, headers
<1>6. IsFiniteSet(texts \union headers) BY <1>1, <1>4, FS_Union
<1> QED BY <1>5, <1>6, FS_CardinalityType

LEMMA PieceGrows ==
  ASSUME NEW r \in TextRecords, NEW a \in Nat, NEW b \in Nat, a <= b
  PROVE  RecordPiece(r, a) \subseteq RecordPiece(r, b)
<1>1. {0} \X Units(Cut(r.texts, a)) \subseteq {0} \X Units(Cut(r.texts, b))
  <2>1. r.texts \in Seq(Nat) BY DEF TextRecords
  <2>2. Len(r.texts) \in Nat /\ r.texts \in [1..Len(r.texts) -> Nat] BY <2>1, SeqFacts
  <2>3. Units(Cut(r.texts, a)) \subseteq Units(Cut(r.texts, b)) BY <2>2, ListGrows
  <2> QED BY <2>3
<1>2. ASSUME NEW i \in HeadersShown(r, a)
      PROVE  i \in HeadersShown(r, b) /\ HeaderPiece(r, a, i) \subseteq HeaderPiece(r, b, i)
  <2>1. /\ i \in 1..Len(r.headers) /\ i <= a
        /\ Len(r.headers[i]) \in Nat /\ r.headers[i] \in [1..Len(r.headers[i]) -> Nat]
    BY HeaderAt
  <2>2. r.headers \in Seq(Seq(Nat)) BY DEF TextRecords
  <2>3. Len(r.headers) \in Nat BY <2>2, SeqFacts
  <2>4. i \in HeadersShown(r, b) BY <2>1, <2>3 DEF HeadersShown
  <2>5. Units(Cut(r.headers[i], a)) \subseteq Units(Cut(r.headers[i], b)) BY <2>1, ListGrows
  <2> QED BY <2>4, <2>5 DEF HeaderPiece
<1>3. UNION {{i} \X HeaderPiece(r, a, i) : i \in HeadersShown(r, a)}
        \subseteq UNION {{i} \X HeaderPiece(r, b, i) : i \in HeadersShown(r, b)}
  BY <1>2
<1>4. RecordPiece(r, a) = ({0} \X Units(Cut(r.texts, a)))
           \union UNION {{i} \X HeaderPiece(r, a, i) : i \in HeadersShown(r, a)} BY PieceIs
<1>5. RecordPiece(r, b) = ({0} \X Units(Cut(r.texts, b)))
           \union UNION {{i} \X HeaderPiece(r, b, i) : i \in HeadersShown(r, b)} BY PieceIs
<1> QED BY <1>1, <1>3, <1>4, <1>5

\* As many characters as a record that is cut to b.
LEMMA PieceMany ==
  ASSUME NEW r \in TextRecords, NEW b \in Nat, b <= RecordLength(r)
  PROVE  b <= Cardinality(RecordPiece(r, b))
<1>1. r.texts \in Seq(Nat) /\ r.headers \in Seq(Seq(Nat)) BY DEF TextRecords
<1>2. Len(r.texts) \in Nat /\ r.texts \in [1..Len(r.texts) -> Nat] BY <1>1, SeqFacts
<1>3. Len(r.headers) \in Nat /\ r.headers \in [1..Len(r.headers) -> Seq(Nat)] BY <1>1, SeqFacts
<1>4. RecordPiece(r, b) =
           ({0} \X Units(Cut(r.texts, b)))
           \union UNION {{i} \X HeaderPiece(r, b, i) : i \in HeadersShown(r, b)}
  BY PieceIs
<1>5. IsFiniteSet(RecordPiece(r, b)) /\ Cardinality(RecordPiece(r, b)) \in Nat BY PieceFinite
<1>6. ASSUME NEW S, IsFiniteSet(S), Cardinality(S) \in Nat, b <= Cardinality(S),
             S \subseteq RecordPiece(r, b)
      PROVE  b <= Cardinality(RecordPiece(r, b))
  <2>1. Cardinality(S) <= Cardinality(RecordPiece(r, b)) BY <1>5, <1>6, FS_Subset
  <2> QED BY <1>5, <1>6, <2>1
<1>7. CASE b <= Len(r.headers)
  <2> DEFINE S == (1..b) \X {<<0, 0>>}
  <2>1. IsFiniteSet(1..b) /\ Cardinality(1..b) = b BY FS_Interval
  <2>2. IsFiniteSet({<<0, 0>>}) /\ Cardinality({<<0, 0>>}) = 1 BY FS_Singleton
  <2>3. IsFiniteSet(S) /\ Cardinality(S) = b * 1 BY <2>1, <2>2, FS_Product
  <2>4. HeadersShown(r, b) = 1..b BY <1>3, <1>7 DEF HeadersShown
  <2>5. \A i \in 1..b : <<0, 0>> \in HeaderPiece(r, b, i) BY DEF HeaderPiece
  <2>6. S \subseteq RecordPiece(r, b)
    <3>1. ASSUME NEW i \in 1..b PROVE <<i, <<0, 0>>>> \in RecordPiece(r, b)
      BY <1>4, <2>4, <2>5
    <3> QED BY <3>1
  <2> HIDE DEF S
  <2> QED BY <1>6, <2>3, <2>6
<1>8. ASSUME NEW h, NEW n \in Nat, NEW s \in [1..n -> Nat], b <= Longest(s),
             {h} \X Units(Cut(s, b)) \subseteq RecordPiece(r, b)
      PROVE  b <= Cardinality(RecordPiece(r, b))
  <2> DEFINE S == {h} \X Units(Cut(s, b))
  <2>1. Longest(s) \in Nat /\ (Longest(s) = 0 \/ \E i \in 1..n : s[i] = Longest(s)) BY LongestFacts
  <2>2. Cut(s, b) \in [1..n -> Nat] BY CutIs
  <2>3. IsFiniteSet(Units(Cut(s, b))) /\ Cardinality(Units(Cut(s, b))) \in Nat
    BY <2>2, ListFinite
  <2>4. IsFiniteSet({h}) /\ Cardinality({h}) = 1 BY FS_Singleton
  <2>5. IsFiniteSet(S) /\ Cardinality(S) = 1 * Cardinality(Units(Cut(s, b)))
    BY <2>3, <2>4, FS_Product
  <2>6. CASE Longest(s) = 0 BY <2>6, <1>8, <1>5
  <2>7. ASSUME NEW i \in 1..n, s[i] = Longest(s) PROVE b <= Cardinality(Units(Cut(s, b)))
    <3>1. b <= s[i] BY <1>8, <2>7
    <3>2. Cardinality(Units(Cut(s, b))) >= b BY <3>1, ListMany
    <3> QED BY <3>2, <2>3
  <2>8. CASE Longest(s) # 0
    <3>1. b <= Cardinality(Units(Cut(s, b))) BY <2>1, <2>7, <2>8
    <3>2. Cardinality(S) \in Nat /\ b <= Cardinality(S) /\ S \subseteq RecordPiece(r, b)
      BY <2>3, <2>5, <3>1, <1>8
    <3> HIDE DEF S
    <3> QED BY <2>5, <3>2, <1>6
  <2> QED BY <2>6, <2>8
<1>9. CASE b > Len(r.headers)
  <2>1. CASE RecordLength(r) = Longest(r.texts)
    <3>1. {0} \X Units(Cut(r.texts, b)) \subseteq RecordPiece(r, b) BY <1>4
    <3>2. b <= Longest(r.texts) BY <2>1
    <3> QED BY <1>2, <1>8, <3>1, <3>2
  <2>2. ASSUME NEW i \in 1..Len(r.headers), RecordLength(r) = Longest(r.headers[i])
        PROVE  b <= Cardinality(RecordPiece(r, b))
    <3>1. i \in HeadersShown(r, b) BY <1>3, <1>9, <2>2 DEF HeadersShown
    <3>2. {i} \X Units(Cut(r.headers[i], b)) \subseteq {i} \X HeaderPiece(r, b, i) BY DEF HeaderPiece
    <3>3. {i} \X HeaderPiece(r, b, i) \subseteq RecordPiece(r, b) BY <1>4, <3>1
    <3>4. {i} \X Units(Cut(r.headers[i], b)) \subseteq RecordPiece(r, b) BY <3>2, <3>3
    <3>5. r.headers[i] \in Seq(Nat) BY <1>3
    <3>6. Len(r.headers[i]) \in Nat /\ r.headers[i] \in [1..Len(r.headers[i]) -> Nat] BY <3>5, SeqFacts
    <3>7. b <= Longest(r.headers[i]) BY <2>2
    <3> QED BY <3>4, <3>6, <3>7, <1>8
  <2>3. ~(RecordLength(r) = Len(r.headers)) BY <1>3, <1>9
  <2> QED BY <2>1, <2>2, <2>3, RecordLengthFacts
<1> QED BY <1>3, <1>7, <1>9

AllPieces(w, b) == UNION {{i} \X RecordPiece(w[i], b) : i \in DOMAIN w}

LEMMA RecordsFacts ==
  ASSUME NEW w \in Seq(TextRecords)
  PROVE  /\ LongestRecord(w) \in Nat
         /\ \A a \in 0..LongestRecord(w) : RecordsBytes(w, a) \in Nat
         /\ \A a, b \in 0..LongestRecord(w) :
              a < b /\ b < LongestRecord(w) => RecordsBytes(w, a) <= RecordsBytes(w, b)
         /\ \A b \in 0..LongestRecord(w) : b <= RecordsBytes(w, b)
<1>1. Len(w) \in Nat /\ DOMAIN w = 1..Len(w) /\ w \in [1..Len(w) -> TextRecords] BY SeqFacts
<1> DEFINE n == Len(w)
           most == LongestRecord(w)
           lengths == [i \in DOMAIN w |-> RecordLength(w[i])]
           C(b) == Cardinality(AllPieces(w, b))
           note(b) == IF \E i \in DOMAIN w : RecordLength(w[i]) > b THEN NoteBytes ELSE 0
<1>2. NoteBytes \in Nat BY ViewsAssumption
<1>3. \A i \in 1..n : w[i] \in TextRecords BY <1>1
<1>4. lengths \in [1..n -> Nat]
  <2>1. \A i \in 1..n : RecordLength(w[i]) \in Nat BY <1>3, RecordLengthFacts
  <2> QED BY <2>1, <1>1
<1>5. /\ most \in Nat /\ \A i \in 1..n : lengths[i] <= most
      /\ most = 0 \/ \E i \in 1..n : lengths[i] = most
  <2>1. most = Longest(lengths) BY DEF LongestRecord
  <2> HIDE DEF lengths, most
  <2> QED BY <2>1, <1>1, <1>4, LongestFacts
<1>6. most = 0 \/ \E i \in 1..n : RecordLength(w[i]) = most BY <1>1, <1>5
<1> HIDE DEF most, lengths
<1>7. ASSUME NEW b \in 0..most
      PROVE  IsFiniteSet(AllPieces(w, b)) /\ C(b) \in Nat
  <2> DEFINE F == [i \in 1..n |-> RecordPiece(w[i], b)]
  <2>1. b \in Nat BY <1>5
  <2>2. ASSUME NEW i \in 1..n PROVE IsFiniteSet(F[i])
    <3>1. IsFiniteSet(RecordPiece(w[i], b)) BY <2>1, <1>3, PieceFinite
    <3> QED BY <3>1
  <2>3. IsFiniteSet(1..n) BY <1>1, FS_Interval
  <2>4. AllPieces(w, b) = UNION {{i} \X F[i] : i \in 1..n} BY <1>1 DEF AllPieces
  <2> HIDE DEF F
  <2>5. IsFiniteSet(UNION {{i} \X F[i] : i \in 1..n}) BY <2>2, <2>3, PiecesFinite
  <2>6. IsFiniteSet(AllPieces(w, b)) BY <2>4, <2>5
  <2> QED BY <2>6, FS_CardinalityType
<1>8. ASSUME NEW b PROVE RecordsBytes(w, b) = C(b) + note(b)
  <2> DEFINE shown == [i \in DOMAIN w |-> Clipped(w[i], b)]
  <2>1. \A i \in DOMAIN w : shown[i] = Clipped(w[i], b) OBVIOUS
  <2>2. \A i \in DOMAIN w : shown[i].cut <=> RecordLength(w[i]) > b BY DEF Clipped
  <2>3. DOMAIN shown = DOMAIN w OBVIOUS
  <2>4. RecordsBytes(w, b) = Cardinality(UNION {{i} \X Characters(shown[i]) : i \in DOMAIN shown})
             + (IF \E i \in DOMAIN shown : shown[i].cut THEN NoteBytes ELSE 0)
    BY DEF RecordsBytes
  <2> HIDE DEF shown
  <2>5. UNION {{i} \X Characters(shown[i]) : i \in DOMAIN shown} = AllPieces(w, b)
    BY <2>1, <2>3 DEF AllPieces, RecordPiece
  <2>6. (\E i \in DOMAIN shown : shown[i].cut) <=> \E i \in DOMAIN w : RecordLength(w[i]) > b
    BY <2>2, <2>3
  <2> QED BY <2>4, <2>5, <2>6
<1>9. ASSUME NEW a \in 0..most, NEW b \in 0..most, a < b, b < most
      PROVE  RecordsBytes(w, a) <= RecordsBytes(w, b)
  <2>1. a \in Nat /\ b \in Nat /\ a <= b BY <1>5, <1>9
  <2>2. \A i \in 1..n : RecordPiece(w[i], a) \subseteq RecordPiece(w[i], b)
    BY <1>3, <2>1, PieceGrows
  <2>3. AllPieces(w, a) \subseteq AllPieces(w, b) BY <1>1, <2>2 DEF AllPieces
  <2>4. IsFiniteSet(AllPieces(w, b)) BY <1>7
  <2>5. C(a) <= C(b) BY <2>3, <2>4, FS_Subset
  <2>6. C(a) \in Nat /\ C(b) \in Nat BY <1>7
  <2>7. \E i \in 1..n : RecordLength(w[i]) = most BY <1>6, <1>9, <1>5
  <2>8. a < most /\ b < most BY <1>9, <1>5
  <2>9. note(a) = NoteBytes /\ note(b) = NoteBytes BY <1>1, <2>7, <2>8
  <2>10. RecordsBytes(w, a) = C(a) + note(a) /\ RecordsBytes(w, b) = C(b) + note(b) BY <1>8
  <2> HIDE DEF C, note
  <2> QED BY <2>5, <2>6, <2>9, <2>10, <1>2
<1>10. ASSUME NEW b \in 0..most
       PROVE  RecordsBytes(w, b) \in Nat /\ b <= RecordsBytes(w, b)
  <2>1. b \in Nat /\ C(b) \in Nat /\ note(b) \in Nat BY <1>2, <1>5, <1>7
  <2>2. RecordsBytes(w, b) = C(b) + note(b) BY <1>8
  <2>3. b <= C(b)
    <3>1. CASE most = 0 BY <3>1, <2>1
    <3>2. ASSUME NEW i \in 1..n, RecordLength(w[i]) = most PROVE b <= C(b)
      <4> DEFINE S == {i} \X RecordPiece(w[i], b)
      <4>1. b <= RecordLength(w[i]) BY <3>2, <1>5
      <4>2. b <= Cardinality(RecordPiece(w[i], b)) BY <4>1, <2>1, <1>3, PieceMany
      <4>3. IsFiniteSet(RecordPiece(w[i], b)) /\ Cardinality(RecordPiece(w[i], b)) \in Nat
        BY <2>1, <1>3, PieceFinite
      <4>4. IsFiniteSet({i}) /\ Cardinality({i}) = 1 BY FS_Singleton
      <4>5. IsFiniteSet(S) /\ Cardinality(S) = 1 * Cardinality(RecordPiece(w[i], b))
        BY <4>3, <4>4, FS_Product
      <4>6. S \subseteq AllPieces(w, b) BY <1>1 DEF AllPieces
      <4>7. IsFiniteSet(AllPieces(w, b)) BY <1>7
      <4> HIDE DEF S
      <4>8. Cardinality(S) <= Cardinality(AllPieces(w, b)) BY <4>6, <4>7, FS_Subset
      <4> QED BY <2>1, <4>2, <4>3, <4>5, <4>8
    <3> QED BY <3>1, <3>2, <1>6
  <2> HIDE DEF C, note
  <2> QED BY <2>1, <2>2, <2>3
<1> QED BY <1>5, <1>9, <1>10 DEF most

\* Records show as many characters as fit.
LEMMA RecordsFit ==
  ASSUME NEW w \in Seq(TextRecords)
  PROVE  \E n \in 0..LongestRecord(w) :
           /\ RecordsResult(w) = [i \in DOMAIN w |-> Clipped(w[i], n)]
           /\ RecordsBytes(w, n) <= RESULT_BYTES \/ n = 0
           /\ \A more \in n + 1..LongestRecord(w) : ~(RecordsBytes(w, more) <= RESULT_BYTES)
<1> DEFINE most == LongestRecord(w)
           fitting == {n \in 0..most : RecordsBytes(w, n) <= RESULT_BYTES}
           n == Search(most, fitting)
<1>1. RESULT_BYTES \in Nat BY ViewsAssumption
<1>2. /\ most \in Nat
      /\ \A a \in 0..most : RecordsBytes(w, a) \in Nat
      /\ \A a, b \in 0..most : a < b /\ b < most => RecordsBytes(w, a) <= RecordsBytes(w, b)
      /\ \A b \in 0..most : b <= RecordsBytes(w, b)
  BY RecordsFacts
<1>3. RecordsResult(w) = [i \in DOMAIN w |-> Clipped(w[i], n)] BY DEF RecordsResult
<1> HIDE DEF most
<1>4. fitting \in SUBSET (0..most) OBVIOUS
<1>5. ASSUME NEW a \in 0..most, NEW b \in 0..most, a < b, b < most, b \in fitting PROVE a \in fitting
  <2>1. RecordsBytes(w, a) <= RecordsBytes(w, b) BY <1>2, <1>5
  <2>2. RecordsBytes(w, a) \in Nat /\ RecordsBytes(w, b) \in Nat BY <1>2
  <2>3. RecordsBytes(w, b) <= RESULT_BYTES BY <1>5
  <2> QED BY <1>1, <2>1, <2>2, <2>3
<1>6. ASSUME NEW b \in 0..most, b > RESULT_BYTES PROVE b \notin fitting
  <2>1. b \in Nat /\ RecordsBytes(w, b) \in Nat /\ b <= RecordsBytes(w, b) BY <1>2
  <2> QED BY <1>1, <1>6, <2>1
<1>7. n \in 0..most /\ (n \in fitting \/ n = 0) /\ \A more \in n + 1..most : more \notin fitting
  <2> HIDE DEF fitting
  <2> QED BY <1>2, <1>4, <1>5, <1>6, SearchFinds
<1>8. \A more \in n + 1..most : more \in 0..most BY <1>7, <1>2
<1> HIDE DEF n
<1> QED BY <1>3, <1>7, <1>8 DEF most

-----------------------------------------------------------------------------
\* How what is shown came to be cut.
ReplyInv ==
  reply = Null \/
  \/ reply.tool = "lists" /\ IsReply(reply.whole) /\ reply.fit = Fit(reply.whole)
  \/ /\ reply.tool = "records" /\ reply.whole \in Seq(TextRecords)
     /\ reply.fit = RecordsResult(reply.whole)

LEMMA PageIsNat ==
  ASSUME NEW total \in Nat, NEW limit \in Nat \union {NoLimit, NotPaged}
  PROVE  Page(total, limit) \in Nat
<1>1. DEFAULT_ROWS \in Nat /\ MAX_ROWS \in Nat BY ViewsAssumption
<1>2. CASE limit = NotPaged
  <2>1. NotPaged # NoLimit BY ViewsAssumption
  <2> QED BY <1>2, <2>1 DEF Page
<1>3. CASE limit # NotPaged /\ limit = NoLimit
  <2>1. Page(total, limit) = Min({total, DEFAULT_ROWS}) BY <1>3 DEF Page
  <2> QED BY <2>1, <1>1, MinOfTwo
<1>4. CASE limit # NotPaged /\ limit # NoLimit
  <2>1. limit \in Nat BY <1>4
  <2>2. Page(total, limit) = Min({total, Max({1, Min({limit, MAX_ROWS})})}) BY <1>4 DEF Page
  <2> DEFINE a == Min({limit, MAX_ROWS})
             b == Max({1, a})
  <2>3. a \in Nat BY <2>1, <1>1, MinOfTwo
  <2> HIDE DEF a
  <2>4. b \in Nat BY <2>3, MaxOfTwo
  <2> HIDE DEF b
  <2>5. Min({total, b}) \in Nat BY <2>4, MinOfTwo
  <2> QED BY <2>2, <2>5 DEF a, b
<1> QED BY <1>2, <1>3, <1>4

LEMMA CutReplyInv == ASSUME CutReply PROVE ReplyInv'
<1>1. ASSUME NEW list \in Lists,
             reply' = [tool |-> "lists",
                       whole |-> [list EXCEPT !.lists = [i \in DOMAIN @ |-> Page(@[i], list.limit)]],
                       fit |-> Fit([list EXCEPT !.lists = [i \in DOMAIN @ |-> Page(@[i], list.limit)]])]
      PROVE  ReplyInv'
  <2> DEFINE pages == [i \in DOMAIN list.lists |-> Page(list.lists[i], list.limit)]
             whole == [list EXCEPT !.lists = pages]
  <2>1. list \in [lists : Seq(Nat), inner : Seq(Nat), weight : Nat \ {0},
                  limit : Nat \union {NoLimit, NotPaged}]
    BY ViewsAssumption
  <2>2. /\ list.lists \in Seq(Nat) /\ list.inner \in Seq(Nat) /\ list.weight \in Nat /\ list.weight > 0
        /\ list.limit \in Nat \union {NoLimit, NotPaged}
    BY <2>1
  <2>3. /\ Len(list.lists) \in Nat /\ DOMAIN list.lists = 1..Len(list.lists)
        /\ list.lists \in [1..Len(list.lists) -> Nat]
    BY <2>2, SeqFacts
  <2>4. Len(list.inner) \in Nat /\ list.inner \in [1..Len(list.inner) -> Nat] BY <2>2, SeqFacts
  <2>5. \A i \in 1..Len(list.lists) : Page(list.lists[i], list.limit) \in Nat
    BY <2>2, <2>3, PageIsNat
  <2>6. pages \in [1..Len(list.lists) -> Nat] BY <2>3, <2>5
  <2> HIDE DEF pages
  <2>7. whole.lists = pages /\ whole.inner = list.inner /\ whole.weight = list.weight BY <2>1
  <2>8. reply' = [tool |-> "lists", whole |-> whole, fit |-> Fit(whole)] BY <1>1 DEF pages
  <2> HIDE DEF whole
  <2>9. IsReply(whole) BY <2>2, <2>3, <2>4, <2>6, <2>7 DEF IsReply
  <2>10. reply'.tool = "lists" /\ reply'.whole = whole /\ reply'.fit = Fit(whole) BY <2>8
  <2> QED BY <2>9, <2>10 DEF ReplyInv
<1>2. ASSUME NEW records \in Texts,
             reply' = [tool |-> "records", whole |-> records, fit |-> RecordsResult(records)]
      PROVE  ReplyInv'
  <2>1. records \in Seq(TextRecords) BY ViewsAssumption DEF TextRecords
  <2>2. reply'.tool = "records" /\ reply'.whole = records /\ reply'.fit = RecordsResult(records)
    BY <1>2
  <2> QED BY <2>1, <2>2 DEF ReplyInv
<1> QED BY <1>1, <1>2 DEF CutReply

LEMMA ReplyStays == ASSUME Next, ~CutReply PROVE reply' = reply
BY DEF Next, KafkaChanges, Change, PollTopology, PollOffsets, PollLogDirs, StartFetch, EndFetch,
       FetchFails, Tick, Call, Reply

\* Replies of lists and of records fit the result, or show nothing, and one row
\* or character more would not: the halving of search finds the most there is.
THEOREM RepliesAlwaysFit == Spec => []RepliesFit
<1>1. Init => ReplyInv BY DEF Init, ReplyInv
<1>2. ReplyInv /\ [Next]_vars => ReplyInv'
  <2> SUFFICES ASSUME ReplyInv, [Next]_vars PROVE ReplyInv' OBVIOUS
  <2>1. CASE CutReply BY <2>1, CutReplyInv
  <2>2. CASE Next /\ ~CutReply
    <3>1. reply' = reply BY <2>2, ReplyStays
    <3> QED BY <3>1 DEF ReplyInv
  <2>3. CASE UNCHANGED vars BY <2>3 DEF vars, ReplyInv
  <2> QED BY <2>1, <2>2, <2>3
<1>3. ReplyInv => RepliesFit
  <2> SUFFICES ASSUME ReplyInv, reply # Null PROVE RepliesFit BY DEF RepliesFit
  <2> DEFINE w == reply.whole
  <2>1. CASE reply.tool = "lists"
    <3>1. IsReply(w) /\ reply.fit = Fit(w) BY <2>1 DEF ReplyInv
    <3>2. \E n \in 0..MostRows(w) :
           /\ Fit(w) = Render(w, n) /\ (RenderBytes(w, n) <= RESULT_BYTES \/ n = 0)
           /\ \A more \in n + 1..MostRows(w) : ~(RenderBytes(w, more) <= RESULT_BYTES)
      BY <3>1, ListsFit
    <3> QED BY <2>1, <3>1, <3>2 DEF RepliesFit, MostRows
  <2>2. CASE reply.tool # "lists"
    <3>1. w \in Seq(TextRecords) /\ reply.fit = RecordsResult(w) BY <2>2 DEF ReplyInv
    <3>2. \E n \in 0..LongestRecord(w) :
           /\ RecordsResult(w) = [i \in DOMAIN w |-> Clipped(w[i], n)]
           /\ RecordsBytes(w, n) <= RESULT_BYTES \/ n = 0
           /\ \A more \in n + 1..LongestRecord(w) : ~(RecordsBytes(w, more) <= RESULT_BYTES)
      BY <3>1, RecordsFit
    <3> QED BY <2>2, <3>1, <3>2 DEF RepliesFit
  <2> QED BY <2>1, <2>2
<1> QED BY <1>1, <1>2, <1>3, PTL DEF Spec
-----------------------------------------------------------------------------
(* Sums. *)

LEMMA UnitsIs ==
  ASSUME NEW I, NEW f \in [I -> Nat], NEW i, NEW k
  PROVE  <<i, k>> \in Units(f) <=> i \in I /\ k \in 1..f[i]
BY DEF Units

LEMMA UnitIsPair ==
  ASSUME NEW I, NEW f \in [I -> Nat], NEW u \in Units(f)
  PROVE  u = <<u[1], u[2]>> /\ u[1] \in I /\ u[2] \in 1..f[u[1]]
<1>1. PICK i \in I : u \in {i} \X (1..f[i]) BY DEF Units
<1> QED BY <1>1

\* More of each, and of more, is more.
LEMMA SumGrows ==
  ASSUME NEW J, IsFiniteSet(J), NEW I \in SUBSET J, NEW f \in [I -> Nat], NEW g \in [J -> Nat],
         \A i \in I : f[i] <= g[i]
  PROVE  SumOf(f) \in Nat /\ SumOf(g) \in Nat /\ SumOf(f) <= SumOf(g)
<1>1. IsFiniteSet(I) BY FS_Subset
<1>2. SumOf(f) \in Nat /\ SumOf(f) = Cardinality(Units(f)) BY <1>1, UnitsFinite
<1>3. IsFiniteSet(Units(g)) /\ SumOf(g) \in Nat /\ SumOf(g) = Cardinality(Units(g)) BY UnitsFinite
<1>4. Units(f) \subseteq Units(g)
  <2>1. ASSUME NEW u \in Units(f) PROVE u \in Units(g)
    <3>1. u = <<u[1], u[2]>> /\ u[1] \in I /\ u[2] \in 1..f[u[1]] BY UnitIsPair
    <3>2. f[u[1]] \in Nat /\ g[u[1]] \in Nat /\ f[u[1]] <= g[u[1]] BY <3>1
    <3>3. u[2] \in 1..g[u[1]] BY <3>1, <3>2
    <3>4. <<u[1], u[2]>> \in Units(g) BY <3>1, <3>3, UnitsIs
    <3> QED BY <3>1, <3>4
  <2> QED BY <2>1
<1>5. Cardinality(Units(f)) <= Cardinality(Units(g)) BY <1>3, <1>4, FS_Subset
<1> QED BY <1>2, <1>3, <1>5

\* What is nothing does not count.
LEMMA SumSkips ==
  ASSUME NEW J, NEW I \in SUBSET J, NEW f \in [I -> Nat], NEW g \in [J -> Nat],
         \A i \in I : f[i] = g[i], \A i \in J \ I : g[i] = 0
  PROVE  SumOf(f) = SumOf(g)
<1>1. ASSUME NEW u \in Units(f) PROVE u \in Units(g)
  <2>1. u = <<u[1], u[2]>> /\ u[1] \in I /\ u[2] \in 1..f[u[1]] BY UnitIsPair
  <2>2. <<u[1], u[2]>> \in Units(g) BY <2>1, UnitsIs
  <2> QED BY <2>1, <2>2
<1>2. ASSUME NEW u \in Units(g) PROVE u \in Units(f)
  <2>1. u = <<u[1], u[2]>> /\ u[1] \in J /\ u[2] \in 1..g[u[1]] BY UnitIsPair
  <2>2. u[1] \in I BY <2>1
  <2>3. <<u[1], u[2]>> \in Units(f) BY <2>1, <2>2, UnitsIs
  <2> QED BY <2>1, <2>3
<1>3. Units(f) = Units(g) BY <1>1, <1>2
<1> QED BY <1>3 DEF SumOf

\* One of the summands.
LEMMA SumHas ==
  ASSUME NEW I, IsFiniteSet(I), NEW f \in [I -> Nat], NEW i \in I
  PROVE  f[i] \in Nat /\ f[i] <= SumOf(f)
<1> DEFINE S == {i} \X (1..f[i])
<1>1. IsFiniteSet(Units(f)) /\ SumOf(f) \in Nat /\ SumOf(f) = Cardinality(Units(f)) BY UnitsFinite
<1>2. IsFiniteSet({i}) /\ Cardinality({i}) = 1 BY FS_Singleton
<1>3. f[i] \in Nat OBVIOUS
<1>4. IsFiniteSet(1..f[i]) /\ Cardinality(1..f[i]) = f[i] BY <1>3, FS_Interval
<1>5. Cardinality(S) = 1 * f[i] BY <1>2, <1>4, FS_Product
<1>6. S \subseteq Units(f) BY DEF Units
<1> HIDE DEF S
<1>7. Cardinality(S) <= Cardinality(Units(f)) BY <1>1, <1>6, FS_Subset
<1> QED BY <1>1, <1>3, <1>5, <1>7

\* Two parts that have nothing in common.
LEMMA SumParts ==
  ASSUME NEW J, IsFiniteSet(J), NEW g \in [J -> Nat],
         NEW A \in SUBSET J, NEW B \in SUBSET J, A \cap B = {},
         NEW f \in [A -> Nat], \A i \in A : f[i] = g[i],
         NEW h \in [B -> Nat], \A i \in B : h[i] = g[i]
  PROVE  /\ SumOf(f) \in Nat /\ SumOf(h) \in Nat /\ SumOf(g) \in Nat
         /\ SumOf(f) + SumOf(h) <= SumOf(g)
<1>1. IsFiniteSet(A) /\ IsFiniteSet(B) BY FS_Subset
<1>2. IsFiniteSet(Units(f)) /\ SumOf(f) \in Nat /\ SumOf(f) = Cardinality(Units(f)) BY <1>1, UnitsFinite
<1>3. IsFiniteSet(Units(h)) /\ SumOf(h) \in Nat /\ SumOf(h) = Cardinality(Units(h)) BY <1>1, UnitsFinite
<1>4. IsFiniteSet(Units(g)) /\ SumOf(g) \in Nat /\ SumOf(g) = Cardinality(Units(g)) BY UnitsFinite
<1>5. ASSUME NEW u \in Units(f) PROVE u \in Units(g) /\ u \notin Units(h)
  <2>1. u = <<u[1], u[2]>> /\ u[1] \in A /\ u[2] \in 1..f[u[1]] BY UnitIsPair
  <2>2. <<u[1], u[2]>> \in Units(g) BY <2>1, UnitsIs
  <2>3. u[1] \notin B BY <2>1
  <2>4. ~(<<u[1], u[2]>> \in Units(h)) BY <2>3, UnitsIs
  <2> QED BY <2>1, <2>2, <2>4
<1>6. ASSUME NEW u \in Units(h) PROVE u \in Units(g)
  <2>1. u = <<u[1], u[2]>> /\ u[1] \in B /\ u[2] \in 1..h[u[1]] BY UnitIsPair
  <2>2. <<u[1], u[2]>> \in Units(g) BY <2>1, UnitsIs
  <2> QED BY <2>1, <2>2
<1>7. Units(f) \cap Units(h) = {} /\ Units(f) \cup Units(h) \subseteq Units(g) BY <1>5, <1>6
<1> DEFINE F == Units(f)
           H == Units(h)
<1> HIDE DEF F, H
<1>8. Cardinality(F \cup H) = Cardinality(F) + Cardinality(H) - Cardinality(F \cap H)
  BY <1>2, <1>3, FS_Union DEF F, H
<1>9. Cardinality(F \cap H) = 0
  <2>1. F \cap H = {} BY <1>7 DEF F, H
  <2>2. Cardinality({}) = 0 BY FS_EmptySet
  <2> QED BY <2>1, <2>2
<1>10. Cardinality(F \cup H) <= Cardinality(Units(g)) BY <1>4, <1>7, FS_Subset DEF F, H
<1> QED BY <1>2, <1>3, <1>4, <1>8, <1>9, <1>10 DEF F, H

\* A sum of sizes is the size of the whole.
LEMMA SumOfSizes ==
  ASSUME NEW I, IsFiniteSet(I), NEW F, \A i \in I : IsFiniteSet(F[i])
  PROVE  LET whole == UNION {{i} \X F[i] : i \in I} IN
         IsFiniteSet(whole) /\ SumOf([i \in I |-> Cardinality(F[i])]) = Cardinality(whole)
<1> DEFINE whole == UNION {{i} \X F[i] : i \in I}
           sizes == [i \in I |-> Cardinality(F[i])]
           Numbers(i) == Bijection(1..Cardinality(F[i]), F[i])
           number == [i \in I |-> CHOOSE b : b \in Numbers(i)]
           place == [u \in Units(sizes) |-> <<u[1], number[u[1]][u[2]]>>]
<1>1. ASSUME NEW i \in I PROVE Cardinality(F[i]) \in Nat /\ number[i] \in Numbers(i)
  <2>1. Cardinality(F[i]) \in Nat BY FS_CardinalityType
  <2>2. \E b : b \in Numbers(i)
    <3>1. ExistsBijection(1..Cardinality(F[i]), F[i]) BY FS_CardinalityType
    <3> QED BY <3>1 DEF ExistsBijection
  <2> HIDE DEF Numbers
  <2> QED BY <2>1, <2>2
<1>2. ASSUME NEW i \in I
      PROVE  /\ \A k \in 1..sizes[i] : number[i][k] \in F[i]
             /\ \A k, l \in 1..sizes[i] : number[i][k] = number[i][l] => k = l
             /\ \A x \in F[i] : \E k \in 1..sizes[i] : number[i][k] = x
  <2> HIDE DEF number
  <2>1. number[i] \in Bijection(1..sizes[i], F[i]) BY <1>1
  <2> HIDE DEF sizes
  <2> QED BY <2>1 DEF Bijection, Injection, Surjection, IsInjective
<1>3. sizes \in [I -> Nat] BY <1>1
<1>4. IsFiniteSet(Units(sizes)) /\ SumOf(sizes) = Cardinality(Units(sizes))
  <2> HIDE DEF sizes
  <2> QED BY <1>3, UnitsFinite
<1>5. ASSUME NEW u \in Units(sizes)
      PROVE  u = <<u[1], u[2]>> /\ u[1] \in I /\ u[2] \in 1..sizes[u[1]]
  <2> HIDE DEF sizes
  <2> QED BY <1>3, UnitIsPair
<1>6. ASSUME NEW i \in I, NEW k \in 1..sizes[i] PROVE <<i, k>> \in Units(sizes)
  <2> HIDE DEF sizes
  <2> QED BY <1>3, UnitsIs
<1> HIDE DEF number, sizes
<1>7. ASSUME NEW u \in Units(sizes) PROVE place[u] \in whole
  <2>1. u[1] \in I /\ u[2] \in 1..sizes[u[1]] BY <1>5
  <2>2. number[u[1]][u[2]] \in F[u[1]] BY <1>2, <2>1
  <2> QED BY <2>1, <2>2
<1>8. ASSUME NEW u \in Units(sizes), NEW v \in Units(sizes), place[u] = place[v] PROVE u = v
  <2>1. u = <<u[1], u[2]>> /\ u[1] \in I /\ u[2] \in 1..sizes[u[1]] BY <1>5
  <2>2. v = <<v[1], v[2]>> /\ v[1] \in I /\ v[2] \in 1..sizes[v[1]] BY <1>5
  <2>3. u[1] = v[1] /\ number[u[1]][u[2]] = number[v[1]][v[2]] BY <1>8
  <2>4. u[2] = v[2] BY <1>2, <2>1, <2>2, <2>3
  <2> QED BY <2>1, <2>2, <2>3, <2>4
<1>9. ASSUME NEW x \in whole PROVE \E u \in Units(sizes) : place[u] = x
  <2>1. PICK i \in I : x \in {i} \X F[i] OBVIOUS
  <2>2. PICK y \in F[i] : x = <<i, y>> BY <2>1
  <2>3. PICK k \in 1..sizes[i] : number[i][k] = y BY <1>2, <2>2
  <2>4. <<i, k>> \in Units(sizes) BY <1>6
  <2>5. place[<<i, k>>] = <<i, number[i][k]>> BY <2>4
  <2> QED BY <2>2, <2>3, <2>4, <2>5
<1>10. DOMAIN place = Units(sizes) OBVIOUS
<1> HIDE DEF whole, place
<1>11. place \in [Units(sizes) -> whole] BY <1>7, <1>10 DEF place
<1>12. place \in Bijection(Units(sizes), whole)
  BY <1>8, <1>9, <1>11 DEF Bijection, Injection, Surjection, IsInjective
<1>13. IsFiniteSet(whole) /\ Cardinality(whole) = Cardinality(Units(sizes))
  <2>1. ExistsBijection(Units(sizes), whole) BY <1>12 DEF ExistsBijection
  <2> QED BY <1>4, <2>1, FS_Bijection
<1> QED BY <1>4, <1>13 DEF whole, sizes

-----------------------------------------------------------------------------
(* Log dirs. *)

LogsOf(dirs) ==
  UNION {{[dir |-> dir.path, broker |-> dir.broker, log |-> r] : r \in Replicas(dir)} : dir \in dirs}
KeptOf(dirs) == {l \in LogsOf(dirs) : ~l.log.future}
KeptAt(dirs, p) == {l \in KeptOf(dirs) : l.log.partition = p}
LogsAt(dirs, b) == {l \in LogsOf(dirs) : l.broker = b}
SizeOf(S) == [l \in S |-> l.log.size]

LEMMA TableIs ==
  ASSUME NEW dirs
  PROVE  LogDirTable(dirs) =
           [partitions |-> [p \in {l.log.partition : l \in KeptOf(dirs)} |->
                              [size |-> Max({l.log.size : l \in KeptAt(dirs, p)}),
                               disk |-> SumOf(SizeOf(KeptAt(dirs, p)))]],
            brokers |-> [b \in {dir.broker : dir \in dirs} |->
                           [size |-> SumOf(SizeOf(LogsAt(dirs, b))),
                            replicas |-> Cardinality({l \in KeptOf(dirs) : l.broker = b})]]]
BY DEF LogDirTable, LogsOf, KeptOf, KeptAt, LogsAt, SizeOf

LEMMA LogsFacts ==
  ASSUME NEW dirs \in Disks
  PROVE  /\ IsFiniteSet(dirs) /\ IsFiniteSet(LogsOf(dirs))
         /\ \A l \in LogsOf(dirs) : l.log.size \in Nat /\ l.broker \in {dir.broker : dir \in dirs}
         /\ {dir.broker : dir \in dirs} \subseteq Brokers
<1>1. /\ IsFiniteSet(dirs)
      /\ \A dir \in dirs :
           /\ dir.broker \in Brokers /\ IsFiniteSet(dir.replicas)
           /\ \A l \in dir.replicas : l.size \in Nat
  BY ViewsAssumption
<1> DEFINE Here(dir) == {[dir |-> dir.path, broker |-> dir.broker, log |-> r] : r \in Replicas(dir)}
           all == {Here(dir) : dir \in dirs}
           each == [dir \in dirs |-> Here(dir)]
<1>2. ASSUME NEW dir \in dirs PROVE IsFiniteSet(Here(dir))
  <2> DEFINE entry == [r \in Replicas(dir) |-> [dir |-> dir.path, broker |-> dir.broker, log |-> r]]
  <2>1. IsFiniteSet(Replicas(dir))
    <3>1. IsFiniteSet({}) BY FS_EmptySet
    <3> QED BY <3>1, <1>1 DEF Replicas
  <2>2. entry \in Surjection(Replicas(dir), Here(dir)) BY DEF Surjection
  <2> HIDE DEF entry, Here
  <2> QED BY <2>1, <2>2, FS_Surjection
<1>3. each \in Surjection(dirs, all) BY DEF Surjection
<1>4. IsFiniteSet(all)
  <2> HIDE DEF each, all
  <2> QED BY <1>1, <1>3, FS_Surjection
<1>5. \A T \in all : IsFiniteSet(T) BY <1>2
<1>6. LogsOf(dirs) = UNION all BY DEF LogsOf
<1>7. IsFiniteSet(LogsOf(dirs))
  <2> HIDE DEF all
  <2> QED BY <1>4, <1>5, <1>6, FS_UNION
<1>8. ASSUME NEW l \in LogsOf(dirs)
      PROVE  l.log.size \in Nat /\ l.broker \in {dir.broker : dir \in dirs}
  <2>1. PICK dir \in dirs : l \in Here(dir) BY <1>6
  <2>2. PICK r \in Replicas(dir) : l = [dir |-> dir.path, broker |-> dir.broker, log |-> r] BY <2>1
  <2>3. r \in dir.replicas BY <2>2 DEF Replicas
  <2> QED BY <1>1, <2>2, <2>3
<1> QED BY <1>1, <1>7, <1>8

LEMMA LogDirFacts ==
  ASSUME NEW dirs \in Disks, NEW d, d = LogDirTable(dirs)
  PROVE  /\ IsFiniteSet(DOMAIN d.partitions)
         /\ \A p \in DOMAIN d.partitions :
              /\ d.partitions[p].size \in Nat /\ d.partitions[p].disk \in Nat
              /\ d.partitions[p].size <= d.partitions[p].disk
         /\ DOMAIN d.brokers \subseteq Brokers /\ IsFiniteSet(DOMAIN d.brokers)
         /\ \A b \in DOMAIN d.brokers : d.brokers[b] \in [size : Nat, replicas : Nat]
         /\ SumOf([p \in DOMAIN d.partitions |-> d.partitions[p].disk])
              <= SumOf([b \in DOMAIN d.brokers |-> d.brokers[b].size])
<1> DEFINE logs == LogsOf(dirs)
           logged == KeptOf(dirs)
           parts == {l.log.partition : l \in logged}
           brokers == {dir.broker : dir \in dirs}
<1>1. /\ IsFiniteSet(logs) /\ brokers \subseteq Brokers
      /\ \A l \in logs : l.log.size \in Nat /\ l.broker \in brokers
  BY LogsFacts
<1>2. /\ d.partitions = [p \in parts |-> [size |-> Max({l.log.size : l \in KeptAt(dirs, p)}),
                                         disk |-> SumOf(SizeOf(KeptAt(dirs, p)))]]
      /\ d.brokers = [b \in brokers |->
                        [size |-> SumOf(SizeOf(LogsAt(dirs, b))),
                         replicas |-> Cardinality({l \in logged : l.broker = b})]]
  BY TableIs
<1>3. logged \subseteq logs /\ \A p : KeptAt(dirs, p) \subseteq logged
  BY DEF KeptOf, KeptAt
<1>4. \A b : LogsAt(dirs, b) \subseteq logs BY DEF LogsAt
<1>5. \A p : \A l \in logged : l \in KeptAt(dirs, p) <=> l.log.partition = p BY DEF KeptAt
<1>6. \A b : \A l \in logs : l \in LogsAt(dirs, b) <=> l.broker = b BY DEF LogsAt
<1> HIDE DEF logs, logged, brokers
<1>7. ASSUME NEW S \in SUBSET logs
      PROVE  /\ IsFiniteSet(S) /\ SizeOf(S) \in [S -> Nat] /\ SumOf(SizeOf(S)) \in Nat
             /\ IsFiniteSet(Units(SizeOf(S))) /\ SumOf(SizeOf(S)) = Cardinality(Units(SizeOf(S)))
  <2>1. IsFiniteSet(S) BY <1>1, FS_Subset
  <2>2. SizeOf(S) \in [S -> Nat] BY <1>1 DEF SizeOf
  <2> QED BY <2>1, <2>2, UnitsFinite
<1>8. IsFiniteSet(logged) BY <1>3, <1>7
<1>9. IsFiniteSet(parts)
  <2> DEFINE at == [l \in logged |-> l.log.partition]
  <2>1. at \in Surjection(logged, parts) BY DEF Surjection
  <2> HIDE DEF at, parts
  <2> QED BY <1>8, <2>1, FS_Surjection
<1>10. IsFiniteSet(brokers)
  <2>1. IsFiniteSet(Brokers) BY ViewsAssumption
  <2> QED BY <1>1, <2>1, FS_Subset
<1>11. ASSUME NEW p \in parts
       PROVE  /\ d.partitions[p].size \in Nat /\ d.partitions[p].disk \in Nat
              /\ d.partitions[p].size <= d.partitions[p].disk
              /\ d.partitions[p].disk = Cardinality(Units(SizeOf(KeptAt(dirs, p))))
              /\ IsFiniteSet(Units(SizeOf(KeptAt(dirs, p))))
  <2> DEFINE S == KeptAt(dirs, p)
             sizes == {l.log.size : l \in S}
  <2>1. S \in SUBSET logs BY <1>3
  <2>2. \E l \in logged : l.log.partition = p OBVIOUS
  <2>3. S # {} BY <1>5, <2>2
  <2> HIDE DEF S
  <2>4. /\ IsFiniteSet(S) /\ SizeOf(S) \in [S -> Nat] /\ SumOf(SizeOf(S)) \in Nat
        /\ IsFiniteSet(Units(SizeOf(S))) /\ SumOf(SizeOf(S)) = Cardinality(Units(SizeOf(S)))
    BY <1>7, <2>1
  <2>5. SizeOf(S) \in Surjection(S, sizes) BY DEF Surjection, SizeOf
  <2>6. IsFiniteSet(sizes)
    <3> HIDE DEF sizes
    <3> QED BY <2>4, <2>5, FS_Surjection
  <2>7. sizes # {} /\ sizes \subseteq Nat /\ sizes \in SUBSET Int BY <2>1, <2>3, <1>1
  <2>8. Max(sizes) \in sizes
    <3> HIDE DEF sizes
    <3> QED BY <2>6, <2>7, GreatestOf
  <2>9. PICK l \in S : Max(sizes) = l.log.size BY <2>8
  <2>10. SizeOf(S)[l] \in Nat /\ SizeOf(S)[l] <= SumOf(SizeOf(S)) BY <2>4, SumHas
  <2>11. SizeOf(S)[l] = l.log.size BY DEF SizeOf
  <2>12. d.partitions[p].size = Max(sizes) /\ d.partitions[p].disk = SumOf(SizeOf(S)) BY <1>2 DEF S
  <2> QED BY <2>4, <2>9, <2>10, <2>11, <2>12 DEF S
<1>12. ASSUME NEW b \in brokers
       PROVE  /\ d.brokers[b] \in [size : Nat, replicas : Nat]
              /\ d.brokers[b].size = Cardinality(Units(SizeOf(LogsAt(dirs, b))))
              /\ IsFiniteSet(Units(SizeOf(LogsAt(dirs, b))))
  <2> DEFINE S == LogsAt(dirs, b)
             R == {l \in logged : l.broker = b}
  <2>1. S \in SUBSET logs BY <1>4
  <2> HIDE DEF S
  <2>2. /\ SumOf(SizeOf(S)) \in Nat /\ IsFiniteSet(Units(SizeOf(S)))
        /\ SumOf(SizeOf(S)) = Cardinality(Units(SizeOf(S)))
    BY <1>7, <2>1
  <2>3. R \in SUBSET logged OBVIOUS
  <2>4. Cardinality(R) \in Nat
    <3> HIDE DEF R
    <3>1. IsFiniteSet(R) BY <1>8, <2>3, FS_Subset
    <3> QED BY <3>1, FS_CardinalityType
  <2>5. d.brokers[b] = [size |-> SumOf(SizeOf(S)), replicas |-> Cardinality(R)] BY <1>2 DEF S
  <2> HIDE DEF R
  <2> QED BY <2>2, <2>4, <2>5 DEF S
<1>13. DOMAIN d.partitions = parts /\ DOMAIN d.brokers = brokers BY <1>2
<1> DEFINE P == [p \in parts |-> Units(SizeOf(KeptAt(dirs, p)))]
           B == [b \in brokers |-> Units(SizeOf(LogsAt(dirs, b)))]
           left == UNION {{p} \X P[p] : p \in parts}
           right == UNION {{b} \X B[b] : b \in brokers}
           move == [x \in left |-> <<x[2][1].broker, x[2]>>]
<1> HIDE DEF parts
<1>14. /\ IsFiniteSet(left)
       /\ SumOf([p \in parts |-> d.partitions[p].disk]) = Cardinality(left)
  <2>1. \A p \in parts : IsFiniteSet(P[p]) BY <1>11
  <2>2. [p \in parts |-> d.partitions[p].disk] = [p \in parts |-> Cardinality(P[p])] BY <1>11
  <2>3. IsFiniteSet(left) /\ SumOf([p \in parts |-> Cardinality(P[p])]) = Cardinality(left)
    <3> HIDE DEF P
    <3> QED BY <2>1, <1>9, SumOfSizes
  <2> HIDE DEF left, P
  <2> QED BY <2>2, <2>3
<1>15. /\ IsFiniteSet(right)
       /\ SumOf([b \in brokers |-> d.brokers[b].size]) = Cardinality(right)
  <2>1. \A b \in brokers : IsFiniteSet(B[b]) BY <1>12
  <2>2. [b \in brokers |-> d.brokers[b].size] = [b \in brokers |-> Cardinality(B[b])] BY <1>12
  <2>3. IsFiniteSet(right) /\ SumOf([b \in brokers |-> Cardinality(B[b])]) = Cardinality(right)
    <3> HIDE DEF B
    <3> QED BY <2>1, <1>10, SumOfSizes
  <2> HIDE DEF right, B
  <2> QED BY <2>2, <2>3
<1>16. ASSUME NEW x \in left
       PROVE  /\ x = <<x[1], x[2]>> /\ x[1] = x[2][1].log.partition
              /\ move[x] \in right
  <2>1. PICK p \in parts : x \in {p} \X P[p] OBVIOUS
  <2>2. x = <<p, x[2]>> /\ x[2] \in Units(SizeOf(KeptAt(dirs, p))) BY <2>1
  <2>3. SizeOf(KeptAt(dirs, p)) \in [KeptAt(dirs, p) -> Nat] BY <1>3, <1>7
  <2>4. /\ x[2] = <<x[2][1], x[2][2]>> /\ x[2][1] \in KeptAt(dirs, p)
        /\ x[2][2] \in 1..SizeOf(KeptAt(dirs, p))[x[2][1]]
    BY <2>2, <2>3, UnitIsPair
  <2> DEFINE l == x[2][1]
  <2>5. l \in logged /\ l \in logs /\ l.log.partition = p BY <2>4, <1>3, <1>5
  <2>6. l.broker \in brokers /\ l \in LogsAt(dirs, l.broker) BY <2>5, <1>1, <1>6
  <2>7. SizeOf(LogsAt(dirs, l.broker)) \in [LogsAt(dirs, l.broker) -> Nat] BY <1>4, <1>7
  <2>8. SizeOf(LogsAt(dirs, l.broker))[l] = l.log.size /\ SizeOf(KeptAt(dirs, p))[l] = l.log.size
    BY <2>4, <2>6 DEF SizeOf
  <2>9. <<l, x[2][2]>> \in Units(SizeOf(LogsAt(dirs, l.broker))) BY <2>4, <2>6, <2>7, <2>8, UnitsIs
  <2>10. move[x] = <<l.broker, x[2]>> OBVIOUS
  <2>11. x[2] \in B[l.broker] BY <2>4, <2>6, <2>9
  <2>12. <<l.broker, x[2]>> \in {l.broker} \X B[l.broker] BY <2>11
  <2> HIDE DEF B, move
  <2>13. <<l.broker, x[2]>> \in right BY <2>6, <2>12
  <2> QED BY <2>2, <2>5, <2>10, <2>13
<1>17. ASSUME NEW x \in left, NEW y \in left, move[x] = move[y] PROVE x = y
  <2>1. x[2] = y[2] BY <1>17
  <2> HIDE DEF left, move
  <2> QED BY <2>1, <1>16
<1>18. DOMAIN move = left OBVIOUS
<1>19. move \in Injection(left, right)
  <2>1. move \in [left -> right]
    <3> HIDE DEF left, right
    <3> QED BY <1>16
  <2> HIDE DEF left, right, move
  <2> QED BY <2>1, <1>17 DEF Injection, IsInjective
<1>20. Cardinality(left) <= Cardinality(right)
  <2> HIDE DEF left, right, move
  <2> QED BY <1>15, <1>19, FS_Injection
<1> HIDE DEF left, right
<1> QED BY <1>1, <1>9, <1>10, <1>11, <1>12, <1>13, <1>14, <1>15, <1>20

-----------------------------------------------------------------------------
(* The tables, and what pages make of them. *)

IsTopology(t) == t \in Topologies /\ IsFiniteSet(Held(t.group))
IsOffsets(o) == o # Null => IsFiniteSet(DOMAIN o) /\ \A p \in DOMAIN o : o[p] \in Nat
IsMarks(m) ==
  m # Null =>
    /\ IsFiniteSet(DOMAIN m)
    /\ \A p \in DOMAIN m : m[p].low \in Nat /\ m[p].high \in Nat /\ m[p].low <= m[p].high
IsLogDirs(d) == d # Null => \E dirs \in Disks : d = LogDirTable(dirs)

TablesInv ==
  /\ topology = Null \/ IsTopology(topology)
  /\ IsOffsets(offsets) /\ IsMarks(marks) /\ IsLogDirs(logDirs)

LEMMA PartitionsFinite ==
  ASSUME NEW t, t = Null \/ IsTopology(t)
  PROVE  IsFiniteSet(PartitionIds(t))
<1>1. CASE t = Null BY <1>1, FS_EmptySet DEF PartitionIds
<1>2. CASE t # Null
  <2>1. t.parts \in Seq([replicas : SUBSET Brokers, leader : Int, isr : SUBSET Brokers])
    BY <1>2 DEF IsTopology, Topologies
  <2>2. Len(t.parts) \in Nat /\ DOMAIN t.parts = 1..Len(t.parts) BY <2>1, SeqFacts
  <2>3. IsFiniteSet(1..Len(t.parts)) BY <2>2, FS_Interval
  <2> QED BY <1>2, <2>2, <2>3 DEF PartitionIds
<1> QED BY <1>1, <1>2

LEMMA RowSize ==
  ASSUME NEW t, NEW m, NEW d, NEW p
  PROVE  PartitionRow(t, m, d, p).size =
           IF PartitionStorage(d, p) = Null THEN Null ELSE PartitionStorage(d, p).size
BY DEF PartitionRow

LEMMA RowMeasured ==
  ASSUME NEW t, NEW m, NEW d, NEW p, HasMark(m, p)
  PROVE  /\ PartitionRow(t, m, d, p).high = m[p].high
         /\ Retained(PartitionRow(t, m, d, p)) = Retained(m[p])
BY DEF PartitionRow, Retained

LEMMA RowUnmeasured ==
  ASSUME NEW t, NEW m, NEW d, NEW p, ~HasMark(m, p)
  PROVE  PartitionRow(t, m, d, p).high = 0 /\ Retained(PartitionRow(t, m, d, p)) = 0
BY DEF PartitionRow, Retained, Zero

LEMMA RowCounts ==
  ASSUME NEW t, NEW m, IsMarks(m), NEW d, NEW p
  PROVE  PartitionRow(t, m, d, p).high \in Nat /\ Retained(PartitionRow(t, m, d, p)) \in Nat
<1>1. CASE HasMark(m, p)
  <2>1. m[p].high \in Nat /\ Retained(m[p]) \in Nat BY <1>1 DEF HasMark, IsMarks, Retained
  <2> QED BY <1>1, <2>1, RowMeasured
<1>2. CASE ~HasMark(m, p) BY <1>2, RowUnmeasured
<1> QED BY <1>1, <1>2

LEMMA TopicPageIs ==
  ASSUME TopicPage # Null
  PROVE  /\ Exists(topology) /\ topology # Null
         /\ TopicPage = TopicDetail(topology, marks, logDirs, rate)
         /\ TopicsPage = {TopicRow(topology, marks, logDirs, rate)}
BY DEF TopicPage, TopicsPage, Exists

Rows == [p \in PartitionIds(topology) |-> PartitionRow(topology, marks, logDirs, p)]

LEMMA DetailIs ==
  ASSUME TopicPage # Null
  PROVE  /\ TopicPage.partitions = Rows /\ TopicPage.storage = TopicStorage(logDirs)
         /\ TopicPage.retained = SumOf([p \in PartitionIds(topology) |-> Retained(Rows[p])])
         /\ TopicPage.produced = SumOf([p \in PartitionIds(topology) |-> Rows[p].high])
         /\ TopicPage.underReplicated <=> \E p \in PartitionIds(topology) : UnderReplicated(Rows[p].part)
<1>1. DOMAIN Rows = PartitionIds(topology) BY DEF Rows
<1>2. TopicPage = TopicDetail(topology, marks, logDirs, rate) BY TopicPageIs
<1> DEFINE rows == [p \in PartitionIds(topology) |-> PartitionRow(topology, marks, logDirs, p)]
<1>3. TopicDetail(topology, marks, logDirs, rate) =
        [partitions |-> Rows, storage |-> TopicStorage(logDirs),
         retained |-> SumOf([p \in DOMAIN Rows |-> Retained(Rows[p])]),
         produced |-> SumOf([p \in DOMAIN Rows |-> Rows[p].high]),
         rate |-> IF rate = Null THEN 0 ELSE rate,
         groups |-> Cardinality(GroupsForTopic(topology)),
         underReplicated |-> \E p \in DOMAIN Rows : UnderReplicated(Rows[p].part)]
  BY DEF TopicDetail, Rows
<1> QED BY <1>1, <1>2, <1>3

\* The sums over the table are those over the partitions of the topic, if it has
\* no others.
LEMMA MarkSums ==
  ASSUME TablesInv, marks # Null, DOMAIN marks \subseteq PartitionIds(topology)
  PROVE  /\ RetainedIn(marks) = SumOf([p \in PartitionIds(topology) |-> Retained(Rows[p])])
         /\ ProducedIn(marks) = SumOf([p \in PartitionIds(topology) |-> Rows[p].high])
<1> DEFINE J == PartitionIds(topology)
           I == DOMAIN marks
<1>1. ASSUME NEW p \in J
      PROVE  /\ Retained(Rows[p]) \in Nat /\ Rows[p].high \in Nat
             /\ p \in I => Retained(Rows[p]) = Retained(marks[p]) /\ Rows[p].high = marks[p].high
             /\ p \notin I => Retained(Rows[p]) = 0 /\ Rows[p].high = 0
  <2>1. Rows[p] = PartitionRow(topology, marks, logDirs, p) BY DEF Rows
  <2>2. HasMark(marks, p) <=> p \in I BY DEF HasMark
  <2>3. IsMarks(marks) BY DEF TablesInv
  <2>4. /\ Retained(Rows[p]) \in Nat /\ Rows[p].high \in Nat
        /\ HasMark(marks, p) => Rows[p].high = marks[p].high /\ Retained(Rows[p]) = Retained(marks[p])
        /\ ~HasMark(marks, p) => Rows[p].high = 0 /\ Retained(Rows[p]) = 0
    BY <2>1, <2>3, RowCounts, RowMeasured, RowUnmeasured
  <2> QED BY <2>2, <2>4
<1> DEFINE f == [p \in I |-> Retained(marks[p])]
           g == [p \in J |-> Retained(Rows[p])]
           h == [p \in I |-> marks[p].high]
           k == [p \in J |-> Rows[p].high]
<1>2. f \in [I -> Nat] /\ g \in [J -> Nat] /\ h \in [I -> Nat] /\ k \in [J -> Nat] BY <1>1
<1>3. /\ \A p \in I : f[p] = g[p] /\ h[p] = k[p]
      /\ \A p \in J \ I : g[p] = 0 /\ k[p] = 0
  BY <1>1
<1>4. RetainedIn(marks) = SumOf(f) /\ ProducedIn(marks) = SumOf(h) BY DEF RetainedIn, ProducedIn
<1>5. I \in SUBSET J OBVIOUS
<1> HIDE DEF f, g, h, k, I, J
<1>6. SumOf(f) = SumOf(g) BY <1>2, <1>3, <1>5, SumSkips
<1>7. SumOf(h) = SumOf(k) BY <1>2, <1>3, <1>5, SumSkips
<1> QED BY <1>4, <1>6, <1>7 DEF g, k, J

\* What the partitions of a topic take on disk.
LEMMA StorageFacts ==
  ASSUME TablesInv, logDirs # Null, DOMAIN logDirs.partitions # {}
  PROVE  LET s == TopicStorage(logDirs)
             sized == {p \in PartitionIds(topology) : Rows[p].size # Null} IN
         /\ s.size \in Nat /\ s.disk \in Nat /\ s.size <= s.disk
         /\ SumOf([p \in sized |-> Rows[p].size]) <= s.size
         /\ s.disk <= SumOf([b \in DOMAIN logDirs.brokers |-> logDirs.brokers[b].size])
<1>1. PICK dirs \in Disks : logDirs = LogDirTable(dirs) BY DEF TablesInv, IsLogDirs
<1> DEFINE J == DOMAIN logDirs.partitions
           parts == logDirs.partitions
           sized == {p \in PartitionIds(topology) : Rows[p].size # Null}
           f == [p \in J |-> parts[p].size]
           g == [p \in J |-> parts[p].disk]
           h == [p \in sized |-> Rows[p].size]
<1>2. /\ IsFiniteSet(J)
      /\ \A p \in J : parts[p].size \in Nat /\ parts[p].disk \in Nat /\ parts[p].size <= parts[p].disk
      /\ SumOf(g) <= SumOf([b \in DOMAIN logDirs.brokers |-> logDirs.brokers[b].size])
  BY <1>1, LogDirFacts
<1>3. TopicStorage(logDirs) = [size |-> SumOf(f), disk |-> SumOf(g)] BY DEF TopicStorage
<1>4. ASSUME NEW p \in sized PROVE p \in J /\ Rows[p].size = parts[p].size
  <2>1. Rows[p] = PartitionRow(topology, marks, logDirs, p) BY DEF Rows
  <2>2. IsMarks(marks) BY DEF TablesInv
  <2>3. Rows[p].size = IF PartitionStorage(logDirs, p) = Null THEN Null
                       ELSE PartitionStorage(logDirs, p).size
    BY <2>1, RowSize
  <2>4. PartitionStorage(logDirs, p) # Null BY <2>3
  <2> QED BY <2>3, <2>4 DEF PartitionStorage
<1>5. f \in [J -> Nat] /\ g \in [J -> Nat] /\ h \in [sized -> Nat] /\ sized \in SUBSET J
  BY <1>2, <1>4
<1>6. (\A p \in J : f[p] <= g[p]) /\ (\A p \in sized : h[p] <= f[p]) BY <1>2, <1>4
<1>7. J \in SUBSET J OBVIOUS
<1> HIDE DEF f, g, h, J, sized
<1>8. SumOf(f) \in Nat /\ SumOf(g) \in Nat /\ SumOf(f) <= SumOf(g) BY <1>2, <1>5, <1>6, <1>7, SumGrows
<1>9. SumOf(h) <= SumOf(f) BY <1>2, <1>5, <1>6, SumGrows
<1> QED BY <1>2, <1>3, <1>8, <1>9 DEF sized, h

\* The lags of the group, as pages have them.
Lags ==
  LET at == Positions(topology.group, offsets) IN
  [p \in DOMAIN at |-> LagOf(at[p], HighWatermark(marks, p))]

KnownLags == {p \in DOMAIN Lags : Lags[p] # Null}

LEMMA GroupPageIs ==
  ASSUME topology # Null
  PROVE  LET g == GroupPage IN
         /\ g.group = topology.group
         /\ DOMAIN g.offsets = DOMAIN Lags
         /\ \A p \in DOMAIN Lags :
              g.offsets[p].lag = Lags[p] /\ g.offsets[p].owner = Owner(topology.group, p)
         /\ g.total = IF offsets # Null THEN SumOf([p \in KnownLags |-> Lags[p]]) ELSE Null
         /\ g.complete <=> \A p \in DOMAIN Lags : Lags[p] # Null
         /\ PositionsLag(Positions(topology.group, offsets), offsets, marks)
              = [total |-> g.total, complete |-> g.complete]
<1> DEFINE at == Positions(topology.group, offsets)
           rows == [p \in DOMAIN at |->
                      [at |-> at[p], end |-> HighWatermark(marks, p),
                       lag |-> LagOf(at[p], HighWatermark(marks, p)),
                       owner |-> Owner(topology.group, p)]]
           sums == LagTotals(offsets # Null, Lags)
<1>1. DOMAIN rows = DOMAIN Lags /\ \A p \in DOMAIN Lags : rows[p].lag = Lags[p]
  BY DEF Lags
<1>2. \A p \in DOMAIN Lags : rows[p].owner = Owner(topology.group, p) BY DEF Lags
<1>3. [p \in DOMAIN rows |-> rows[p].lag] = Lags BY DEF Lags
<1>4. GroupLag(topology.group, offsets, marks) =
        [offsets |-> rows, sums |-> LagTotals(offsets # Null, [p \in DOMAIN rows |-> rows[p].lag])]
  BY DEF GroupLag
<1>5. PositionsLag(at, offsets, marks) = sums BY DEF PositionsLag, Lags
<1> HIDE DEF rows
<1>6. GroupPage = [group |-> topology.group, offsets |-> rows, total |-> sums.total,
                   complete |-> sums.complete]
  BY <1>3, <1>4 DEF GroupPage, GroupDetail
<1>7. sums = [total |-> IF offsets # Null THEN SumOf([p \in KnownLags |-> Lags[p]]) ELSE Null,
              complete |-> \A p \in DOMAIN Lags : Lags[p] # Null]
  BY DEF LagTotals, KnownLags
<1> HIDE DEF sums
<1> QED BY <1>1, <1>2, <1>5, <1>6, <1>7

LEMMA LagsFacts ==
  ASSUME TablesInv, topology # Null
  PROVE  /\ IsFiniteSet(DOMAIN Lags) /\ Held(topology.group) \subseteq DOMAIN Lags
         /\ \A p \in DOMAIN Lags : Lags[p] # Null => Lags[p] \in Nat /\ HasMark(marks, p)
<1> DEFINE done == IF offsets = Null THEN {} ELSE DOMAIN offsets
           held == Held(topology.group)
           at == Positions(topology.group, offsets)
<1>1. at = [p \in done \union held |->
              IF p \in done THEN offsets[p] ELSE IF offsets = Null THEN Null ELSE 0]
  BY DEF Positions
<1>2. Lags = [p \in done \union held |-> LagOf(at[p], HighWatermark(marks, p))] BY <1>1 DEF Lags
<1>3. IsFiniteSet(done)
  <2>1. CASE offsets = Null BY <2>1, FS_EmptySet
  <2>2. CASE offsets # Null BY <2>2 DEF TablesInv, IsOffsets
  <2> QED BY <2>1, <2>2
<1>4. IsFiniteSet(held) BY DEF TablesInv, IsTopology
<1>5. ASSUME NEW p \in done \union held PROVE at[p] = Null \/ at[p] \in Nat
  <2>1. offsets # Null => \A q \in DOMAIN offsets : offsets[q] \in Nat BY DEF TablesInv, IsOffsets
  <2> QED BY <1>1, <2>1
<1> HIDE DEF done, held, at
<1>6. IsFiniteSet(done \union held) BY <1>3, <1>4, FS_Union
<1>7. ASSUME NEW p \in done \union held, Lags[p] # Null PROVE Lags[p] \in Nat /\ HasMark(marks, p)
  <2> DEFINE end == HighWatermark(marks, p)
             at1 == at[p]
  <2>1. Lags[p] = LagOf(at1, end) BY <1>2
  <2>2. at1 # Null /\ end # Null BY <2>1, <1>7 DEF LagOf
  <2>3. HasMark(marks, p) BY <2>2 DEF HighWatermark
  <2>4. end \in Nat BY <2>3 DEF HighWatermark, HasMark, TablesInv, IsMarks
  <2>5. at1 \in Nat BY <2>2, <1>5
  <2>6. Lags[p] = Max({end - at1, 0}) BY <2>1, <2>2 DEF LagOf
  <2> HIDE DEF end, at1
  <2>7. Max({end - at1, 0}) \in Nat BY <2>4, <2>5, MaxOfTwo
  <2> QED BY <2>3, <2>6, <2>7
<1>8. DOMAIN Lags = done \union held BY <1>2
<1> QED BY <1>6, <1>7, <1>8 DEF held

OwnedBy(m) == {p \in DOMAIN Lags : Owner(topology.group, p) = m}
LagsOf(S) == [p \in S |-> Lags[p]]
AllKnown == \A p \in DOMAIN Lags : Lags[p] # Null

LEMMA MemberLagIs ==
  ASSUME TablesInv, topology # Null, offsets # Null, AllKnown, NEW m
  PROVE  /\ GroupPage.total = SumOf(LagsOf(DOMAIN Lags))
         /\ MemberLag(GroupPage, m) = SumOf(LagsOf(OwnedBy(m)))
         /\ SumOf(LagsOf(OwnedBy(m))) \in Nat /\ SumOf(LagsOf(DOMAIN Lags)) \in Nat
         /\ SumOf(LagsOf(OwnedBy(m))) <= SumOf(LagsOf(DOMAIN Lags))
<1> DEFINE g == GroupPage
           own == {p \in DOMAIN g.offsets : g.offsets[p].owner = m}
<1>1. /\ DOMAIN g.offsets = DOMAIN Lags
      /\ \A p \in DOMAIN Lags :
           g.offsets[p].lag = Lags[p] /\ g.offsets[p].owner = Owner(topology.group, p)
      /\ g.total = IF offsets # Null THEN SumOf([p \in KnownLags |-> Lags[p]]) ELSE Null
  BY GroupPageIs
<1>2. /\ IsFiniteSet(DOMAIN Lags)
      /\ \A p \in DOMAIN Lags : Lags[p] # Null => Lags[p] \in Nat
  BY LagsFacts
<1>3. KnownLags = DOMAIN Lags BY DEF KnownLags, AllKnown
<1>4. g.total = SumOf(LagsOf(DOMAIN Lags)) BY <1>1, <1>3 DEF LagsOf
<1>5. OwnedBy(m) \in SUBSET (DOMAIN Lags) BY DEF OwnedBy
<1>6. LagsOf(DOMAIN Lags) \in [DOMAIN Lags -> Nat] /\ LagsOf(OwnedBy(m)) \in [OwnedBy(m) -> Nat]
  BY <1>2, <1>5 DEF LagsOf, AllKnown
<1>7. \A p \in OwnedBy(m) : LagsOf(OwnedBy(m))[p] <= LagsOf(DOMAIN Lags)[p]
  <2>1. ASSUME NEW p \in OwnedBy(m) PROVE LagsOf(OwnedBy(m))[p] <= LagsOf(DOMAIN Lags)[p]
    <3>1. p \in DOMAIN Lags /\ Lags[p] \in Nat BY <1>2, <1>5 DEF AllKnown
    <3>2. LagsOf(OwnedBy(m))[p] = Lags[p] /\ LagsOf(DOMAIN Lags)[p] = Lags[p] BY <3>1 DEF LagsOf
    <3> QED BY <3>1, <3>2
  <2> QED BY <2>1
<1>8. /\ SumOf(LagsOf(OwnedBy(m))) \in Nat /\ SumOf(LagsOf(DOMAIN Lags)) \in Nat
      /\ SumOf(LagsOf(OwnedBy(m))) <= SumOf(LagsOf(DOMAIN Lags))
  BY <1>2, <1>5, <1>6, <1>7, SumGrows
<1>9. own = OwnedBy(m) BY <1>1 DEF OwnedBy
<1>10. g.total # Null BY <1>4, <1>8, ViewsAssumption
<1>11. ~\E p \in own : g.offsets[p].lag = Null BY <1>1, <1>9, <1>5 DEF AllKnown
<1>12. MemberLag(g, m) = SumOf([p \in own |-> g.offsets[p].lag]) BY <1>10, <1>11 DEF MemberLag
<1>13. [p \in own |-> g.offsets[p].lag] = LagsOf(OwnedBy(m)) BY <1>1, <1>5, <1>9 DEF LagsOf
<1> QED BY <1>4, <1>8, <1>12, <1>13

\* A partition has one owner, so what two members lag is not more than all.
LEMMA TwoMembers ==
  ASSUME TablesInv, topology # Null, offsets # Null, AllKnown, NEW m, NEW n, m # n
  PROVE  MemberLag(GroupPage, m) + MemberLag(GroupPage, n) <= GroupPage.total
<1>1. /\ IsFiniteSet(DOMAIN Lags)
      /\ \A p \in DOMAIN Lags : Lags[p] # Null => Lags[p] \in Nat
  BY LagsFacts
<1>2. OwnedBy(m) \in SUBSET (DOMAIN Lags) /\ OwnedBy(n) \in SUBSET (DOMAIN Lags) BY DEF OwnedBy
<1>3. OwnedBy(m) \cap OwnedBy(n) = {} BY DEF OwnedBy
<1> DEFINE f == LagsOf(OwnedBy(m))
           h == LagsOf(OwnedBy(n))
           g == LagsOf(DOMAIN Lags)
           J == DOMAIN Lags
           A == OwnedBy(m)
           B == OwnedBy(n)
<1>4. /\ f \in [A -> Nat] /\ h \in [B -> Nat] /\ g \in [J -> Nat]
      /\ (\A p \in A : f[p] = g[p]) /\ (\A p \in B : h[p] = g[p])
  BY <1>1, <1>2 DEF LagsOf, AllKnown
<1>5. SumOf(f) + SumOf(h) <= SumOf(g)
  <2> HIDE DEF f, g, h, J, A, B
  <2>1. IsFiniteSet(J) /\ A \in SUBSET J /\ B \in SUBSET J /\ A \cap B = {}
    BY <1>1, <1>2, <1>3 DEF J, A, B
  <2> QED BY <1>4, <2>1, SumParts
<1>6. MemberLag(GroupPage, m) = SumOf(f) /\ GroupPage.total = SumOf(g) BY MemberLagIs
<1>7. MemberLag(GroupPage, n) = SumOf(h) BY MemberLagIs
<1> QED BY <1>5, <1>6, <1>7

LEMMA OneMember ==
  ASSUME TablesInv, topology # Null,
         NEW m \in LagOnOneMember(GroupPage), NEW n \in LagOnOneMember(GroupPage)
  PROVE  offsets # Null /\ AllKnown /\ m = n
<1>1. /\ GroupPage.complete <=> \A p \in DOMAIN Lags : Lags[p] # Null
      /\ GroupPage.total = IF offsets # Null THEN SumOf([p \in KnownLags |-> Lags[p]]) ELSE Null
  BY GroupPageIs
<1>2. GroupPage.complete /\ m \in OneMemberAnyway(GroupPage) /\ n \in OneMemberAnyway(GroupPage)
  BY DEF LagOnOneMember
<1>3. AllKnown BY <1>1, <1>2 DEF AllKnown
<1>4. /\ GroupPage.total # Null /\ GroupPage.total >= LAG_WORTH_NAMING
      /\ MemberLag(GroupPage, m) * 100 >= GroupPage.total * 80
      /\ MemberLag(GroupPage, n) * 100 >= GroupPage.total * 80
  BY <1>2 DEF OneMemberAnyway
<1>5. offsets # Null BY <1>1, <1>4
<1>6. GroupPage.total \in Nat /\ MemberLag(GroupPage, m) \in Nat
  <2>1. /\ GroupPage.total = SumOf(LagsOf(DOMAIN Lags)) /\ MemberLag(GroupPage, m) = SumOf(LagsOf(OwnedBy(m)))
        /\ SumOf(LagsOf(OwnedBy(m))) \in Nat /\ SumOf(LagsOf(DOMAIN Lags)) \in Nat
    BY <1>3, <1>5, MemberLagIs
  <2> QED BY <2>1
<1>7. MemberLag(GroupPage, n) \in Nat
  <2>1. MemberLag(GroupPage, n) = SumOf(LagsOf(OwnedBy(n))) /\ SumOf(LagsOf(OwnedBy(n))) \in Nat
    BY <1>3, <1>5, MemberLagIs
  <2> QED BY <2>1
<1>8. LAG_WORTH_NAMING \in Nat /\ LAG_WORTH_NAMING > 0 BY ViewsAssumption
<1>9. ASSUME m # n PROVE FALSE
  <2>1. MemberLag(GroupPage, m) + MemberLag(GroupPage, n) <= GroupPage.total
    BY <1>3, <1>5, <1>9, TwoMembers
  <2> DEFINE x == MemberLag(GroupPage, m)
             y == MemberLag(GroupPage, n)
             t == GroupPage.total
  <2>2. x \in Nat /\ y \in Nat /\ t \in Nat /\ t >= LAG_WORTH_NAMING /\ x + y <= t
    BY <1>4, <1>6, <1>7, <2>1
  <2>3. x * 100 >= t * 80 /\ y * 100 >= t * 80 BY <1>4
  <2> HIDE DEF x, y, t
  <2> QED BY <1>8, <2>2, <2>3
<1> QED BY <1>3, <1>5, <1>9

LEMMA TotalsHold == ASSUME TablesInv PROVE TotalsAgree
<1>1. ASSUME TopicPage # Null
      PROVE  LET t == TopicPage
                 sized == {p \in DOMAIN t.partitions : t.partitions[p].size # Null} IN
             /\ \A row \in TopicsPage :
                  /\ row.size = t.storage.size /\ row.underReplicated = t.underReplicated
                  /\ marks # Null /\ DOMAIN marks \subseteq DOMAIN t.partitions =>
                       row.retained = t.retained /\ row.produced = t.produced
             /\ t.storage.size # Null =>
                  /\ t.storage.size <= t.storage.disk
                  /\ SumOf([p \in sized |-> t.partitions[p].size]) <= t.storage.size
             /\ sized # {} => t.storage.size # Null
  <2> DEFINE t == TopicPage
             ids == PartitionIds(topology)
             sized == {p \in ids : Rows[p].size # Null}
             row1 == TopicRow(topology, marks, logDirs, rate)
  <2>1. /\ t.partitions = Rows /\ t.storage = TopicStorage(logDirs)
        /\ t.retained = SumOf([p \in ids |-> Retained(Rows[p])])
        /\ t.produced = SumOf([p \in ids |-> Rows[p].high])
        /\ t.underReplicated <=> \E p \in ids : UnderReplicated(Rows[p].part)
    BY <1>1, DetailIs
  <2>2. TopicsPage = {row1} /\ TopicPage = TopicDetail(topology, marks, logDirs, rate)
    BY <1>1, TopicPageIs
  <2>3. DOMAIN Rows = ids BY DEF Rows
  <2>4. \A p \in ids : Rows[p].part = topology.parts[p] BY DEF Rows, PartitionRow
  <2>5. /\ row1.size = TopicStorage(logDirs).size
        /\ row1.retained = RetainedIn(marks) /\ row1.produced = ProducedIn(marks)
        /\ row1.underReplicated = \E p \in ids : UnderReplicated(topology.parts[p])
    BY DEF TopicRow
  <2>6. row1.underReplicated = t.underReplicated
    <3>1. t.underReplicated = \E p \in DOMAIN Rows : UnderReplicated(Rows[p].part)
      BY <2>2 DEF TopicDetail, Rows
    <3>2. (\E p \in DOMAIN Rows : UnderReplicated(Rows[p].part))
             = \E p \in ids : UnderReplicated(topology.parts[p])
      BY <2>3, <2>4
    <3> QED BY <2>5, <3>1, <3>2
  <2>7. ASSUME marks # Null, DOMAIN marks \subseteq ids
        PROVE  row1.retained = t.retained /\ row1.produced = t.produced
    BY <2>1, <2>5, <2>7, MarkSums
  <2> HIDE DEF t, row1
  <2>8. CASE logDirs # Null /\ DOMAIN logDirs.partitions # {}
    <3>1. /\ t.storage.size \in Nat /\ t.storage.size <= t.storage.disk
          /\ SumOf([p \in sized |-> Rows[p].size]) <= t.storage.size
      BY <2>1, <2>8, StorageFacts
    <3>2. t.storage.size # Null BY <3>1, ViewsAssumption
    <3> QED BY <2>1, <2>2, <2>3, <2>5, <2>6, <2>7, <3>1, <3>2 DEF t
  <2>9. CASE ~(logDirs # Null /\ DOMAIN logDirs.partitions # {})
    <3>1. t.storage.size = Null BY <2>1, <2>9 DEF TopicStorage
    <3>2. ASSUME NEW p \in ids PROVE Rows[p].size = Null
      <4>1. Rows[p].size = IF PartitionStorage(logDirs, p) = Null THEN Null
                           ELSE PartitionStorage(logDirs, p).size
        BY RowSize DEF Rows
      <4>2. PartitionStorage(logDirs, p) = Null BY <2>9 DEF PartitionStorage
      <4> QED BY <4>1, <4>2
    <3>3. sized = {} BY <3>2
    <3> QED BY <2>1, <2>2, <2>3, <2>5, <2>6, <2>7, <3>1, <3>3 DEF t
  <2> QED BY <2>8, <2>9
<1>2. ASSUME GroupPage # Null
      PROVE  LET g == GroupPage
                 known == {p \in DOMAIN g.offsets : g.offsets[p].lag # Null} IN
             /\ g.total # Null => g.total = SumOf([p \in known |-> g.offsets[p].lag])
             /\ g.complete <=> known = DOMAIN g.offsets
             /\ \A row \in GroupsPage : row.total = g.total /\ row.complete = g.complete
             /\ \A row \in TopicGroupsPage : row.lag = g.total
  <2> DEFINE g == GroupPage
             known == {p \in DOMAIN g.offsets : g.offsets[p].lag # Null}
  <2>1. topology # Null BY <1>2 DEF GroupPage
  <2>2. /\ DOMAIN g.offsets = DOMAIN Lags
        /\ \A p \in DOMAIN Lags : g.offsets[p].lag = Lags[p]
        /\ g.total = IF offsets # Null THEN SumOf([p \in KnownLags |-> Lags[p]]) ELSE Null
        /\ g.complete <=> \A p \in DOMAIN Lags : Lags[p] # Null
        /\ PositionsLag(Positions(topology.group, offsets), offsets, marks)
             = [total |-> g.total, complete |-> g.complete]
    BY <2>1, GroupPageIs
  <2>3. known = KnownLags BY <2>2 DEF KnownLags
  <2>4. [p \in known |-> g.offsets[p].lag] = [p \in KnownLags |-> Lags[p]]
    BY <2>2, <2>3 DEF KnownLags
  <2>5. ASSUME NEW row \in GroupsPage PROVE row.total = g.total /\ row.complete = g.complete
    <3>1. row = GroupRow(topology.group, offsets, marks) BY <2>1 DEF GroupsPage
    <3> QED BY <2>2, <3>1 DEF GroupRow
  <2>6. ASSUME NEW row \in TopicGroupsPage PROVE row.lag = g.total
    <3>1. PICK h \in GroupsForTopic(topology) : row = TopicGroupRow(h, offsets, marks)
      BY <2>1 DEF TopicGroupsPage
    <3>2. h = topology.group BY DEF GroupsForTopic
    <3> QED BY <2>2, <3>1, <3>2 DEF TopicGroupRow
  <2>7. g.complete <=> known = DOMAIN g.offsets BY <2>2, <2>3 DEF KnownLags
  <2> HIDE DEF g
  <2> QED BY <2>2, <2>4, <2>5, <2>6, <2>7 DEF g
<1>3. ASSUME logDirs # Null, TopicPage # Null, TopicPage.storage.disk # Null
      PROVE  TopicPage.storage.disk <=
               SumOf([b \in {b \in DOMAIN BrokersPage : BrokersPage[b].dirs # Null} |->
                      BrokersPage[b].dirs.size])
  <2>1. topology # Null BY <1>3, TopicPageIs
  <2>2. TopicPage.storage = TopicStorage(logDirs) BY <1>3, DetailIs
  <2>3. DOMAIN logDirs.partitions # {} BY <1>3, <2>2 DEF TopicStorage
  <2>4. TopicPage.storage.disk <= SumOf([b \in DOMAIN logDirs.brokers |-> logDirs.brokers[b].size])
    BY <1>3, <2>2, <2>3, StorageFacts
  <2>5. PICK dirs \in Disks : logDirs = LogDirTable(dirs) BY <1>3 DEF TablesInv, IsLogDirs
  <2>6. /\ DOMAIN logDirs.brokers \subseteq Brokers
        /\ \A b \in DOMAIN logDirs.brokers : logDirs.brokers[b] \in [size : Nat, replicas : Nat]
    BY <2>5, LogDirFacts
  <2>7. /\ DOMAIN BrokersPage = Brokers
        /\ \A b \in Brokers : BrokersPage[b].dirs =
             IF b \in DOMAIN logDirs.brokers THEN logDirs.brokers[b] ELSE Null
    BY <1>3, <2>1 DEF BrokersPage, BrokerRows
  <2>8. \A b \in DOMAIN logDirs.brokers : logDirs.brokers[b] # Null BY <2>6, NothingAssumption
  <2>9. {b \in DOMAIN BrokersPage : BrokersPage[b].dirs # Null} = DOMAIN logDirs.brokers
    BY <2>6, <2>7, <2>8
  <2>10. [b \in {b \in DOMAIN BrokersPage : BrokersPage[b].dirs # Null} |-> BrokersPage[b].dirs.size]
          = [b \in DOMAIN logDirs.brokers |-> logDirs.brokers[b].size]
    BY <2>6, <2>7, <2>9
  <2> QED BY <2>4, <2>10
<1> QED BY <1>1, <1>2, <1>3 DEF TotalsAgree

-----------------------------------------------------------------------------
(* A call, and what it has loaded. *)

\* What a tool was called with, and what it made of the tables it loaded.
CallInv ==
  call # Null =>
    /\ call.tool \in Tools
    /\ call.tool # "clusters" => topology # Null
    /\ call.topology = Null \/ IsTopology(call.topology)
    /\ call.tool = "topic_describe" =>
         /\ call.detail.retained =
              SumOf([p \in DOMAIN call.detail.partitions |-> Retained(call.detail.partitions[p])])
         /\ \A p \in DOMAIN call.detail.partitions :
              HasMark(call.marks, p) => call.detail.partitions[p].high = call.marks[p].high

IsPositions(o) == IsFiniteSet(DOMAIN o) /\ \A p \in DOMAIN o : o[p] \in Nat

\* Kafka, and the reading that is under way.
KafkaInv ==
  /\ count \in Parts \union {0} /\ log \in [Parts -> [low : Nat, high : Nat, up : BOOLEAN]]
  /\ group \in Groups \union {NoGroup} /\ IsFiniteSet(Held(group))
  /\ IsPositions(committed) /\ disk \in Disks
  /\ fetch # Null => IsPositions(fetch.got)

ViewsInv == MarksInv /\ KafkaInv /\ TablesInv /\ CallInv

-----------------------------------------------------------------------------
(* What the tools answer. *)

LEMMA HealthFacts ==
  ASSUME NEW t, t = Null \/ IsTopology(t)
  PROVE  /\ Health(t) # Null
         /\ Health(t).under = Cardinality({p \in PartitionIds(t) : UnderReplicated(t.parts[p])})
         /\ Health(t).offline = Cardinality({p \in PartitionIds(t) : Offline(t.parts[p])})
<1> DEFINE ids == PartitionIds(t)
           under == {p \in ids : UnderReplicated(t.parts[p])}
           offline == {p \in ids : Offline(t.parts[p])}
<1>1. IsFiniteSet(ids) BY PartitionsFinite
<1>2. under \in SUBSET ids /\ offline \in SUBSET ids OBVIOUS
<1>3. Health(t) = [topics |-> IF Exists(t) THEN 1 ELSE 0, partitions |-> Cardinality(ids),
                   under |-> Cardinality(under), offline |-> Cardinality(offline)]
  BY DEF Health
<1> HIDE DEF ids, under, offline
<1>4. Cardinality(ids) \in Nat BY <1>1, FS_CardinalityType
<1>5. Cardinality(under) \in Nat /\ Cardinality(offline) \in Nat
  BY <1>1, <1>2, FS_Subset, FS_CardinalityType
<1>6. Health(t) \in [topics : Nat, partitions : Nat, under : Nat, offline : Nat]
  BY <1>3, <1>4, <1>5
<1>7. Health(t) # Null BY <1>6, NothingAssumption
<1> QED BY <1>3, <1>7 DEF ids, under, offline

LEMMA ClustersHold ==
  ASSUME CallInv, call # Null, call.tool = "clusters" PROVE MeasuredOrNull
<1>1. Health(call.topology) # Null BY HealthFacts DEF CallInv
<1>2. Answer = ClusterRow(Health(call.topology), topology) BY DEF Answer
<1>3. Answer.ready <=> Answer.counts # Null BY <1>1, <1>2 DEF ClusterRow
<1> HIDE DEF Answer
<1> QED BY <1>3 DEF MeasuredOrNull

LEMMA ClusterHolds ==
  ASSUME CallInv, TablesInv, call # Null, call.tool = "cluster" PROVE MeasuredOrNull
<1> USE DEF Answer
<1>1. Answer = [row |-> ClusterRow(Health(topology), topology),
                unhealthy |-> UnhealthyPartitions(call.topology)]
  OBVIOUS
<1> HIDE DEF Answer
<1>2. CASE call.topology # topology BY <1>2 DEF MeasuredOrNull
<1>3. CASE call.topology = topology
  <2>1. topology # Null /\ call.topology = topology /\ IsTopology(topology)
    BY <1>3 DEF CallInv, TablesInv
  <2> DEFINE ids == PartitionIds(topology)
             under == {p \in ids : UnderReplicated(topology.parts[p])}
             offline == {p \in ids : Offline(topology.parts[p])}
             both == UnhealthyPartitions(topology)
  <2>2. Answer.row.counts.under = Cardinality(under) /\ Answer.row.counts.offline = Cardinality(offline)
    BY <1>1, <2>1, HealthFacts DEF ClusterRow
  <2>3. Answer.unhealthy = both BY <1>1, <2>1
  <2>4. both = under \cup offline BY DEF UnhealthyPartitions
  <2>5. IsFiniteSet(ids) BY <2>1, PartitionsFinite
  <2>6. under \in SUBSET ids /\ offline \in SUBSET ids OBVIOUS
  <2> HIDE DEF ids, under, offline, both
  <2>7. IsFiniteSet(under) /\ IsFiniteSet(offline) BY <2>5, <2>6, FS_Subset
  <2>8. Cardinality(under) \in Nat /\ Cardinality(offline) \in Nat BY <2>7, FS_CardinalityType
  <2>9. /\ IsFiniteSet(under \cup offline)
        /\ Cardinality(under \cup offline) =
             Cardinality(under) + Cardinality(offline) - Cardinality(under \cap offline)
    BY <2>7, FS_Union
  <2>10. Cardinality(under \cap offline) \in Nat
    <3>1. IsFiniteSet(under \cap offline) BY <2>7, FS_Intersection
    <3> QED BY <3>1, FS_CardinalityType
  <2>11. Cardinality(under) <= Cardinality(under \cup offline) /\ Cardinality(under \cup offline) \in Nat
    <3>1. under \in SUBSET (under \cup offline) OBVIOUS
    <3> QED BY <2>9, <3>1, FS_Subset, FS_CardinalityType
  <2>12. /\ Answer.row.counts.under \in 0..Cardinality(Answer.unhealthy)
         /\ Cardinality(Answer.unhealthy) <= Answer.row.counts.under + Answer.row.counts.offline
    BY <2>2, <2>3, <2>4, <2>8, <2>9, <2>10, <2>11
  <2> QED BY <1>3, <2>12 DEF MeasuredOrNull
<1> QED BY <1>2, <1>3 DEF CallInv

LEMMA BrokersHold ==
  ASSUME CallInv, TablesInv, call # Null, call.tool = "brokers_list" PROVE MeasuredOrNull
<1>1. Answer = ListedBrokers BY DEF Answer
<1> HIDE DEF Answer
<1>2. CASE call.logDirs # logDirs BY <1>2 DEF MeasuredOrNull
<1>3. CASE call.logDirs = logDirs
  <2>1. topology # Null /\ call.logDirs = logDirs BY <1>3 DEF CallInv
  <2>2. ASSUME NEW b \in Brokers, logDirs # Null, b \in DOMAIN logDirs.brokers
        PROVE  logDirs.brokers[b] # Null
    <3>1. PICK dirs \in Disks : logDirs = LogDirTable(dirs) BY <2>2 DEF TablesInv, IsLogDirs
    <3>2. logDirs.brokers[b] \in [size : Nat, replicas : Nat] BY <2>2, <3>1, LogDirFacts
    <3> QED BY <3>2, NothingAssumption
  <2>3. ASSUME NEW b \in Brokers
        PROVE  BrokersPage[b].dirs =
                 IF logDirs # Null /\ b \in DOMAIN logDirs.brokers THEN logDirs.brokers[b] ELSE Null
    BY <2>1 DEF BrokersPage, BrokerRows
  <2>4. ASSUME NEW b \in Brokers
        PROVE  /\ Answer[b].row = BrokersPage[b]
               /\ Answer[b].dirsRead <=> logDirs # Null /\ b \in DOMAIN logDirs.brokers
    BY <1>1, <2>1 DEF ListedBrokers
  <2>5. DOMAIN Answer = Brokers BY <1>1 DEF ListedBrokers
  <2>6. \A b \in DOMAIN Answer : Answer[b].dirsRead <=> Answer[b].row.dirs # Null
    BY <2>2, <2>3, <2>4, <2>5
  <2> QED BY <1>3, <2>6 DEF MeasuredOrNull
<1> QED BY <1>2, <1>3 DEF CallInv

LEMMA GroupsHold ==
  ASSUME CallInv, call # Null, call.tool = "groups_list" PROVE MeasuredOrNull
<1>1. Answer = [asked \in GroupQueries |-> {row \in GroupsPage : KeepsGroup(row, asked)}]
  BY DEF Answer
<1> HIDE DEF Answer
<1>2. topology # Null BY DEF CallInv
<1>3. ASSUME NEW asked \in GroupQueries, NEW row \in Answer[asked]
      PROVE  asked.minLag # Null \/ row.complete =>
               offsets # Null \/ (asked.minLag = Null /\ row.total = Null)
  <2>1. row \in GroupsPage /\ KeepsGroup(row, asked) BY <1>1
  <2>2. row = GroupRow(topology.group, offsets, marks) BY <1>2, <2>1 DEF GroupsPage
  <2>3. row.total = PositionsLag(Positions(topology.group, offsets), offsets, marks).total
    BY <2>2 DEF GroupRow
  <2>4. offsets = Null => row.total = Null BY <2>3 DEF PositionsLag, LagTotals
  <2>5. asked.minLag = Null \/ row.total # Null BY <2>1 DEF KeepsGroup
  <2> QED BY <2>4, <2>5
<1> QED BY <1>3 DEF MeasuredOrNull

\* No topic is lost between those with records, those without and the unmeasured.
LEMMA ThreeKinds ==
  ASSUME NEW found, IsFiniteSet(found)
  PROVE  LET known == {row \in found : row.retained # Null}
             none == {row \in known : (row.retained = 0) = TRUE}
             some == {row \in known : (row.retained = 0) = FALSE} IN
         Cardinality(found) = Cardinality(found \ known) + Cardinality(none) + Cardinality(some)
<1> DEFINE known == {row \in found : row.retained # Null}
           none == {row \in known : (row.retained = 0) = TRUE}
           some == {row \in known : (row.retained = 0) = FALSE}
           rest == found \ known
<1>1. known \in SUBSET found /\ rest \in SUBSET found OBVIOUS
<1>2. none \in SUBSET known /\ some \in SUBSET known OBVIOUS
<1>3. none \cap some = {} /\ none \cup some = known OBVIOUS
<1>4. known \cap rest = {} /\ known \cup rest = found OBVIOUS
<1> HIDE DEF known, none, some, rest
<1>5. IsFiniteSet(known) /\ IsFiniteSet(rest) BY <1>1, FS_Subset
<1>6. IsFiniteSet(none) /\ IsFiniteSet(some) BY <1>2, <1>5, FS_Subset
<1>7. Cardinality({}) = 0 BY FS_EmptySet
<1>8. Cardinality(none \cup some) = Cardinality(none) + Cardinality(some) - Cardinality(none \cap some)
  BY <1>6, FS_Union
<1>9. Cardinality(known \cup rest) = Cardinality(known) + Cardinality(rest) - Cardinality(known \cap rest)
  BY <1>5, FS_Union
<1>10. /\ Cardinality(none) \in Nat /\ Cardinality(some) \in Nat
       /\ Cardinality(known) \in Nat /\ Cardinality(rest) \in Nat
  BY <1>5, <1>6, FS_CardinalityType
<1>11. Cardinality(known) = Cardinality(none) + Cardinality(some)
  <2>1. Cardinality(none \cap some) = 0 /\ Cardinality(none \cup some) = Cardinality(known)
    BY <1>3, <1>7
  <2> QED BY <1>8, <1>10, <2>1
<1>12. Cardinality(found) = Cardinality(known) + Cardinality(rest)
  <2>1. Cardinality(known \cap rest) = 0 /\ Cardinality(known \cup rest) = Cardinality(found)
    BY <1>4, <1>7
  <2> QED BY <1>9, <1>10, <2>1
<1>13. Cardinality(found) = Cardinality(rest) + Cardinality(none) + Cardinality(some)
  BY <1>10, <1>11, <1>12
<1> QED BY <1>13 DEF known, none, some, rest

Counted == Exists(call.topology) /\ Measured(call.topology, call.marks)
FoundTopics == {ListedTopic(row, Counted) : row \in TopicsPage}

KnownTopics == {row \in FoundTopics : row.retained # Null}
Query(empty) == [under |-> Null, empty |-> empty]

LEMMA MatchesIs ==
  ASSUME NEW empty
  PROVE  TopicMatches(Query(empty)) =
           [rows |-> IF empty = Null THEN FoundTopics
                     ELSE {row \in KnownTopics : (row.retained = 0) = empty},
            unmeasured |-> IF empty = Null THEN 0 ELSE Cardinality(FoundTopics \ KnownTopics)]
<1> DEFINE asked == Query(empty)
           rows == {row \in TopicsPage : asked.under = Null \/ row.underReplicated = asked.under}
<1>1. rows = TopicsPage BY DEF Query
<1>2. {ListedTopic(row, Counted) : row \in rows} = FoundTopics BY <1>1 DEF FoundTopics
<1>3. asked.empty = empty BY DEF Query
<1> HIDE DEF rows
<1>4. TopicMatches(asked) =
        [rows |-> IF asked.empty = Null THEN FoundTopics
                  ELSE {row \in KnownTopics : (row.retained = 0) = asked.empty},
         unmeasured |-> IF asked.empty = Null THEN 0 ELSE Cardinality(FoundTopics \ KnownTopics)]
  BY <1>2 DEF TopicMatches, Counted, rows, KnownTopics
<1> QED BY <1>3, <1>4

LEMMA MatchesAll == TopicMatches(Query(Null)).rows = FoundTopics
<1>1. TopicMatches(Query(Null)) =
        [rows |-> IF Null = Null THEN FoundTopics
                     ELSE {row \in KnownTopics : (row.retained = 0) = Null},
            unmeasured |-> IF Null = Null THEN 0 ELSE Cardinality(FoundTopics \ KnownTopics)]
  BY MatchesIs
<1> QED BY <1>1

LEMMA MatchesSome ==
  ASSUME NEW empty \in BOOLEAN
  PROVE  /\ TopicMatches(Query(empty)).rows = {row \in KnownTopics : (row.retained = 0) = empty}
         /\ TopicMatches(Query(empty)).unmeasured = Cardinality(FoundTopics \ KnownTopics)
<1>1. empty # Null BY NothingAssumption
<1>2. TopicMatches(Query(empty)) =
        [rows |-> IF empty = Null THEN FoundTopics
                     ELSE {row \in KnownTopics : (row.retained = 0) = empty},
            unmeasured |-> IF empty = Null THEN 0 ELSE Cardinality(FoundTopics \ KnownTopics)]
  BY MatchesIs
<1> QED BY <1>1, <1>2

LEMMA QueryIs ==
  ASSUME NEW empty PROVE [Query(Null) EXCEPT !.empty = empty] = Query(empty)
BY DEF Query

LEMMA TopicsHold ==
  ASSUME CallInv, call # Null, call.tool = "topics_list" PROVE MeasuredOrNull
<1> DEFINE all == Query(Null)
           known == KnownTopics
           none == {row \in known : (row.retained = 0) = TRUE}
           some == {row \in known : (row.retained = 0) = FALSE}
<1>1. Answer = [asked \in TopicQueries |-> TopicMatches(asked)] BY DEF Answer
<1> HIDE DEF Answer
<1>2. [all EXCEPT !.empty = TRUE] = Query(TRUE) /\ [all EXCEPT !.empty = FALSE] = Query(FALSE)
  BY QueryIs
<1>3. all \in TopicQueries /\ Query(TRUE) \in TopicQueries /\ Query(FALSE) \in TopicQueries
  BY DEF TopicQueries, Query
<1>5. Answer[all].rows = FoundTopics BY <1>1, <1>3, MatchesAll
<1>6. /\ Answer[[all EXCEPT !.empty = TRUE]].rows = none
      /\ Answer[[all EXCEPT !.empty = TRUE]].unmeasured = Cardinality(FoundTopics \ known)
  BY <1>1, <1>2, <1>3, MatchesSome
<1>7. Answer[[all EXCEPT !.empty = FALSE]].rows = some
  BY <1>1, <1>2, <1>3, MatchesSome
<1>8. IsFiniteSet(FoundTopics)
  <2>1. CASE TopicsPage = {} BY <2>1, FS_EmptySet DEF FoundTopics
  <2>2. ASSUME NEW row, TopicsPage = {row} PROVE IsFiniteSet(FoundTopics)
    <3>1. FoundTopics = {ListedTopic(row, Counted)} BY <2>2 DEF FoundTopics
    <3> QED BY <3>1, FS_Singleton
  <2> QED BY <2>1, <2>2 DEF TopicsPage
<1>9. Cardinality(FoundTopics) = Cardinality(FoundTopics \ known) + Cardinality(none) + Cardinality(some)
  BY <1>8, ThreeKinds DEF KnownTopics
<1>10. ASSUME call.topology = topology, call.marks = marks,
              NEW row \in FoundTopics, row.retained # Null, NEW p \in PartitionIds(topology)
       PROVE  HasMark(marks, p)
  <2>2. PICK old \in TopicsPage : row = ListedTopic(old, Counted) BY <1>10 DEF FoundTopics
  <2>3. old = TopicRow(topology, marks, logDirs, rate) BY <2>2 DEF TopicsPage
  <2>4. "retained" \in DOMAIN old BY <2>3 DEF TopicRow
  <2>5. ~Counted => row.retained = Null BY <2>2, <2>4 DEF ListedTopic
  <2> QED BY <1>10, <2>5 DEF Counted, Measured
<1> HIDE DEF all, known, none, some
<1>11. /\ call.topology = topology /\ call.marks = marks => \A row \in Answer[all].rows :
            row.retained # Null => \A p \in PartitionIds(topology) : HasMark(marks, p)
       /\ Cardinality(Answer[all].rows) =
            Answer[[all EXCEPT !.empty = TRUE]].unmeasured
            + Cardinality(Answer[[all EXCEPT !.empty = TRUE]].rows)
            + Cardinality(Answer[[all EXCEPT !.empty = FALSE]].rows)
  BY <1>5, <1>6, <1>7, <1>9, <1>10
<1> QED BY <1>11 DEF MeasuredOrNull, all, Query

LEMMA DescribedIs ==
  ASSUME NEW row, NEW counted
  PROVE  /\ counted => /\ DescribedPartition(row, counted).high = row.high
                       /\ DescribedPartition(row, counted).retained = Retained(row)
         /\ ~counted => /\ DescribedPartition(row, counted).high = Null
                        /\ DescribedPartition(row, counted).retained = Null
BY DEF DescribedPartition

LEMMA TopicHolds ==
  ASSUME CallInv, TablesInv, call # Null, call.tool = "topic_describe" PROVE MeasuredOrNull
<1> DEFINE parts == call.detail.partitions
           rows == [p \in DOMAIN parts |-> DescribedPartition(parts[p], HasMark(marks, p))]
<1>1. Answer = TopicDescription BY DEF Answer
<1> HIDE DEF Answer
<1>2. /\ Answer.partitions = rows
      /\ Answer.topic = TopicSummary(call.detail, \A p \in DOMAIN rows : rows[p].retained # Null)
  BY <1>1 DEF TopicDescription
<1>3. ASSUME NEW p \in DOMAIN parts
      PROVE  /\ HasMark(marks, p) => rows[p].high = parts[p].high /\ rows[p].retained = Retained(parts[p])
             /\ ~HasMark(marks, p) => rows[p].high = Null /\ rows[p].retained = Null
  BY DescribedIs
<1>4. DOMAIN rows = DOMAIN parts OBVIOUS
<1>5. ASSUME Answer.topic.retained # Null
      PROVE  Answer.topic.retained = SumOf([p \in DOMAIN rows |-> rows[p].retained])
  <2>1. \A p \in DOMAIN rows : rows[p].retained # Null
    <3> HIDE DEF rows
    <3> QED BY <1>2, <1>5 DEF TopicSummary
  <2>2. Answer.topic.retained = call.detail.retained
    <3> HIDE DEF rows
    <3> QED BY <1>2, <2>1 DEF TopicSummary
  <2>3. \A p \in DOMAIN parts : rows[p].retained = Retained(parts[p])
    <3> HIDE DEF rows
    <3> QED BY <1>3, <1>4, <2>1
  <2>4. call.detail.retained = SumOf([p \in DOMAIN parts |-> Retained(parts[p])]) BY DEF CallInv
  <2> HIDE DEF rows
  <2>5. [p \in DOMAIN rows |-> rows[p].retained] = [p \in DOMAIN parts |-> Retained(parts[p])]
    BY <1>4, <2>3
  <2> QED BY <2>2, <2>4, <2>5
<1>6. ASSUME call.marks = marks, NEW p \in DOMAIN rows
      PROVE  /\ HasMark(marks, p) <=> rows[p].high # Null
             /\ HasMark(marks, p) => rows[p].high = marks[p].high
  <2>5. CASE HasMark(marks, p)
    <3>1. rows[p].high = marks[p].high
      <4>1. parts[p].high = marks[p].high BY <1>4, <1>6, <2>5 DEF CallInv
      <4>2. rows[p].high = parts[p].high BY <1>3, <1>4, <2>5
      <4> QED BY <4>1, <4>2
    <3>2. marks[p].high \in Nat BY <2>5 DEF HasMark, TablesInv, IsMarks
    <3>3. marks[p].high # Null BY <3>2, ViewsAssumption
    <3> HIDE DEF rows
    <3> QED BY <2>5, <3>1, <3>3
  <2>6. CASE ~HasMark(marks, p)
    <3>1. rows[p].high = Null BY <1>3, <1>4, <2>6
    <3> HIDE DEF rows
    <3> QED BY <2>6, <3>1
  <2> QED BY <2>5, <2>6
<1> HIDE DEF rows
<1>7. /\ call.marks = marks => \A p \in DOMAIN Answer.partitions :
           /\ HasMark(marks, p) <=> Answer.partitions[p].high # Null
           /\ HasMark(marks, p) => Answer.partitions[p].high = marks[p].high
      /\ Answer.topic.retained # Null =>
           Answer.topic.retained =
             SumOf([p \in DOMAIN Answer.partitions |-> Answer.partitions[p].retained])
  BY <1>2, <1>5, <1>6
<1> QED BY <1>7 DEF MeasuredOrNull

\* Only a member with most of the lag is named for it.
LEMMA NamedMember ==
  ASSUME NEW detail, NEW t, NEW f \in Findings(detail, t), f.kind = "LAG_ON_ONE_MEMBER"
  PROVE  \E m \in LagOnOneMember(detail) : f = [kind |-> "LAG_ON_ONE_MEMBER", member |-> m]
<1> DEFINE g == detail.group
           known == Held(g) # {} /\ Exists(t)
           idle == IF known THEN PartitionIds(t) \ Held(g) ELSE {}
           named == [kind : {"LAG_ON_ONE_MEMBER"}, member : LagOnOneMember(detail)]
           unread == [kind : {"UNASSIGNED_PARTITIONS"}, partitions : {idle} \ {{}}]
           many == [kind : IF known /\ Cardinality(DOMAIN g.held) > Cardinality(PartitionIds(t))
                           THEN {"MORE_MEMBERS_THAN_PARTITIONS"} ELSE {}]
<1>1. Findings(detail, t) =
        CASE DOMAIN g.held = {} -> [kind : {"NO_MEMBERS"}]
          [] DOMAIN g.held # {} /\ g.state = "Rebalancing" -> [kind : {"REBALANCING"}]
          [] DOMAIN g.held # {} /\ g.state = "Unknown" -> {}
          [] OTHER -> named \union unread \union many
  BY DEF Findings
<1>2. /\ \A x \in [kind : {"NO_MEMBERS"}] : x.kind # "LAG_ON_ONE_MEMBER"
      /\ \A x \in [kind : {"REBALANCING"}] : x.kind # "LAG_ON_ONE_MEMBER"
  OBVIOUS
<1>3. \A x \in unread : x.kind # "LAG_ON_ONE_MEMBER" OBVIOUS
<1>4. \A x \in many : x.kind # "LAG_ON_ONE_MEMBER" OBVIOUS
<1>5. \A x \in named : \E m \in LagOnOneMember(detail) : x = [kind |-> "LAG_ON_ONE_MEMBER", member |-> m]
  OBVIOUS
<1> HIDE DEF named, unread, many
<1>6. f \in named \union unread \union many
  <2>1. CASE DOMAIN g.held = {} BY <1>1, <1>2, <2>1
  <2>2. CASE DOMAIN g.held # {} /\ g.state = "Rebalancing" BY <1>1, <1>2, <2>2
  <2>3. CASE DOMAIN g.held # {} /\ g.state = "Unknown" BY <1>1, <2>3
  <2>4. CASE ~(DOMAIN g.held = {}) /\ ~(g.state = "Rebalancing") /\ ~(g.state = "Unknown")
    BY <1>1, <2>4
  <2> QED BY <2>1, <2>2, <2>3, <2>4
<1>7. f \in named BY <1>3, <1>4, <1>6
<1> QED BY <1>5, <1>7

LEMMA GroupHolds ==
  ASSUME CallInv, TablesInv, call # Null, call.tool = "group_describe" PROVE MeasuredOrNull
<1> DEFINE g == GroupPage
           findings == Findings(g, call.topology)
           members == [m \in DOMAIN topology.group.held |-> MemberLag(g, m)]
<1>1. Answer = GroupDescription BY DEF Answer
<1> HIDE DEF Answer
<1>2. Answer.group = g /\ Answer.findings = findings /\ Answer.members = members
  BY <1>1 DEF GroupDescription
<1>3. topology # Null BY DEF CallInv
<1>4. /\ g.group = topology.group /\ DOMAIN g.offsets = DOMAIN Lags
      /\ \A p \in DOMAIN Lags : g.offsets[p].lag = Lags[p]
      /\ g.complete <=> \A p \in DOMAIN Lags : Lags[p] # Null
  BY <1>3, GroupPageIs
<1>5. /\ Held(topology.group) \subseteq DOMAIN Lags
      /\ \A p \in DOMAIN Lags : Lags[p] # Null => HasMark(marks, p)
  BY <1>3, LagsFacts
<1>6. g.complete => \A p \in Held(g.group) : HasMark(marks, p)
  BY <1>4, <1>5
<1>7. ASSUME NEW f \in findings, f.kind = "LAG_ON_ONE_MEMBER"
      PROVE  /\ \A p \in DOMAIN g.offsets : g.offsets[p].lag # Null
             /\ Cardinality({h \in findings : h.kind = f.kind}) = 1
             /\ \A m \in DOMAIN members : members[m] <= g.total
  <2>1. PICK m \in LagOnOneMember(g) : f = [kind |-> "LAG_ON_ONE_MEMBER", member |-> m]
    BY <1>7, NamedMember
  <2>2. offsets # Null /\ AllKnown BY <1>3, <2>1, OneMember
  <2>3. ASSUME NEW h \in findings, h.kind = f.kind PROVE h = f
    <3>1. PICK n \in LagOnOneMember(g) : h = [kind |-> "LAG_ON_ONE_MEMBER", member |-> n]
      BY <1>7, <2>3, NamedMember
    <3>2. m = n BY <1>3, OneMember
    <3> QED BY <2>1, <3>1, <3>2
  <2>4. {h \in findings : h.kind = f.kind} = {f} BY <2>3
  <2>5. Cardinality({f}) = 1 BY FS_Singleton
  <2>6. ASSUME NEW n \in DOMAIN members PROVE members[n] <= g.total
    <3>1. /\ g.total = SumOf(LagsOf(DOMAIN Lags)) /\ MemberLag(g, n) = SumOf(LagsOf(OwnedBy(n)))
          /\ SumOf(LagsOf(OwnedBy(n))) <= SumOf(LagsOf(DOMAIN Lags))
      BY <1>3, <2>2, MemberLagIs
    <3>2. members[n] = MemberLag(g, n) OBVIOUS
    <3> QED BY <3>1, <3>2
  <2>7. \A p \in DOMAIN g.offsets : g.offsets[p].lag # Null BY <1>4, <2>2 DEF AllKnown
  <2> HIDE DEF findings, members, g
  <2> QED BY <2>4, <2>5, <2>6, <2>7
<1> HIDE DEF findings, members, g
<1>8. /\ Answer.group.complete /\ Answer.group.total # Null =>
           \A p \in Held(Answer.group.group) : HasMark(marks, p)
      /\ \A f \in Answer.findings : f.kind = "LAG_ON_ONE_MEMBER" =>
           /\ \A p \in DOMAIN Answer.group.offsets : Answer.group.offsets[p].lag # Null
           /\ Cardinality({h \in Answer.findings : h.kind = f.kind}) = 1
           /\ \A m \in DOMAIN Answer.members : Answer.members[m] <= Answer.group.total
  BY <1>2, <1>6, <1>7
<1> QED BY <1>8 DEF MeasuredOrNull

LEMMA AnswersHold == ASSUME CallInv, TablesInv PROVE MeasuredOrNull
<1>1. CASE call = Null BY <1>1 DEF MeasuredOrNull
<1>2. CASE call # Null
  <2>1. call.tool \in Tools BY <1>2 DEF CallInv
  <2> QED BY <1>2, <2>1, ClustersHold, ClusterHolds, TopicsHold, TopicHolds, GroupsHold, GroupHolds,
             BrokersHold DEF Tools
<1> QED BY <1>1, <1>2

-----------------------------------------------------------------------------
(* The tables stay what the answers rest on. *)

LEMMA SameCall ==
  ASSUME CallInv, UNCHANGED call, topology # Null => topology' # Null PROVE CallInv'
BY DEF CallInv

LEMMA ViewsInitially == ASSUME Init PROVE ViewsInv
<1>1. MarksInv BY MarksInvInit
<1>2. DOMAIN Empty = {} /\ IsFiniteSet({}) BY FS_EmptySet DEF Empty
<1>3. Held(NoGroup) = {}
  <2>1. NoGroup.held = Empty BY DEF NoGroup
  <2> HIDE DEF Empty
  <2>2. Range(NoGroup.held) = {} BY <1>2, <2>1 DEF Range
  <2> QED BY <2>2 DEF Held
<1>4. disk \in Disks BY ViewsAssumption DEF Init
<1>5. IsPositions(committed) BY <1>2 DEF Init, IsPositions
<1>6. count \in Parts /\ log \in [Parts -> [low : Nat, high : Nat, up : BOOLEAN]] /\ group = NoGroup /\ fetch = Null
  BY DEF Init
<1>7. KafkaInv BY <1>2, <1>3, <1>4, <1>5, <1>6 DEF KafkaInv
<1>8. TablesInv BY DEF Init, TablesInv, IsOffsets, IsMarks, IsLogDirs
<1>9. CallInv BY DEF Init, CallInv
<1> QED BY <1>1, <1>7, <1>8, <1>9 DEF ViewsInv

LEMMA PartsFacts == Parts \subseteq Nat \ {0} /\ \A n \in Parts \union {0} : n \in Nat /\ 1..n \subseteq Parts
<1>1. IsFiniteSet(Parts) /\ Parts = 1..Cardinality(Parts) BY ViewsAssumption
<1>2. Cardinality(Parts) \in Nat BY <1>1, FS_CardinalityType
<1> DEFINE c == Cardinality(Parts)
<1> HIDE DEF c
<1>3. c \in Nat /\ Parts = 1..c BY <1>1, <1>2 DEF c
<1> QED BY <1>3

LEMMA KafkaChangesKeeps == ASSUME KafkaInv, KafkaChanges PROVE KafkaInv'
<1> DEFINE Entries == [low : Nat, high : Nat, up : BOOLEAN]
<1>1. fetch' = fetch BY DEF KafkaChanges, Change, lane
<1>2. ASSUME NEW p \in 1..count PROVE p \in Parts /\ log[p] \in Entries
  BY PartsFacts DEF KafkaInv
<1>3. ASSUME UNCHANGED <<count, group, committed, disk>>, log' \in [Parts -> Entries] PROVE KafkaInv'
  BY <1>1, <1>3 DEF KafkaInv, IsPositions
<1>4. ASSUME NEW p \in 1..count, log' = [log EXCEPT ![p].high = @ + 1], UNCHANGED <<count, group, committed, disk>>
      PROVE  KafkaInv'
  <2>1. log' \in [Parts -> Entries] BY <1>2, <1>4 DEF KafkaInv
  <2> QED BY <1>3, <1>4, <2>1
<1>5. ASSUME NEW p \in 1..count, log' = [log EXCEPT ![p].low = log[p].high], UNCHANGED <<count, group, committed, disk>>
      PROVE  KafkaInv'
  <2>1. log' \in [Parts -> Entries] BY <1>2, <1>5 DEF KafkaInv
  <2> QED BY <1>3, <1>5, <2>1
<1>6. ASSUME NEW p \in 1..count, log' = [log EXCEPT ![p].up = ~@], UNCHANGED <<count, group, committed, disk>>
      PROVE  KafkaInv'
  <2>1. log' \in [Parts -> Entries] BY <1>2, <1>6 DEF KafkaInv
  <2> QED BY <1>3, <1>6, <2>1
<1>7. ASSUME NEW n \in Parts \union {0}, count' = n,
             log' = [p \in Parts |-> IF p <= count /\ n > 0 THEN log[p]
                                     ELSE [low |-> 0, high |-> 0, up |-> TRUE]],
             UNCHANGED <<group, committed, disk>>
      PROVE  KafkaInv'
  <2>1. log' \in [Parts -> Entries] BY <1>7 DEF KafkaInv
  <2> QED BY <1>1, <1>7, <2>1 DEF KafkaInv, IsPositions
<1>8. ASSUME NEW g \in Groups \union {NoGroup}, Held(g) \subseteq 1..count, group' = g,
             UNCHANGED <<count, log, committed, disk>>
      PROVE  KafkaInv'
  <2>1. count \in Nat BY PartsFacts DEF KafkaInv
  <2>2. IsFiniteSet(1..count) BY <2>1, FS_Interval
  <2>3. IsFiniteSet(Held(g)) BY <1>8, <2>2, FS_Subset
  <2> QED BY <1>1, <1>8, <2>3 DEF KafkaInv, IsPositions
<1>9. ASSUME NEW p \in 1..count,
             committed' = [q \in DOMAIN committed \union {p} |->
                             IF q = p THEN log[p].high ELSE committed[q]],
             UNCHANGED <<count, log, group, disk>>
      PROVE  KafkaInv'
  <2>1. IsFiniteSet(DOMAIN committed) BY DEF KafkaInv, IsPositions
  <2>2. IsFiniteSet(DOMAIN committed \union {p}) BY <2>1, FS_AddElement
  <2>3. log[p].high \in Nat BY <1>2
  <2>4. \A q \in DOMAIN committed : committed[q] \in Nat BY DEF KafkaInv, IsPositions
  <2>5. DOMAIN committed' = DOMAIN committed \union {p} BY <1>9
  <2>6. ASSUME NEW q \in DOMAIN committed' PROVE committed'[q] \in Nat
    BY <1>9, <2>3, <2>4, <2>5, <2>6
  <2>7. IsPositions(committed') BY <2>2, <2>5, <2>6 DEF IsPositions
  <2> QED BY <1>1, <1>9, <2>7 DEF KafkaInv, IsPositions
<1>10. ASSUME NEW d \in Disks, disk' = d, UNCHANGED <<count, log, group, committed>> PROVE KafkaInv'
  BY <1>1, <1>10 DEF KafkaInv, IsPositions
<1> QED BY <1>4, <1>5, <1>6, <1>7, <1>8, <1>9, <1>10 DEF KafkaChanges, Change

LEMMA SameKafka == ASSUME KafkaInv, UNCHANGED <<kafka, fetch>> PROVE KafkaInv'
BY DEF kafka, KafkaInv, IsPositions

LEMMA SameTables == ASSUME TablesInv, UNCHANGED tables PROVE TablesInv'
BY DEF tables, TablesInv, IsTopology, IsOffsets, IsMarks, IsLogDirs

LEMMA FunctionIsSeq == ASSUME NEW n \in Nat, NEW S, NEW f \in [1..n -> S] PROVE f \in Seq(S)
OBVIOUS

LEMMA AssembleFacts == ASSUME KafkaInv PROVE IsTopology(Assemble) /\ Assemble # Null
<1>1. Brokers \in SUBSET Nat /\ Brokers # {} BY ViewsAssumption
<1> DEFINE first == Min(Brokers)
           Entry(p) == [replicas |-> Brokers, leader |-> IF log[p].up THEN first ELSE -1,
                        isr |-> IF log[p].up THEN Brokers ELSE {first}]
           Entries == [replicas : SUBSET Brokers, leader : Int, isr : SUBSET Brokers]
<1>2. first \in Brokers BY <1>1, LeastNumber
<1> HIDE DEF first
<1>3. first \in Nat /\ first \in Int BY <1>1, <1>2
<1>4. ASSUME NEW p \in 1..count PROVE Entry(p) \in Entries BY <1>2, <1>3
<1>5. count \in Nat BY PartsFacts DEF KafkaInv
<1>6. [p \in 1..count |-> Entry(p)] \in Seq(Entries)
  <2> DEFINE f == [p \in 1..count |-> Entry(p)]
  <2> HIDE DEF Entry, Entries
  <2>1. f \in [1..count -> Entries] BY <1>4
  <2> HIDE DEF f
  <2>2. f \in Seq(Entries) BY <1>5, <2>1, FunctionIsSeq
  <2> QED BY <2>2 DEF f
<1>7. Assemble = [parts |-> [p \in 1..count |-> Entry(p)], group |-> group] BY DEF Assemble, first
<1>8. Assemble \in Topologies /\ Assemble.group = group
  <2> DEFINE parts == [p \in 1..count |-> Entry(p)]
  <2>1. Assemble = [parts |-> parts, group |-> group] BY <1>7
  <2>2. parts \in Seq(Entries) BY <1>6
  <2> HIDE DEF parts
  <2> QED BY <2>1, <2>2 DEF Topologies, KafkaInv
<1> QED BY <1>8, NothingAssumption DEF IsTopology, KafkaInv

LEMMA PollTopologyKeeps == ASSUME ViewsInv, PollTopology PROVE KafkaInv' /\ TablesInv' /\ CallInv'
<1>1. IsTopology(Assemble) /\ Assemble # Null BY AssembleFacts DEF ViewsInv
<1>2. /\ topology' = Assemble /\ UNCHANGED call
      /\ UNCHANGED <<kafka, fetch, offsets, marks, logDirs>>
  BY DEF PollTopology
<1>3. KafkaInv' BY <1>2, SameKafka DEF ViewsInv
<1>4. TablesInv' BY <1>1, <1>2 DEF ViewsInv, TablesInv, IsTopology, IsOffsets, IsMarks, IsLogDirs
<1>5. CallInv' BY <1>1, <1>2, SameCall DEF ViewsInv
<1> QED BY <1>3, <1>4, <1>5

LEMMA PollOffsetsKeeps == ASSUME ViewsInv, PollOffsets PROVE KafkaInv' /\ TablesInv' /\ CallInv'
<1>1. /\ offsets' = committed /\ UNCHANGED call
      /\ UNCHANGED <<kafka, fetch, topology, marks, logDirs>>
  BY DEF PollOffsets, lane
<1>2. KafkaInv' BY <1>1, SameKafka DEF ViewsInv
<1>3. IsOffsets(committed) BY DEF ViewsInv, KafkaInv, IsPositions, IsOffsets
<1>4. TablesInv' BY <1>1, <1>3 DEF ViewsInv, TablesInv, IsTopology, IsOffsets, IsMarks, IsLogDirs
<1>5. CallInv' BY <1>1, SameCall DEF ViewsInv
<1> QED BY <1>2, <1>4, <1>5

LEMMA PollLogDirsKeeps == ASSUME ViewsInv, PollLogDirs PROVE KafkaInv' /\ TablesInv' /\ CallInv'
<1>1. /\ logDirs' = LogDirTable(disk) /\ UNCHANGED call
      /\ UNCHANGED <<kafka, fetch, topology, marks, offsets>>
  BY DEF PollLogDirs, lane
<1>2. KafkaInv' BY <1>1, SameKafka DEF ViewsInv
<1>3. disk \in Disks BY DEF ViewsInv, KafkaInv
<1>4. IsLogDirs(logDirs') BY <1>1, <1>3 DEF IsLogDirs
<1>5. TablesInv' BY <1>1, <1>4 DEF ViewsInv, TablesInv, IsTopology, IsOffsets, IsMarks, IsLogDirs
<1>6. CallInv' BY <1>1, SameCall DEF ViewsInv
<1> QED BY <1>2, <1>5, <1>6

LEMMA FoundFacts ==
  ASSUME KafkaInv, NEW wanted, NEW what, NEW got \in Found(wanted, what)
  PROVE  IsPositions(got)
<1>1. PICK known \in SUBSET (wanted \cap 1..count) :
        got = [p \in known |-> IF what = "low" THEN log[p].low ELSE log[p].high]
  BY DEF Found
<1>2. count \in Nat /\ 1..count \subseteq Parts BY PartsFacts DEF KafkaInv
<1>3. IsFiniteSet(1..count) BY <1>2, FS_Interval
<1>4. known \in SUBSET (1..count) BY <1>1
<1>5. IsFiniteSet(known) BY <1>3, <1>4, FS_Subset
<1>6. \A p \in known : log[p].low \in Nat /\ log[p].high \in Nat BY <1>2, <1>4 DEF KafkaInv
<1> QED BY <1>1, <1>5, <1>6 DEF IsPositions

LEMMA StartFetchKeeps ==
  ASSUME ViewsInv, NEW refresh \in BOOLEAN, StartFetch(refresh)
  PROVE  KafkaInv' /\ TablesInv' /\ CallInv'
<1>1. UNCHANGED <<kafka, tables, rate, call>> BY DEF StartFetch
<1>2. PICK first : \E got \in Found(WantedPartitions, first) : fetch'.got = got
  BY DEF StartFetch
<1>3. PICK got \in Found(WantedPartitions, first) : fetch'.got = got BY <1>2
<1>4. IsPositions(fetch'.got) BY <1>3, FoundFacts DEF ViewsInv
<1>5. KafkaInv' BY <1>1, <1>4 DEF ViewsInv, KafkaInv, IsPositions, kafka
<1>6. TablesInv' /\ CallInv' BY <1>1, SameTables, SameCall DEF ViewsInv, tables
<1> QED BY <1>5, <1>6

LEMMA MergedFacts ==
  ASSUME NEW lows, NEW highs, IsPositions(lows), IsPositions(highs)
  PROVE  IsMarks(MergeWatermarks(lows, highs))
<1> DEFINE low(p) == IF p \in DOMAIN lows THEN lows[p] ELSE highs[p]
           ids == {p \in DOMAIN highs : low(p) <= highs[p]}
           next == MergeWatermarks(lows, highs)
<1>1. next = [p \in ids |-> [low |-> low(p), high |-> highs[p]]] BY DEF MergeWatermarks
<1>2. ids \in SUBSET (DOMAIN highs) OBVIOUS
<1>3. \A p \in DOMAIN highs : low(p) \in Nat /\ highs[p] \in Nat BY DEF IsPositions
<1>4. \A p \in ids : next[p].low \in Nat /\ next[p].high \in Nat /\ next[p].low <= next[p].high
  BY <1>1, <1>3
<1>5. DOMAIN next = ids BY <1>1
<1> HIDE DEF next, ids
<1>6. IsFiniteSet(ids) BY <1>2, FS_Subset DEF IsPositions
<1> QED BY <1>4, <1>5, <1>6 DEF IsMarks, next

LEMMA EndFetchKeeps == ASSUME ViewsInv, EndFetch PROVE KafkaInv' /\ TablesInv' /\ CallInv'
<1> DEFINE Lows(rest, highs) ==
             IF fetch.first = "low" THEN fetch.got
             ELSE IF fetch.full THEN rest
             ELSE [p \in DOMAIN rest \union (DOMAIN highs \ Uncached(highs)) |->
                     IF p \in DOMAIN rest THEN rest[p] ELSE marks[p].low]
           Highs(rest) == IF fetch.first = "high" THEN fetch.got ELSE rest
<1>1. /\ fetch # Null /\ fetch' = Null /\ UNCHANGED <<kafka, topology, offsets, logDirs, call>>
  BY DEF EndFetch
<1>2. PICK wanted, what : \E rest \in Found(wanted, what) :
        LET next == MergeWatermarks(Lows(rest, Highs(rest)), Highs(rest)) IN
        IF Diff(next) THEN marks' = next ELSE UNCHANGED marks
  BY DEF EndFetch
<1>3. PICK rest \in Found(wanted, what) :
        LET next == MergeWatermarks(Lows(rest, Highs(rest)), Highs(rest)) IN
        IF Diff(next) THEN marks' = next ELSE UNCHANGED marks
  BY <1>2
<1> DEFINE highs == Highs(rest)
           lows == Lows(rest, highs)
           next == MergeWatermarks(lows, highs)
<1>4. IsPositions(rest) BY FoundFacts DEF ViewsInv
<1>5. IsPositions(fetch.got) BY <1>1 DEF ViewsInv, KafkaInv
<1>6. IsPositions(highs) BY <1>4, <1>5
<1>7. IsPositions(lows)
  <2>1. CASE fetch.first = "low" BY <1>5, <2>1
  <2>2. CASE fetch.first # "low" /\ fetch.full BY <1>4, <2>2
  <2>3. CASE fetch.first # "low" /\ ~fetch.full
    <3> HIDE DEF highs
    <3>1. lows = [p \in DOMAIN rest \union (DOMAIN highs \ Uncached(highs)) |->
                     IF p \in DOMAIN rest THEN rest[p] ELSE marks[p].low]
      BY <2>3
    <3>2. marks # Null BY <1>1, <2>3 DEF ViewsInv, MarksInv, CachedFetch
    <3>3. \A p \in DOMAIN highs \ Uncached(highs) : p \in DOMAIN marks BY DEF Uncached
    <3>4. \A p \in DOMAIN marks : marks[p].low \in Nat BY <3>2 DEF ViewsInv, TablesInv, IsMarks
    <3>5. \A p \in DOMAIN rest : rest[p] \in Nat BY <1>4 DEF IsPositions
    <3> DEFINE D == DOMAIN highs \ Uncached(highs)
    <3>6. D \in SUBSET (DOMAIN highs) OBVIOUS
    <3>7. IsFiniteSet(D)
      <4> HIDE DEF D
      <4> QED BY <1>6, <3>6, FS_Subset DEF IsPositions
    <3>8. IsFiniteSet(DOMAIN rest \union D)
      <4> HIDE DEF D
      <4> QED BY <1>4, <3>7, FS_Union DEF IsPositions
    <3> HIDE DEF lows
    <3> QED BY <3>1, <3>3, <3>4, <3>5, <3>8 DEF IsPositions
  <2> QED BY <2>1, <2>2, <2>3
<1> HIDE DEF highs, lows
<1>8. IsMarks(next) BY <1>6, <1>7, MergedFacts
<1>9. IF Diff(next) THEN marks' = next ELSE UNCHANGED marks
  BY <1>3 DEF highs, lows
<1> HIDE DEF next
<1>10. KafkaInv' BY <1>1 DEF ViewsInv, KafkaInv, IsPositions, kafka
<1>11. IsMarks(marks') BY <1>8, <1>9 DEF ViewsInv, TablesInv, IsMarks
<1>12. TablesInv' BY <1>1, <1>11 DEF ViewsInv, TablesInv, IsTopology, IsOffsets, IsLogDirs, IsMarks
<1>13. CallInv' BY <1>1, SameCall DEF ViewsInv
<1> QED BY <1>10, <1>12, <1>13

LEMMA CallKeeps ==
  ASSUME ViewsInv, NEW name \in Tools, Call(name) PROVE KafkaInv' /\ TablesInv' /\ CallInv'
<1> DEFINE first(names, table) == IF name \in names THEN table ELSE Null
<1>1. UNCHANGED <<kafka, tables, fetch, rate>> BY DEF Call, lane
<1>2. UNCHANGED <<topology, marks, logDirs>> BY <1>1 DEF tables
<1>3. call' = [tool |-> name,
               topology |-> first({"clusters", "cluster", "topics_list", "group_describe"}, topology),
               marks |-> first({"topics_list", "topic_describe"}, marks),
               logDirs |-> first({"brokers_list"}, logDirs),
               detail |-> first({"topic_describe"}, TopicPage)]
  BY DEF Call
<1>4. /\ topology # Null \/ name = "clusters"
      /\ name = "topic_describe" => TopicPage # Null
  BY DEF Call
<1>5. KafkaInv' /\ TablesInv' BY <1>1, SameKafka, SameTables DEF ViewsInv
<1>7. /\ call'.tool = name /\ call'.topology \in {Null, topology}
      /\ name = "topic_describe" => call'.marks = marks /\ call'.detail = TopicPage
  BY <1>3
<1>8. ASSUME name = "topic_describe"
      PROVE  TopicPage.retained =
               SumOf([p \in DOMAIN TopicPage.partitions |-> Retained(TopicPage.partitions[p])])
             /\ \A p \in DOMAIN TopicPage.partitions :
                  HasMark(marks, p) => TopicPage.partitions[p].high = marks[p].high
  <2>1. /\ TopicPage.partitions = Rows
        /\ TopicPage.retained = SumOf([p \in PartitionIds(topology) |-> Retained(Rows[p])])
    BY <1>4, <1>8, DetailIs
  <2>2. DOMAIN Rows = PartitionIds(topology) BY DEF Rows
  <2>3. ASSUME NEW p \in PartitionIds(topology), HasMark(marks, p) PROVE Rows[p].high = marks[p].high
    <3>1. Rows[p] = PartitionRow(topology, marks, logDirs, p) BY DEF Rows
    <3> QED BY <2>3, <3>1, RowMeasured
  <2> QED BY <2>1, <2>2, <2>3
<1>9. call'.topology = Null \/ IsTopology(call'.topology) BY <1>7 DEF ViewsInv, TablesInv
<1>10. CallInv' BY <1>2, <1>4, <1>7, <1>8, <1>9 DEF CallInv
<1> QED BY <1>5, <1>10

LEMMA ViewsInvNext == ASSUME ViewsInv, [Next]_vars PROVE ViewsInv'
<1>1. MarksInv' BY MarksInvNext DEF ViewsInv
<1>2. ASSUME UNCHANGED <<kafka, tables, fetch, rate, call>> PROVE KafkaInv' /\ TablesInv' /\ CallInv'
  BY <1>2, SameKafka, SameTables, SameCall DEF ViewsInv, tables
<1> USE DEF lane
<1>3. CASE KafkaChanges
  <2>1. UNCHANGED <<tables, rate, call>> BY <1>3 DEF KafkaChanges, Change
  <2>2. KafkaInv' BY <1>3, KafkaChangesKeeps DEF ViewsInv
  <2>3. TablesInv' /\ CallInv' BY <2>1, SameTables, SameCall DEF ViewsInv, tables
  <2> QED BY <1>1, <2>2, <2>3 DEF ViewsInv
<1>4. CASE PollTopology BY <1>1, <1>4, PollTopologyKeeps DEF ViewsInv
<1>5. CASE PollOffsets BY <1>1, <1>5, PollOffsetsKeeps DEF ViewsInv
<1>6. CASE PollLogDirs BY <1>1, <1>6, PollLogDirsKeeps DEF ViewsInv
<1>7. ASSUME NEW refresh \in BOOLEAN, StartFetch(refresh) PROVE ViewsInv'
  BY <1>1, <1>7, StartFetchKeeps DEF ViewsInv
<1>8. CASE EndFetch BY <1>1, <1>8, EndFetchKeeps DEF ViewsInv
<1>9. CASE FetchFails
  <2>1. fetch' = Null /\ UNCHANGED <<kafka, tables, rate, call>> BY <1>9 DEF FetchFails
  <2>2. KafkaInv' BY <2>1 DEF ViewsInv, KafkaInv, IsPositions, kafka
  <2>3. TablesInv' /\ CallInv' BY <2>1, SameTables, SameCall DEF ViewsInv, tables
  <2> QED BY <1>1, <2>2, <2>3 DEF ViewsInv
<1>10. CASE Tick
  <2>1. UNCHANGED <<kafka, tables, fetch, rate, call>> BY <1>10 DEF Tick
  <2> QED BY <1>1, <1>2, <2>1 DEF ViewsInv
<1>11. ASSUME NEW name \in Tools, Call(name) PROVE ViewsInv'
  BY <1>1, <1>11, CallKeeps DEF ViewsInv
<1>12. CASE Reply
  <2>1. call' = Null /\ UNCHANGED <<kafka, tables, fetch>> BY <1>12 DEF Reply
  <2>2. KafkaInv' /\ TablesInv' BY <2>1, SameKafka, SameTables DEF ViewsInv
  <2>3. CallInv' BY <2>1 DEF CallInv
  <2> QED BY <1>1, <2>2, <2>3 DEF ViewsInv
<1>13. CASE CutReply
  <2>1. UNCHANGED <<kafka, tables, fetch, rate, call>> BY <1>13 DEF CutReply
  <2> QED BY <1>1, <1>2, <2>1 DEF ViewsInv
<1>14. CASE UNCHANGED vars
  <2>1. UNCHANGED <<kafka, tables, fetch, rate, call>> BY <1>14 DEF vars
  <2> QED BY <1>1, <1>2, <2>1 DEF ViewsInv
<1> QED BY <1>3, <1>4, <1>5, <1>6, <1>7, <1>8, <1>9, <1>10, <1>11, <1>12, <1>13, <1>14 DEF Next

\* Of tables that were the same at each load of a tool, a reply tells no number
\* that was not measured; whatever lanes commit between the loads, it names one
\* member at most and only for a lag that is known, and loses no topic; and the
\* totals of the pages are the sums of what they list (kafka/store/projections.rs,
\* mcp/tools).
THEOREM ViewsAlwaysTellTheTables == Spec => []ViewsTellTheTables
<1>1. Init => ViewsInv BY ViewsInitially
<1>2. ViewsInv /\ [Next]_vars => ViewsInv' BY ViewsInvNext
<1>3. ViewsInv => ViewsTellTheTables BY AnswersHold, TotalsHold DEF ViewsInv, ViewsTellTheTables
<1> QED BY <1>1, <1>2, <1>3, PTL DEF Spec
-----------------------------------------------------------------------------
(* Rates.                                                                    *)

\* The log is ahead of the table only by what was produced since the commit,
\* ahead of a reading only by what was produced since it started, and a rate
\* above 0 is of records that were produced within max_sample_gap of the commit.
RateInv ==
  /\ producedAt \in Nat /\ producedAt <= now
  /\ marks # Null =>
       /\ DOMAIN marks \subseteq Parts
       /\ \A p \in DOMAIN marks : log[p].high > marks[p].high => producedAt >= committedAt
       /\ rate # Null => DOMAIN marks = {} \/ rate = 0 \/ committedAt - producedAt <= MaxSampleGap
  /\ fetch # Null /\ fetch.first = "high" =>
       /\ DOMAIN fetch.got \subseteq Parts
       /\ \A p \in DOMAIN fetch.got : log[p].high > fetch.got[p] => producedAt = now
       /\ marks # Null => \A p \in DOMAIN fetch.got \cap DOMAIN marks :
            fetch.got[p] > marks[p].high => producedAt >= committedAt
  /\ fetch # Null => fetch.first = "high" \/ (fetch.first = "low" /\ fetch.full)

\* A sum that is not 0 has a part that is not.
LEMMA SumOfNothing ==
  ASSUME NEW f, \A x \in DOMAIN f : f[x] = 0 PROVE SumOf(f) = 0
<1>1. Units(f) = {} BY DEF Units
<1> QED BY <1>1, FS_EmptySet DEF SumOf

LEMMA FoundHighs ==
  ASSUME KafkaInv, NEW wanted, NEW got \in Found(wanted, "high")
  PROVE  DOMAIN got \subseteq Parts /\ \A p \in DOMAIN got : got[p] = log[p].high
<1>1. PICK known \in SUBSET (wanted \cap 1..count) : got = [p \in known |-> log[p].high]
  BY DEF Found
<1>2. 1..count \subseteq Parts BY PartsFacts DEF KafkaInv
<1> QED BY <1>1, <1>2

LEMMA KafkaChangesRate ==
  ASSUME MarksInv, KafkaInv, KafkaInv', TablesInv, RateInv, KafkaChanges PROVE RateInv'
<1>1. /\ UNCHANGED <<marks, fetch, committedAt, rate, now>>
      /\ producedAt' = IF \E p \in Parts : log'[p].high > log[p].high THEN now ELSE producedAt
  BY DEF KafkaChanges, Change, tables, lane
<1>2. /\ now \in Nat /\ committedAt \in Nat \union {Null} /\ (committedAt # Null => committedAt <= now)
      /\ (marks # Null => committedAt # Null)
      /\ producedAt \in Nat /\ producedAt <= now /\ MaxSampleGap \in Nat
  BY ViewsAssumption DEF MarksInv, LaneTypes, LowsRead, RateInv
<1>3. producedAt' \in Nat /\ producedAt <= producedAt' /\ producedAt' <= now BY <1>1, <1>2
<1>4. \A p \in Parts : log[p].high \in Nat /\ log'[p].high \in Nat BY DEF KafkaInv
<1>5. \A p \in Parts : log'[p].high > log[p].high => producedAt' = now BY <1>1
<1>6. ASSUME marks # Null
      PROVE  /\ DOMAIN marks \subseteq Parts
             /\ \A p \in DOMAIN marks : log'[p].high > marks[p].high => producedAt' >= committedAt
             /\ rate # Null => DOMAIN marks = {} \/ rate = 0 \/ committedAt - producedAt' <= MaxSampleGap
  <2>1. DOMAIN marks \subseteq Parts BY <1>6 DEF RateInv
  <2>2. committedAt \in Nat /\ committedAt <= now BY <1>2, <1>6
  <2>3. ASSUME NEW p \in DOMAIN marks, log'[p].high > marks[p].high PROVE producedAt' >= committedAt
    <3>1. CASE log'[p].high > log[p].high BY <1>5, <1>2, <2>1, <2>2, <3>1
    <3>2. CASE ~(log'[p].high > log[p].high)
      <4>1. marks[p].high \in Nat BY <1>6 DEF TablesInv, IsMarks
      <4>2. log[p].high > marks[p].high BY <1>4, <2>1, <2>3, <3>2, <4>1
      <4>3. producedAt >= committedAt BY <1>6, <4>2 DEF RateInv
      <4> QED BY <1>2, <1>3, <2>2, <4>3
    <3> QED BY <3>1, <3>2
  <2>4. rate # Null => DOMAIN marks = {} \/ rate = 0 \/ committedAt - producedAt <= MaxSampleGap
    BY <1>6 DEF RateInv
  <2>5. committedAt - producedAt <= MaxSampleGap => committedAt - producedAt' <= MaxSampleGap
    <3>1. \A a, b, c, d \in Nat : b <= c /\ a - b <= d => a - c <= d OBVIOUS
    <3> QED BY <1>2, <1>3, <2>2, <3>1
  <2> QED BY <2>1, <2>3, <2>4, <2>5
<1>7. ASSUME fetch # Null, fetch.first = "high"
      PROVE  /\ DOMAIN fetch.got \subseteq Parts
             /\ \A p \in DOMAIN fetch.got : log'[p].high > fetch.got[p] => producedAt' = now
             /\ marks # Null => \A p \in DOMAIN fetch.got \cap DOMAIN marks :
                  fetch.got[p] > marks[p].high => producedAt' >= committedAt
  <2>1. DOMAIN fetch.got \subseteq Parts BY <1>7 DEF RateInv
  <2>2. ASSUME NEW p \in DOMAIN fetch.got, log'[p].high > fetch.got[p] PROVE producedAt' = now
    <3>1. CASE log'[p].high > log[p].high BY <1>5, <2>1, <3>1
    <3>2. CASE ~(log'[p].high > log[p].high)
      <4>1. fetch.got[p] \in Nat BY <1>7 DEF KafkaInv, IsPositions
      <4>2. log[p].high > fetch.got[p] BY <1>4, <2>1, <2>2, <3>2, <4>1
      <4>3. producedAt = now BY <1>7, <4>2 DEF RateInv
      <4> QED BY <1>2, <1>3, <4>3
    <3> QED BY <3>1, <3>2
  <2>3. ASSUME marks # Null, NEW p \in DOMAIN fetch.got \cap DOMAIN marks, fetch.got[p] > marks[p].high
        PROVE  producedAt' >= committedAt
    <3>1. producedAt >= committedAt BY <1>7, <2>3 DEF RateInv
    <3>2. committedAt \in Nat BY <1>2, <2>3
    <3> QED BY <1>2, <1>3, <3>1, <3>2
  <2> QED BY <2>1, <2>2, <2>3
<1>8. fetch # Null => fetch.first = "high" \/ (fetch.first = "low" /\ fetch.full) BY DEF RateInv
<1> QED BY <1>1, <1>3, <1>6, <1>7, <1>8 DEF RateInv

LEMMA StartFetchRate ==
  ASSUME MarksInv, KafkaInv, RateInv, NEW refresh \in BOOLEAN, StartFetch(refresh) PROVE RateInv'
<1> DEFINE full == marks = Null \/ refresh \/ LowDue
<1>1. UNCHANGED <<log, marks, committedAt, rate, now, producedAt>>
  BY DEF StartFetch, kafka, tables, history
<1>2. PICK first \in IF full THEN {"low", "high"} ELSE {"high"} :
        \E got \in Found(WantedPartitions, first) :
          fetch' = [full |-> full, first |-> first, got |-> got, wanted |-> WantedPartitions]
  BY DEF StartFetch
<1>3. PICK got \in Found(WantedPartitions, first) :
        fetch' = [full |-> full, first |-> first, got |-> got, wanted |-> WantedPartitions]
  BY <1>2
<1> HIDE DEF full
<1>4. fetch'.first = first /\ fetch'.got = got /\ fetch'.full = full BY <1>3
<1>5. first = "high" \/ (first = "low" /\ full) BY <1>2
<1>6. ASSUME first = "high"
      PROVE  DOMAIN got \subseteq Parts /\ \A p \in DOMAIN got : got[p] = log[p].high
  BY <1>3, <1>6, FoundHighs
<1>7. \A p \in Parts : log[p].high \in Nat BY DEF KafkaInv
<1>8. ASSUME first = "high", NEW p \in DOMAIN got PROVE ~(log[p].high > got[p])
  BY <1>6, <1>7, <1>8
<1> QED BY <1>1, <1>4, <1>5, <1>6, <1>8 DEF RateInv

LEMMA EndFetchRate == ASSUME ViewsInv, RateInv, EndFetch PROVE RateInv'
<1> DEFINE Lows(rest, highs) ==
             IF fetch.first = "low" THEN fetch.got
             ELSE IF fetch.full THEN rest
             ELSE [p \in DOMAIN rest \union (DOMAIN highs \ Uncached(highs)) |->
                     IF p \in DOMAIN rest THEN rest[p] ELSE marks[p].low]
           Highs(rest) == IF fetch.first = "high" THEN fetch.got ELSE rest
           Asked == IF fetch.full THEN Found(fetch.wanted, IF fetch.first = "low" THEN "high" ELSE "low")
                    ELSE Found(Uncached(fetch.got), "low")
           Commit(next) == IF Diff(next)
                           THEN marks' = next /\ rate' = KeepChanged(next) /\ committedAt' = now
                           ELSE UNCHANGED <<marks, rate, committedAt>>
<1>1. fetch # Null /\ fetch' = Null /\ UNCHANGED <<log, now, producedAt>> BY DEF EndFetch, kafka
<1>2. PICK rest \in Asked : Commit(MergeWatermarks(Lows(rest, Highs(rest)), Highs(rest)))
  BY DEF EndFetch
<1> DEFINE highs == Highs(rest)
           lows == Lows(rest, highs)
           next == MergeWatermarks(lows, highs)
<1>3. KafkaInv /\ MarksInv /\ TablesInv BY DEF ViewsInv
<1>4. \A p \in Parts : log[p].high \in Nat BY <1>3 DEF KafkaInv
<1>5. /\ DOMAIN highs \subseteq Parts
      /\ \A p \in DOMAIN highs : log[p].high > highs[p] => producedAt = now
      /\ marks # Null => \A p \in DOMAIN highs \cap DOMAIN marks :
           highs[p] > marks[p].high => producedAt >= committedAt
  <2>1. CASE fetch.first = "high" BY <1>1, <2>1 DEF RateInv
  <2>2. CASE fetch.first # "high"
    <3>1. fetch.first = "low" /\ fetch.full BY <1>1, <2>2 DEF RateInv
    <3>2. rest \in Found(fetch.wanted, "high") BY <1>2, <3>1
    <3>3. highs = rest BY <2>2
    <3> HIDE DEF highs
    <3>4. DOMAIN highs \subseteq Parts /\ \A p \in DOMAIN highs : highs[p] = log[p].high
      BY <1>3, <3>2, <3>3, FoundHighs
    <3>5. ASSUME NEW p \in DOMAIN highs PROVE ~(log[p].high > highs[p]) BY <1>4, <3>4
    <3> QED BY <3>4, <3>5 DEF RateInv
  <2> QED BY <2>1, <2>2
<1> HIDE DEF highs, lows
<1>6. /\ DOMAIN next \subseteq DOMAIN highs /\ \A p \in DOMAIN next : next[p].high = highs[p]
  BY DEF MergeWatermarks
<1>7. Commit(next) BY <1>2 DEF highs, lows
<1> HIDE DEF next
<1>8. CASE ~Diff(next)
  BY <1>1, <1>7, <1>8 DEF RateInv
<1>9. CASE Diff(next)
  <2>1. marks' = next /\ rate' = KeepChanged(next) /\ committedAt' = now BY <1>7, <1>9
  <2>2. /\ now \in Nat /\ committedAt \in Nat \union {Null} /\ MaxSampleGap \in Nat
        /\ producedAt \in Nat /\ producedAt <= now /\ (marks # Null => committedAt # Null)
    BY <1>3, ViewsAssumption DEF MarksInv, LaneTypes, LowsRead, RateInv
  <2>3. ASSUME NEW p \in DOMAIN next, log[p].high > next[p].high PROVE producedAt >= now
    BY <1>5, <1>6, <2>2, <2>3
  <2>4. ASSUME DOMAIN next # {}, KeepChanged(next) # 0 PROVE now - producedAt <= MaxSampleGap
    <3> DEFINE elapsed == IF committedAt = Null THEN 0 ELSE now - committedAt
               before(p) == IF p \in DOMAIN marks THEN marks[p].high ELSE next[p].high
               produced(p) == LET more == next[p].high - before(p) IN IF more > 0 THEN more ELSE 0
               parts == [p \in DOMAIN next |-> produced(p)]
    <3>1. ~(marks = Null \/ elapsed = 0 \/ elapsed > MaxSampleGap) /\ SumOf(parts) # 0
      BY <2>4 DEF KeepChanged, RateBetween
    <3>2. PICK p \in DOMAIN next : parts[p] # 0
      <4> HIDE DEF produced
      <4>1. DOMAIN parts = DOMAIN next OBVIOUS
      <4> HIDE DEF parts
      <4> QED BY <3>1, <4>1, SumOfNothing
    <3>3. next[p].high - before(p) > 0 BY <3>2
    <3>4. p \in DOMAIN marks
      <4>1. SUFFICES ASSUME p \notin DOMAIN marks PROVE FALSE OBVIOUS
      <4>2. next[p].high - next[p].high > 0 BY <3>3, <4>1
      <4>3. p \in DOMAIN highs /\ next[p].high = highs[p] BY <1>6
      <4>4. highs[p] \in Nat
        <5>1. IsPositions(fetch.got) BY <1>1, <1>3 DEF KafkaInv
        <5>2. IsPositions(rest) BY <1>2, <1>3, FoundFacts
        <5> QED BY <4>3, <5>1, <5>2 DEF highs, IsPositions
      <4> QED BY <4>2, <4>3, <4>4
    <3>5. marks # Null BY <3>1
    <3>6. next[p].high - marks[p].high > 0 BY <3>3, <3>4
    <3>7. marks[p].high \in Nat /\ next[p].high \in Nat
      <4>1. marks[p].high \in Nat BY <1>3, <3>4, <3>5 DEF TablesInv, IsMarks
      <4>2. p \in DOMAIN highs /\ next[p].high = highs[p] BY <1>6
      <4>3. highs[p] \in Nat
        <5>1. IsPositions(fetch.got) BY <1>1, <1>3 DEF KafkaInv
        <5>2. IsPositions(rest) BY <1>2, <1>3, FoundFacts
        <5> QED BY <4>2, <5>1, <5>2 DEF highs, IsPositions
      <4> QED BY <4>1, <4>2, <4>3
    <3>8. highs[p] > marks[p].high BY <1>6, <3>6, <3>7
    <3>9. producedAt >= committedAt BY <1>5, <1>6, <3>4, <3>5, <3>8
    <3>10. committedAt \in Nat /\ now - committedAt <= MaxSampleGap BY <2>2, <3>1, <3>5
    <3> QED BY <2>2, <3>9, <3>10
  <2>5. DOMAIN next \subseteq Parts BY <1>5, <1>6
  <2> QED BY <1>1, <2>1, <2>2, <2>3, <2>4, <2>5 DEF RateInv
<1> QED BY <1>8, <1>9

LEMMA SameRate ==
  ASSUME RateInv, UNCHANGED <<log, marks, fetch, committedAt, now, producedAt>>, rate' \in {rate, Null}
  PROVE  RateInv'
BY DEF RateInv

LEMMA RateInvNext == ASSUME ViewsInv, ViewsInv', RateInv, [Next]_vars PROVE RateInv'
<1> USE DEF kafka, tables, lane, history
<1>1. CASE KafkaChanges BY <1>1, KafkaChangesRate DEF ViewsInv
<1>2. CASE PollTopology
  <2>1. rate' \in {rate, Null} BY <1>2 DEF PollTopology, RetainRate
  <2> QED BY <1>2, <2>1, SameRate DEF PollTopology
<1>3. CASE PollOffsets BY <1>3, SameRate DEF PollOffsets
<1>4. CASE PollLogDirs BY <1>4, SameRate DEF PollLogDirs
<1>5. ASSUME NEW refresh \in BOOLEAN, StartFetch(refresh) PROVE RateInv'
  BY <1>5, StartFetchRate DEF ViewsInv
<1>6. CASE EndFetch BY <1>6, EndFetchRate
<1>7. CASE FetchFails BY <1>7 DEF FetchFails, RateInv
<1>8. CASE Tick
  <2>1. fetch = Null /\ now' = now + 1 /\ UNCHANGED <<log, marks, fetch, committedAt, rate, producedAt>>
    BY <1>8 DEF Tick
  <2>2. now \in Nat BY DEF ViewsInv, MarksInv, LaneTypes
  <2> QED BY <2>1, <2>2 DEF RateInv
<1>9. ASSUME NEW name \in Tools, Call(name) PROVE RateInv' BY <1>9, SameRate DEF Call
<1>10. CASE Reply BY <1>10, SameRate DEF Reply
<1>11. CASE CutReply BY <1>11, SameRate DEF CutReply
<1>12. CASE UNCHANGED vars BY <1>12, SameRate DEF vars
<1> QED BY <1>1, <1>2, <1>3, <1>4, <1>5, <1>6, <1>7, <1>8, <1>9, <1>10, <1>11, <1>12 DEF Next

\* The lows that the table shows were asked for within low_watermark of the last
\* poll and no low is above its high; and a rate above 0, of a topic with marks,
\* is of records produced less than max_sample_gap and idle_heartbeat before the
\* last poll; whichever lookups fail and however Kafka moves between the two
\* answers of a poll (ingest/watermarks.rs).
THEOREM MarksStayRecent == Spec => []MarksAreRecent
<1>1. Init => ViewsInv /\ RateInv
  <2>1. Init => RateInv BY DEF Init, RateInv
  <2> QED BY <2>1, ViewsInitially
<1>2. ViewsInv /\ RateInv /\ [Next]_vars => (ViewsInv /\ RateInv)'
  BY ViewsInvNext, RateInvNext
<1>3. ViewsInv /\ RateInv => MarksAreRecent
  <2> SUFFICES ASSUME ViewsInv, RateInv, marks # Null PROVE MarksAreRecent BY DEF MarksAreRecent
  <2>1. /\ polledAt \in Nat /\ producedAt \in Nat /\ committedAt \in Nat
        /\ polledAt - committedAt < IdleHeartbeat /\ MaxSampleGap \in Nat /\ IdleHeartbeat \in Nat
    BY ViewsAssumption DEF ViewsInv, MarksInv, LaneTypes, LowsRead, RateInv
  <2>2. committedAt - producedAt <= MaxSampleGap => polledAt - producedAt < MaxSampleGap + IdleHeartbeat
    BY <2>1
  <2>3. rate # Null => DOMAIN marks = {} \/ rate = 0 \/ committedAt - producedAt <= MaxSampleGap
    BY DEF RateInv
  <2>4. \A p \in DOMAIN marks : marks[p].low <= marks[p].high /\ polledAt - askedAt[p] < LowInterval
    BY DEF ViewsInv, MarksInv, LowsRead
  <2> QED BY <2>2, <2>3, <2>4 DEF MarksAreRecent
<1> QED BY <1>1, <1>2, <1>3, PTL DEF Spec
-----------------------------------------------------------------------------
(* Induction over the lists of a rule.                                       *)

\* AfterPatterns is the recursion that it is written as.
LEMMA AfterPatternsDef ==
  ASSUME NEW items, Len(items) \in Nat, NEW base
  PROVE  AfterPatterns(items, base) =
           [i \in 0..Len(items) |->
              IF i = 0 THEN base ELSE Replaced(items[i], AfterPatterns(items, base)[i - 1])]
<1> DEFINE Def(n, f) == f = [i \in 0..n |-> IF i = 0 THEN base ELSE Replaced(items[i], f[i - 1])]
           good == {n \in 0..Len(items) : \E f : Def(n, f)}
<1>1. 0 \in good
  <2>1. Def(0, [i \in 0..0 |-> base]) OBVIOUS
  <2> HIDE DEF Def
  <2>2. \E f : Def(0, f) BY <2>1
  <2> QED BY <2>2
<1>2. ASSUME NEW n \in 1..Len(items), n - 1 \in good PROVE n \in good
  <2>1. PICK f : Def(n - 1, f) BY <1>2
  <2> DEFINE next == Replaced(items[n], f[n - 1])
             g == [i \in 0..n |-> IF i = n THEN next ELSE f[i]]
  <2>2. n \in Nat /\ n # 0 /\ n - 1 \in 0..n /\ n - 1 # n BY <1>2
  <2>3. ASSUME NEW i \in 0..n
        PROVE  g[i] = IF i = 0 THEN base ELSE Replaced(items[i], g[i - 1])
    <3>1. CASE i = n BY <3>1, <2>2
    <3>2. CASE i = 0 BY <3>2, <2>1, <2>2
    <3>3. CASE i # n /\ i # 0
      <4>1. i \in 0..(n - 1) /\ i - 1 \in 0..n /\ i - 1 # n BY <3>3, <2>2
      <4>2. g[i] = f[i] /\ g[i - 1] = f[i - 1] BY <4>1, <3>3
      <4>3. f[i] = Replaced(items[i], f[i - 1]) BY <2>1, <4>1, <3>3
      <4> QED BY <4>2, <4>3, <3>3
    <3> QED BY <3>1, <3>2, <3>3
  <2>4. Def(n, g) BY <2>3
  <2> HIDE DEF Def
  <2>5. \E h : Def(n, h) BY <2>4
  <2> QED BY <2>5
<1>3. 0..Len(items) \subseteq good
  <2> HIDE DEF good
  <2> QED BY <1>1, <1>2, UpTo
<1>4. PICK f : Def(Len(items), f) BY <1>3
<1>5. AfterPatterns(items, base) = CHOOSE h : Def(Len(items), h) BY DEF AfterPatterns
<1> HIDE DEF Def
<1>6. Def(Len(items), CHOOSE h : Def(Len(items), h)) BY <1>4
<1>7. Def(Len(items), AfterPatterns(items, base)) BY <1>5, <1>6
<1> QED BY <1>7 DEF Def

\* And so is AfterFields.
LEMMA AfterFieldsDef ==
  ASSUME NEW items, Len(items) \in Nat, NEW base
  PROVE  AfterFields(items, base) =
           [i \in 0..Len(items) |->
              IF i = 0 THEN base ELSE Walk(AfterFields(items, base)[i - 1], items[i].path, items[i].strategy)]
<1> DEFINE Def(n, f) == f = [i \in 0..n |-> IF i = 0 THEN base ELSE Walk(f[i - 1], items[i].path, items[i].strategy)]
           good == {n \in 0..Len(items) : \E f : Def(n, f)}
<1>1. 0 \in good
  <2>1. Def(0, [i \in 0..0 |-> base]) OBVIOUS
  <2> HIDE DEF Def
  <2>2. \E f : Def(0, f) BY <2>1
  <2> QED BY <2>2
<1>2. ASSUME NEW n \in 1..Len(items), n - 1 \in good PROVE n \in good
  <2>1. PICK f : Def(n - 1, f) BY <1>2
  <2> DEFINE next == Walk(f[n - 1], items[n].path, items[n].strategy)
             g == [i \in 0..n |-> IF i = n THEN next ELSE f[i]]
  <2>2. n \in Nat /\ n # 0 /\ n - 1 \in 0..n /\ n - 1 # n BY <1>2
  <2>3. ASSUME NEW i \in 0..n
        PROVE  g[i] = IF i = 0 THEN base ELSE Walk(g[i - 1], items[i].path, items[i].strategy)
    <3>1. CASE i = n BY <3>1, <2>2
    <3>2. CASE i = 0 BY <3>2, <2>1, <2>2
    <3>3. CASE i # n /\ i # 0
      <4>1. i \in 0..(n - 1) /\ i - 1 \in 0..n /\ i - 1 # n BY <3>3, <2>2
      <4>2. g[i] = f[i] /\ g[i - 1] = f[i - 1] BY <4>1, <3>3
      <4>3. f[i] = Walk(f[i - 1], items[i].path, items[i].strategy) BY <2>1, <4>1, <3>3
      <4> QED BY <4>2, <4>3, <3>3
    <3> QED BY <3>1, <3>2, <3>3
  <2>4. Def(n, g) BY <2>3
  <2> HIDE DEF Def
  <2>5. \E h : Def(n, h) BY <2>4
  <2> QED BY <2>5
<1>3. 0..Len(items) \subseteq good
  <2> HIDE DEF good
  <2> QED BY <1>1, <1>2, UpTo
<1>4. PICK f : Def(Len(items), f) BY <1>3
<1>5. AfterFields(items, base) = CHOOSE h : Def(Len(items), h) BY DEF AfterFields
<1> HIDE DEF Def
<1>6. Def(Len(items), CHOOSE h : Def(Len(items), h)) BY <1>4
<1>7. Def(Len(items), AfterFields(items, base)) BY <1>5, <1>6
<1> QED BY <1>7 DEF Def

-----------------------------------------------------------------------------
(* The rule of the topic.                                                    *)

\* Two prefixes of one name: the shorter is a prefix of the longer.
LEMMA PrefixesMeet ==
  ASSUME NEW s, NEW t, NEW u, s \in Seq(Range(s)), t \in Seq(Range(t)), u \in Seq(Range(u)),
         IsPrefix(s, u), IsPrefix(t, u), Len(s) <= Len(t)
  PROVE  IsPrefix(s, t)
<1>1. Len(s) \in Nat /\ Len(t) \in Nat /\ Len(u) \in Nat OBVIOUS
<1>2. SubSeq(s, 1, Len(s)) = SubSeq(u, 1, Len(s)) /\ SubSeq(t, 1, Len(t)) = SubSeq(u, 1, Len(t))
  BY DEF IsPrefix
<1>3. \A k \in 1..Len(t) : t[k] = u[k]
  <2>1. ASSUME NEW k \in 1..Len(t) PROVE t[k] = u[k]
    <3>1. SubSeq(t, 1, Len(t))[k] = t[k] BY <1>1
    <3>2. SubSeq(u, 1, Len(t))[k] = u[k] BY <1>1 DEF IsPrefix
    <3> QED BY <3>1, <3>2, <1>2
  <2> QED BY <2>1
<1>4. \A k \in 1..Len(s) : s[k] = u[k]
  <2>1. ASSUME NEW k \in 1..Len(s) PROVE s[k] = u[k]
    <3>1. SubSeq(s, 1, Len(s))[k] = s[k] BY <1>1
    <3>2. SubSeq(u, 1, Len(s))[k] = u[k] BY <1>1 DEF IsPrefix
    <3> QED BY <3>1, <3>2, <1>2
  <2> QED BY <2>1
<1>5. \A k \in 1..Len(s) : s[k] = t[k] BY <1>1, <1>3, <1>4
<1>6. SubSeq(s, 1, Len(s)) = SubSeq(t, 1, Len(s)) BY <1>1, <1>5
<1> QED BY <1>6 DEF IsPrefix

\* TopicPattern::overlaps: two patterns for one topic overlap.
LEMMA MatchesOverlap ==
  ASSUME NEW p, NEW q, NEW topic, IsPattern(p), IsPattern(q), topic \in Seq(Range(topic)),
         Matches(p, topic), Matches(q, topic)
  PROVE  Overlaps(p, q)
<1>1. CASE ~p.prefix /\ ~q.prefix BY <1>1 DEF Matches, Overlaps
<1>2. CASE p.prefix /\ ~q.prefix BY <1>2 DEF Matches, Overlaps
<1>3. CASE ~p.prefix /\ q.prefix BY <1>3 DEF Matches, Overlaps
<1>4. CASE p.prefix /\ q.prefix
  <2>1. IsPrefix(p.name, topic) /\ IsPrefix(q.name, topic) BY <1>4 DEF Matches
  <2>2. Len(p.name) \in Nat /\ Len(q.name) \in Nat BY DEF IsPattern
  <2>3. IsPrefix(p.name, q.name) \/ IsPrefix(q.name, p.name)
    <3>1. CASE Len(p.name) <= Len(q.name) BY <3>1, <2>1, PrefixesMeet DEF IsPattern
    <3>2. CASE Len(q.name) <= Len(p.name) BY <3>2, <2>1, PrefixesMeet DEF IsPattern
    <3> QED BY <3>1, <3>2, <2>2
  <2> QED BY <1>4, <2>3 DEF Overlaps
<1> QED BY <1>1, <1>2, <1>3, <1>4 DEF IsPattern

\* The rules of the policy that are for the topic, by name or by prefix.
Having(prefix) ==
  {i \in DOMAIN policy : \E p \in Range(policy[i].topics) :
                           p.prefix = prefix /\ Matches(p, Topic)}

LEMMA ObfuscatorIs ==
  Obfuscator =
    IF Having(FALSE) # {} THEN policy[CHOOSE i \in Having(FALSE) : TRUE].rule
    ELSE IF Having(TRUE) = {} THEN Absent
    ELSE policy[CHOOSE i \in Having(TRUE) : \A j \in Having(TRUE) : i <= j].rule
BY DEF Obfuscator, ForTopic, Having

\* The policy is one that loads.
Loaded == policy \in Policies /\ Disjoint(policy)

\* A rule that has a pattern for the topic is the topic's rule.
LEMMA OneRule ==
  ASSUME Loaded, NEW i \in DOMAIN policy, NEW p \in Range(policy[i].topics), Matches(p, Topic)
  PROVE  Obfuscated /\ Rule = policy[i].rule
<1>1. PICK a \in DOMAIN policy[i].topics : p = policy[i].topics[a] BY DEF Range
<1>2. ASSUME NEW j \in DOMAIN policy, NEW q \in Range(policy[j].topics), Matches(q, Topic)
      PROVE  j = i /\ q = p
  <2>1. PICK b \in DOMAIN policy[j].topics : q = policy[j].topics[b] BY DEF Range
  <2>2. IsPattern(p) /\ IsPattern(q) BY ValuesAssumption DEF Loaded
  <2>3. Overlaps(p, q) BY <2>2, <1>2, MatchesOverlap, ValuesAssumption
  <2>4. <<i, a>> = <<j, b>> BY <1>1, <2>1, <2>3 DEF Loaded, Disjoint
  <2> QED BY <1>1, <2>1, <2>4
<1>3. \A prefix \in BOOLEAN : Having(prefix) = IF p.prefix = prefix THEN {i} ELSE {}
  <2>1. ASSUME NEW prefix \in BOOLEAN, NEW j \in Having(prefix) PROVE j = i /\ p.prefix = prefix
    BY <1>2, <2>1 DEF Having
  <2>2. p.prefix \in BOOLEAN /\ i \in Having(p.prefix)
    BY ValuesAssumption DEF Having, Loaded, IsPattern
  <2> QED BY <2>1, <2>2
<1>4. p.prefix \in BOOLEAN /\ i \in Nat /\ IsRule(policy[i].rule)
  BY ValuesAssumption DEF Loaded, IsPattern
<1>5. Obfuscator = policy[i].rule
  <2>1. CASE p.prefix = FALSE BY <2>1, <1>3, ObfuscatorIs
  <2>2. CASE p.prefix = TRUE
    <3>1. Having(FALSE) = {} /\ Having(TRUE) = {i} BY <2>2, <1>3
    <3>2. (CHOOSE k \in {i} : \A j \in {i} : k <= j) = i BY <1>4
    <3> QED BY <3>1, <3>2, ObfuscatorIs
  <2> QED BY <2>1, <2>2, <1>4
<1> QED BY <1>4, <1>5 DEF Obfuscated, Rule, IsRule

\* What hides records of the topic is a rule of the configuration.
LEMMA RuleIsRule == ASSUME Loaded, Obfuscated PROVE IsRule(Rule)
<1>1. Having(FALSE) \subseteq DOMAIN policy /\ Having(TRUE) \subseteq DOMAIN policy BY DEF Having
<1>2. \A i \in DOMAIN policy : i \in Nat /\ IsRule(policy[i].rule) BY ValuesAssumption DEF Loaded
<1>3. CASE Having(FALSE) # {} BY <1>3, <1>1, <1>2, ObfuscatorIs DEF Rule, Obfuscated
<1>4. CASE Having(FALSE) = {} /\ Having(TRUE) # {}
  <2>1. Having(TRUE) \in SUBSET Nat BY <1>1, <1>2
  <2>2. Min(Having(TRUE)) \in Having(TRUE) /\ \A j \in Having(TRUE) : Min(Having(TRUE)) <= j
    BY <2>1, <1>4, LeastNumber
  <2>3. (CHOOSE i \in Having(TRUE) : \A j \in Having(TRUE) : i <= j) \in Having(TRUE) BY <2>2
  <2> QED BY <2>3, <1>4, <1>1, <1>2, ObfuscatorIs DEF Rule, Obfuscated
<1>5. CASE Having(FALSE) = {} /\ Having(TRUE) = {} BY <1>5, ObfuscatorIs DEF Obfuscated
<1> QED BY <1>3, <1>4, <1>5
-----------------------------------------------------------------------------
(* What patterns and fields leave of the words.                              *)

\* A pattern puts tokens in the place of its words.
LEMMA ReplacedFacts ==
  ASSUME NEW p, p.words \subseteq Words, NEW ws
  PROVE  Replaced(p, ws) \subseteq (ws \ p.words) \union Tokens
<1>1. \A w \in Words : Token(w) \in Tokens BY ValuesAssumption DEF Token
<1>2. MASK \in Tokens BY ValuesAssumption
<1> QED BY <1>1, <1>2 DEF Replaced

LEMMA RewriteNothing ==
  ASSUME NEW rule, rule.patterns = <<>>, NEW ws PROVE RewriteWords(rule, ws) = ws
<1>1. Len(rule.patterns) = 0 OBVIOUS
<1>2. AfterPatterns(rule.patterns, ws)[0] = ws BY <1>1, AfterPatternsDef
<1> QED BY <1>1, <1>2 DEF RewriteWords

\* rewrite_text: no pattern finds a word in what all of them have left.
LEMMA RewriteFacts ==
  ASSUME NEW rule, IsRule(rule), NEW ws
  PROVE  /\ RewriteWords(rule, ws) \subseteq ws \union Tokens
         /\ \A p \in Range(rule.patterns) : RewriteWords(rule, ws) \intersect p.words = {}
<1> DEFINE ps == rule.patterns
           done == AfterPatterns(ps, ws)
           good == {i \in 0..Len(ps) : /\ done[i] \subseteq ws \union Tokens
                                       /\ \A j \in 1..i : done[i] \intersect ps[j].words = {}}
<1>1. ps \in Seq(Range(ps)) /\ Len(ps) \in Nat BY DEF IsRule
<1>2. \A j \in 1..Len(ps) : ps[j].words \subseteq Words BY <1>1 DEF IsRule, Range
<1> HIDE DEF ps
<1>3. done = [i \in 0..Len(ps) |-> IF i = 0 THEN ws ELSE Replaced(ps[i], done[i - 1])]
  BY <1>1, AfterPatternsDef
<1> HIDE DEF done
<1>4. 0 \in good BY <1>1, <1>3
<1>5. ASSUME NEW i \in 1..Len(ps), i - 1 \in good PROVE i \in good
  <2>1. done[i] = Replaced(ps[i], done[i - 1]) BY <1>1, <1>3
  <2>2. done[i] \subseteq (done[i - 1] \ ps[i].words) \union Tokens
    <3>1. ps[i].words \subseteq Words BY <1>2
    <3>2. Replaced(ps[i], done[i - 1]) \subseteq (done[i - 1] \ ps[i].words) \union Tokens
      BY <3>1, ReplacedFacts
    <3> QED BY <2>1, <3>2
  <2>3. ASSUME NEW j \in 1..i PROVE done[i] \intersect ps[j].words = {}
    <3>1. ps[j].words \intersect Tokens = {} BY <1>1, <1>2, ValuesAssumption
    <3>2. CASE j = i BY <3>1, <3>2, <2>2
    <3>3. CASE j # i
      <4>1. j \in 1..(i - 1) BY <3>3
      <4>2. done[i - 1] \intersect ps[j].words = {} BY <4>1, <1>5
      <4> QED BY <3>1, <4>2, <2>2
    <3> QED BY <3>2, <3>3
  <2> QED BY <1>5, <2>2, <2>3
<1>6. Len(ps) \in good
  <2> HIDE DEF good
  <2>1. 0..Len(ps) \subseteq good BY <1>1, <1>4, <1>5, UpTo
  <2> QED BY <2>1, <1>1
<1>7. RewriteWords(rule, ws) = done[Len(ps)] BY DEF RewriteWords, done, ps
<1> QED BY <1>1, <1>6, <1>7 DEF ps, Range

\* An object after the first fields: what it has is a token or the word that was
\* there, at a path that none of them names.
Redone(object, original, fields, n) ==
  \A path \in DOMAIN object :
    /\ path \in DOMAIN original
    /\ \/ object[path] \in Tokens
       \/ object[path] = original[path] /\ \A j \in 1..n : fields[j].path # path

LEMMA WalkFacts ==
  ASSUME NEW object, NEW original, NEW fields, NEW n \in Nat \ {0},
         Redone(object, original, fields, n - 1),
         \A path \in DOMAIN original : original[path] \in Words,
         NEW next,
         next = IF fields[n].path \notin DOMAIN object THEN object
                ELSE IF fields[n].strategy = "drop"
                THEN [other \in DOMAIN object \ {fields[n].path} |-> object[other]]
                ELSE [object EXCEPT ![fields[n].path] =
                        IF fields[n].strategy = "mask" THEN MASK ELSE Token(@)]
  PROVE  Redone(next, original, fields, n)
<1> DEFINE at == fields[n].path
<1>1. \A path \in DOMAIN object : object[path] \in Words \union Tokens BY DEF Redone
<1>2. \A path \in DOMAIN object : Token(object[path]) \in Tokens
  BY <1>1, ValuesAssumption DEF Token
<1>3. MASK \in Tokens BY ValuesAssumption
<1>4. ASSUME NEW path \in DOMAIN next, path # at
      PROVE  path \in DOMAIN object /\ next[path] = object[path]
  BY <1>4
<1>5. ASSUME at \in DOMAIN next PROVE at \in DOMAIN object /\ next[at] \in Tokens
  BY <1>5, <1>2, <1>3
<1>6. ASSUME NEW path \in DOMAIN next, path # at
      PROVE  /\ path \in DOMAIN original
             /\ \/ next[path] \in Tokens
                \/ next[path] = original[path] /\ \A j \in 1..n : fields[j].path # path
  <2>1. path \in DOMAIN object /\ next[path] = object[path] BY <1>4, <1>6
  <2>2. \A j \in 1..n : j = n \/ j \in 1..(n - 1) OBVIOUS
  <2> QED BY <2>1, <2>2, <1>6 DEF Redone
<1> QED BY <1>5, <1>6 DEF Redone

LEMMA WalkKeeps ==
  ASSUME NEW doc, NEW object \in doc, NEW path, NEW strategy PROVE Walk(doc, path, strategy) # {}
<1> DEFINE Walked(o) == IF path \notin DOMAIN o THEN o
                      ELSE IF strategy = "drop"
                      THEN [other \in DOMAIN o \ {path} |-> o[other]]
                      ELSE [o EXCEPT ![path] = IF strategy = "mask" THEN MASK ELSE Token(@)]
<1>1. Walk(doc, path, strategy) = {Walked(o) : o \in doc} BY DEF Walk
<1> HIDE DEF Walked
<1>2. Walked(object) \in {Walked(o) : o \in doc} OBVIOUS
<1> QED BY <1>1, <1>2

\* edit_fields: a document stays one, and keeps of its words those at the paths
\* that no field names.
LEMMA EditFacts ==
  ASSUME NEW rule, IsRule(rule), NEW doc, doc # {}, WordsOf(doc) \subseteq Words
  PROVE  /\ EditFields(rule, doc) # {}
         /\ \A object \in EditFields(rule, doc) :
              \E original \in doc : Redone(object, original, rule.fields, Len(rule.fields))
<1> DEFINE fs == rule.fields
           done == AfterFields(fs, doc)
           Good(i) == /\ done[i] # {}
                      /\ \A object \in done[i] : \E original \in doc : Redone(object, original, fs, i)
           good == {i \in 0..Len(fs) : Good(i)}
<1>1. fs \in Seq(Range(fs)) /\ Len(fs) \in Nat BY DEF IsRule
<1>2. done = [i \in 0..Len(fs) |->
                IF i = 0 THEN doc ELSE Walk(done[i - 1], fs[i].path, fs[i].strategy)]
  BY <1>1, AfterFieldsDef
<1>3. \A original \in doc : \A path \in DOMAIN original : original[path] \in Words
  BY DEF WordsOf
<1> HIDE DEF done, fs
<1>4. Good(0)
  <2>1. done[0] = doc BY <1>1, <1>2
  <2>2. \A original \in doc : Redone(original, original, fs, 0) BY DEF Redone
  <2> QED BY <2>1, <2>2
<1>5. ASSUME NEW i \in 1..Len(fs), Good(i - 1) PROVE Good(i)
  <2>1. done[i] = Walk(done[i - 1], fs[i].path, fs[i].strategy) BY <1>1, <1>2
  <2>2. ASSUME NEW next \in done[i] PROVE \E original \in doc : Redone(next, original, fs, i)
    <3>1. PICK object \in done[i - 1] :
            next = IF fs[i].path \notin DOMAIN object THEN object
                   ELSE IF fs[i].strategy = "drop"
                   THEN [other \in DOMAIN object \ {fs[i].path} |-> object[other]]
                   ELSE [object EXCEPT ![fs[i].path] =
                           IF fs[i].strategy = "mask" THEN MASK ELSE Token(@)]
      BY <2>1 DEF Walk
    <3>2. PICK original \in doc : Redone(object, original, fs, i - 1) BY <1>5
    <3>3. i \in Nat \ {0} BY <1>1
    <3>4. Redone(next, original, fs, i) BY <3>1, <3>2, <3>3, <1>3, WalkFacts
    <3> QED BY <3>4
  <2>3. done[i] # {}
    <3>1. PICK object : object \in done[i - 1] BY <1>5
    <3> QED BY <3>1, <2>1, WalkKeeps
  <2> QED BY <2>2, <2>3
<1>6. Good(Len(fs))
  <2> HIDE DEF Good
  <2>1. 0 \in good BY <1>1, <1>4
  <2>2. ASSUME NEW i \in 1..Len(fs), i - 1 \in good PROVE i \in good BY <2>2, <1>5
  <2> HIDE DEF good
  <2>3. 0..Len(fs) \subseteq good BY <1>1, <2>1, <2>2, UpTo
  <2>4. Len(fs) \in good BY <2>3, <1>1
  <2> QED BY <2>4 DEF good
<1>7. EditFields(rule, doc) = done[Len(fs)] BY DEF EditFields, done, fs
<1> QED BY <1>6, <1>7 DEF fs

\* The words at the paths that a rule leaves open.
Open(rule, doc) ==
  UNION {{object[path] : path \in DOMAIN object \ {field.path : field \in Range(rule.fields)}} :
           object \in doc}

LEMMA EditedWords ==
  ASSUME NEW rule, IsRule(rule), NEW doc, doc # {}, WordsOf(doc) \subseteq Words
  PROVE  WordsOf(EditFields(rule, doc)) \subseteq Open(rule, doc) \union Tokens
<1> SUFFICES ASSUME NEW object \in EditFields(rule, doc), NEW path \in DOMAIN object,
                    object[path] \notin Tokens
             PROVE  object[path] \in Open(rule, doc)
  BY DEF WordsOf
<1>1. PICK original \in doc : Redone(object, original, rule.fields, Len(rule.fields)) BY EditFacts
<1>2. /\ path \in DOMAIN original /\ object[path] = original[path]
      /\ \A j \in 1..Len(rule.fields) : rule.fields[j].path # path
  BY <1>1 DEF Redone
<1>3. path \notin {field.path : field \in Range(rule.fields)} BY <1>2 DEF Range, IsRule
<1> QED BY <1>2, <1>3 DEF Open
-----------------------------------------------------------------------------
(* A payload on its way to the page.                                         *)

IsSlot(slot) == slot = [raw |-> slot.raw, json |-> slot.json, text |-> slot.text]

LEMMA TextIsThere == ASSUME NEW f, NEW ws PROVE [form |-> f, words |-> ws] # Absent
<1>1. "form" \in DOMAIN [form |-> f, words |-> ws] /\ "form" \notin DOMAIN Absent BY DEF Absent
<1> QED BY <1>1

LEMMA SlotIsThere == ASSUME NEW slot, IsSlot(slot) PROVE slot # Absent
<1>1. "raw" \in DOMAIN [raw |-> slot.raw, json |-> slot.json, text |-> slot.text]
  OBVIOUS
<1>2. "raw" \notin DOMAIN Absent BY DEF Absent
<1> QED BY <1>1, <1>2 DEF IsSlot

LEMMA TextFacts == ASSUME NEW slot PROVE Text(slot) # Absent
BY TextIsThere DEF Text, JsonText, Redacted, RenderRaw

\* A schema that names the fields of a message brings no other words into it.
LEMMA ReadWords ==
  ASSUME NEW payload, NEW id PROVE WordsOf(ReadWith(payload, id)) \subseteq WordsOf(payload.doc)
<1>1. CASE payload.frame # "none" \/ payload.form \notin BinaryForms \/ id = NoId
  BY <1>1 DEF ReadWith
<1>2. CASE ~(payload.frame # "none" \/ payload.form \notin BinaryForms \/ id = NoId)
  <2> DEFINE names == FieldNames[id]
  <2>1. ReadWith(payload, id) = {Renamed(object, names) : object \in payload.doc}
    BY <1>2 DEF ReadWith
  <2>2. ASSUME NEW object \in payload.doc, NEW name \in DOMAIN Renamed(object, names)
        PROVE  Renamed(object, names)[name] \in {object[path] : path \in DOMAIN object}
    <3> DEFINE known == DOMAIN object \cap DOMAIN names
    <3> HIDE DEF names
    <3>1. name \in {names[path] : path \in known}
          /\ Renamed(object, names)[name] = object[CHOOSE path \in known : names[path] = name]
      BY <2>2 DEF Renamed
    <3>2. (CHOOSE path \in known : names[path] = name) \in known BY <3>1
    <3> QED BY <3>1, <3>2
  <2> HIDE DEF names
  <2> QED BY <2>1, <2>2 DEF WordsOf
<1> QED BY <1>1, <1>2

\* What Resolved::decode makes of a payload.
LEMMA DecodedFacts ==
  ASSUME NEW payload, NEW backup, NEW resolved
  PROVE  LET slot == Decoded(payload, backup, resolved) IN
         /\ IsSlot(slot) /\ slot.raw = payload /\ slot.text = Absent
         /\ slot.json \in {NoTree, ReadWith(payload, Framing(payload, backup))}
         /\ slot.json # NoTree => decodes /\ Framing(payload, backup) \in resolved
BY DEF Decoded, IsSlot

LEMMA RedactFacts ==
  ASSUME NEW t, t # Absent PROVE IsSlot(RedactWith(t)) /\ Text(RedactWith(t)) = t
BY DEF RedactWith, IsSlot, Text

LEMMA RewriteTextFacts ==
  ASSUME NEW rule, NEW t, t # Absent
  PROVE  RewriteText(rule, t) # Absent /\ RewriteText(rule, t).words = RewriteWords(rule, t.words)
BY TextIsThere DEF RewriteText, Redacted

\* The text that patterns are applied to, of a payload that is not hidden whole.
Plain(rule, field, slot) ==
  IF slot.json # NoTree THEN JsonText(EditFields(rule, slot.json))
  ELSE IF MasksUndecoded(rule, field) THEN Redacted({MASK})
  ELSE RenderRaw(slot.raw)

Whole(rule, field) == IF field = "key" THEN rule.key ELSE rule.value

\* TopicObfuscator::apply
LEMMA ApplyFacts ==
  ASSUME NEW rule, IsRule(rule), NEW field, NEW slot, IsSlot(slot), slot.text = Absent,
         slot.raw # Absent, slot.json = NoTree \/ WordsOf(slot.json) \subseteq Words
  PROVE  LET applied == Apply(rule, field, slot) IN
         /\ Whole(rule, field) = "drop" => applied = Absent
         /\ Whole(rule, field) = "mask" => IsSlot(applied) /\ Text(applied) = Redacted({MASK})
         /\ Whole(rule, field) = "hash" => IsSlot(applied) /\ Text(applied) = Redacted({HASH})
         /\ Whole(rule, field) = "none" =>
              IsSlot(applied) /\ Text(applied) = RewriteText(rule, Plain(rule, field, slot))
<1> DEFINE applied == Apply(rule, field, slot)
           edited == IF slot.json # NoTree
                     THEN [slot EXCEPT !.text = Absent, !.json = EditFields(rule, @)]
                     ELSE IF MasksUndecoded(rule, field) THEN RedactWith(Redacted({MASK}))
                     ELSE slot
           t == Text(edited)
<1>1. slot # Absent BY SlotIsThere
<1>2. Redacted({MASK}) # Absent /\ Redacted({HASH}) # Absent BY TextIsThere DEF Redacted
<1>3. CASE Whole(rule, field) = "drop" BY <1>3 DEF Apply, Whole
<1>4. CASE Whole(rule, field) = "mask"
  <2>1. applied = RedactWith(Redacted({MASK})) BY <1>1, <1>4 DEF Apply, Whole
  <2> QED BY <2>1, <1>2, <1>4, RedactFacts
<1>5. CASE Whole(rule, field) = "hash"
  <2>1. applied = RedactWith(Redacted({HASH})) BY <1>1, <1>5 DEF Apply, Whole
  <2> QED BY <2>1, <1>2, <1>5, RedactFacts
<1>6. CASE Whole(rule, field) = "none"
  <2>1. applied = IF RewriteText(rule, t) = t
                  THEN IF rule.patterns = <<>> THEN edited ELSE [edited EXCEPT !.text = t]
                  ELSE RedactWith(RewriteText(rule, t))
    BY <1>1, <1>6 DEF Apply, Whole
  <2>2. IsSlot(edited) /\ t = Plain(rule, field, slot)
    <3>1. CASE slot.json # NoTree
      <4>1. edited = [raw |-> slot.raw, json |-> EditFields(rule, slot.json), text |-> Absent]
        BY <3>1 DEF IsSlot
      <4>2. EditFields(rule, slot.json) # NoTree BY <3>1, EditFacts DEF NoTree
      <4> QED BY <3>1, <4>1, <4>2 DEF IsSlot, Text, Plain
    <3>2. CASE slot.json = NoTree /\ MasksUndecoded(rule, field)
      BY <3>2, <1>2, RedactFacts DEF Plain
    <3>3. CASE slot.json = NoTree /\ ~MasksUndecoded(rule, field)
      BY <3>3 DEF Plain, Text
    <3> QED BY <3>1, <3>2, <3>3
  <2>3. t # Absent BY TextFacts
  <2> HIDE DEF edited, applied
  <2>4. IsSlot([edited EXCEPT !.text = t]) /\ Text([edited EXCEPT !.text = t]) = t
    <3>1. [edited EXCEPT !.text = t] = [raw |-> edited.raw, json |-> edited.json, text |-> t]
      BY <2>2 DEF IsSlot
    <3> QED BY <3>1, <2>3 DEF IsSlot, Text
  <2> HIDE DEF t
  <2>5. IsSlot(RedactWith(RewriteText(rule, t)))
        /\ Text(RedactWith(RewriteText(rule, t))) = RewriteText(rule, t)
    BY <2>3, RewriteTextFacts, RedactFacts
  <2>6. IsSlot(applied) /\ Text(applied) = RewriteText(rule, t)
    BY <2>1, <2>2, <2>4, <2>5 DEF t
  <2> QED BY <2>6, <2>2, <1>6 DEF applied
<1> QED BY <1>3, <1>4, <1>5, <1>6 DEF IsRule, Whole, Strategies
\* A field of a record as it is staged.
StagedSlot(field, payload, resolved) ==
  LET slot == Slot(payload, Backup(field), resolved) IN
  IF Obfuscated THEN Apply(Rule, field, slot) ELSE slot

LEMMA StagedIs ==
  ASSUME NEW record, NEW resolved
  PROVE  Staged(record, resolved) =
           [key |-> StagedSlot("key", record.key, resolved),
            value |-> StagedSlot("value", record.value, resolved), header |-> record.header]
BY DEF Staged, StagedSlot

IsPayload(payload) == payload = Absent \/ WordsOf(payload.doc) \subseteq Words

LEMMA AbsentStays ==
  ASSUME NEW field, NEW resolved PROVE StagedSlot(field, Absent, resolved) = Absent
BY DEF StagedSlot, Slot, Apply

LEMMA StagedFacts ==
  ASSUME Loaded, NEW field, NEW payload, IsPayload(payload), payload # Absent, NEW resolved
  PROVE  LET slot == Decoded(payload, Backup(field), resolved)
             staged == StagedSlot(field, payload, resolved) IN
         /\ ~Obfuscated => staged = slot /\ IsSlot(staged)
         /\ Obfuscated =>
              /\ Whole(Rule, field) = "drop" => staged = Absent
              /\ Whole(Rule, field) = "mask" => IsSlot(staged) /\ Text(staged) = Redacted({MASK})
              /\ Whole(Rule, field) = "hash" => IsSlot(staged) /\ Text(staged) = Redacted({HASH})
              /\ Whole(Rule, field) = "none" =>
                   IsSlot(staged) /\ Text(staged) = RewriteText(Rule, Plain(Rule, field, slot))
              /\ Whole(Rule, field) \in Strategies \union {"none"}
         /\ staged = Absent \/ IsSlot(staged)
<1> DEFINE slot == Decoded(payload, Backup(field), resolved)
           staged == StagedSlot(field, payload, resolved)
<1>1. /\ IsSlot(slot) /\ slot.raw = payload /\ slot.text = Absent
      /\ slot.json \in {NoTree, ReadWith(payload, Framing(payload, Backup(field)))}
  BY DecodedFacts
<1>2. staged = IF Obfuscated THEN Apply(Rule, field, slot) ELSE slot
  BY DEF StagedSlot, Slot
<1> HIDE DEF slot, staged
<1>3. CASE ~Obfuscated BY <1>1, <1>2, <1>3 DEF slot, staged
<1>4. CASE Obfuscated
  <2>1. IsRule(Rule) BY <1>4, RuleIsRule
  <2>2. slot.json = NoTree \/ WordsOf(slot.json) \subseteq Words
    BY <1>1, ReadWords DEF IsPayload
  <2>3. staged = Apply(Rule, field, slot) BY <1>2, <1>4
  <2>4. Whole(Rule, field) \in Strategies \union {"none"} BY <2>1 DEF IsRule, Whole
  <2>5. /\ Whole(Rule, field) = "drop" => staged = Absent
        /\ Whole(Rule, field) = "mask" => IsSlot(staged) /\ Text(staged) = Redacted({MASK})
        /\ Whole(Rule, field) = "hash" => IsSlot(staged) /\ Text(staged) = Redacted({HASH})
        /\ Whole(Rule, field) = "none" =>
             IsSlot(staged) /\ Text(staged) = RewriteText(Rule, Plain(Rule, field, slot))
    BY <1>1, <2>1, <2>2, <2>3, ApplyFacts
  <2> QED BY <1>4, <2>4, <2>5 DEF slot, staged, Strategies
<1> QED BY <1>3, <1>4

\* The words of a payload's bytes and of its tree are those of its document.
LEMMA TextWords ==
  ASSUME NEW payload, NEW ws
  PROVE  /\ RenderRaw(payload).words = WordsOf(payload.doc) /\ Redacted(ws).words = ws
         /\ JsonText(payload).words = WordsOf(payload)
BY DEF RenderRaw, Redacted, JsonText

LEMMA MasksHide ==
  /\ \A token \in {MASK, HASH} : token \in Tokens
  /\ \A ws \in SUBSET Words : ws \intersect Tokens = {}
BY ValuesAssumption

\* What the page shows of a payload that a rule is for.
LEMMA PayloadHidden ==
  ASSUME Loaded, Obfuscated, NEW field \in {"key", "value"},
         NEW payload, IsPayload(payload), payload # Absent, NEW resolved,
         StagedSlot(field, payload, resolved) # Absent
  PROVE  LET t == Text(StagedSlot(field, payload, resolved)) IN
         /\ \A p \in Range(Rule.patterns) : t.words \intersect p.words = {}
         /\ Whole(Rule, field) # "none" => t.words \intersect WordsOf(payload.doc) = {}
         /\ field = "value" =>
              LET doc == ReadWith(payload, Framing(payload, Backup(field))) IN
              \/ Rule.unparsed = "allow" /\ t = RewriteText(Rule, RenderRaw(payload))
              \/ t.words \intersect (WordsOf(doc) \ Open(Rule, doc)) = {}
<1> DEFINE doc == ReadWith(payload, Framing(payload, Backup(field)))
           t == Text(StagedSlot(field, payload, resolved))
           slot == Decoded(payload, Backup(field), resolved)
           plain == Plain(Rule, field, slot)
<1>1. IsRule(Rule) BY RuleIsRule
<1>2. WordsOf(payload.doc) \subseteq Words /\ WordsOf(doc) \subseteq Words
  BY ReadWords DEF IsPayload
<1>3. \A p \in Range(Rule.patterns) : p.words \subseteq Words BY <1>1 DEF IsRule
<1>4. ASSUME t.words \subseteq Tokens
      PROVE  /\ \A p \in Range(Rule.patterns) : t.words \intersect p.words = {}
             /\ t.words \intersect WordsOf(payload.doc) = {}
             /\ t.words \intersect WordsOf(doc) = {}
  <2> HIDE DEF t, doc
  <2> QED BY <1>2, <1>3, <1>4, MasksHide
<1>5. CASE Whole(Rule, field) \in {"mask", "hash"}
  <2>1. t = Redacted({MASK}) \/ t = Redacted({HASH}) BY <1>5, StagedFacts
  <2>2. t.words \subseteq Tokens BY <2>1, TextWords, MasksHide
  <2> HIDE DEF t, doc
  <2> QED BY <2>2, <1>4, <1>5 DEF t, doc
<1>6. CASE Whole(Rule, field) = "none"
  <2>1. t = RewriteText(Rule, plain) BY <1>6, StagedFacts
  <2>2. plain # Absent BY TextIsThere DEF Plain, JsonText, Redacted, RenderRaw
  <2>3. t.words = RewriteWords(Rule, plain.words) BY <2>1, <2>2, RewriteTextFacts
  <2>4. t.words \subseteq plain.words \union Tokens
        /\ \A p \in Range(Rule.patterns) : t.words \intersect p.words = {}
    BY <2>3, <1>1, RewriteFacts
  <2>5. slot.raw = payload /\ slot.json \in {NoTree, doc} BY DecodedFacts
  <2>6. ASSUME field = "value"
        PROVE  \/ Rule.unparsed = "allow" /\ t = RewriteText(Rule, RenderRaw(payload))
               \/ t.words \intersect (WordsOf(doc) \ Open(Rule, doc)) = {}
    <3>1. CASE slot.json # NoTree
      <4>1. plain = JsonText(EditFields(Rule, doc)) /\ doc # {}
        BY <3>1, <2>5 DEF Plain, NoTree
      <4>2. plain.words \subseteq Open(Rule, doc) \union Tokens
        BY <4>1, <1>1, <1>2, EditedWords, TextWords
      <4> HIDE DEF plain, t
      <4> QED BY <4>2, <2>4, <1>2, MasksHide
    <3>2. CASE slot.json = NoTree /\ MasksUndecoded(Rule, field)
      <4>1. plain = Redacted({MASK}) BY <3>2 DEF Plain
      <4>2. plain.words \subseteq Tokens BY <4>1, TextWords, MasksHide
      <4> HIDE DEF plain, t
      <4> QED BY <4>2, <2>4, <1>2, MasksHide
    <3>3. CASE slot.json = NoTree /\ ~MasksUndecoded(Rule, field)
      <4>1. plain = RenderRaw(payload) BY <3>3, <2>5 DEF Plain
      <4>2. CASE Rule.unparsed = "allow" BY <4>1, <4>2, <2>1
      <4>3. CASE Rule.fields = <<>>
        <5>1. Range(Rule.fields) = {} BY <4>3 DEF Range
        <5>2. Open(Rule, doc) = WordsOf(doc) BY <5>1 DEF Open, WordsOf
        <5> QED BY <5>2
      <4> QED BY <4>2, <4>3, <3>3, <2>6, <1>1 DEF MasksUndecoded, IsRule
    <3> QED BY <3>1, <3>2, <3>3
  <2> HIDE DEF t, doc
  <2> QED BY <1>6, <2>4, <2>6 DEF t, doc
<1>7. Whole(Rule, field) \in {"mask", "hash", "none"}
  BY <1>1, StagedFacts DEF Strategies
<1> QED BY <1>5, <1>6, <1>7

\* The header as it is screened, and what the page shows of it.
Screened(record) ==
  [record EXCEPT !.header = IF Obfuscated THEN ObfuscateHeader(Rule, @) ELSE @]
HeaderText(header) == IF header.value = Absent THEN Redacted({}) ELSE header.value

LEMMA ScreenedFacts ==
  ASSUME NEW record \in Records
  PROVE  /\ Screened(record).key = record.key /\ Screened(record).value = record.value
         /\ Screened(record).header = IF Obfuscated THEN ObfuscateHeader(Rule, record.header)
                                      ELSE record.header
         /\ IsPayload(record.key) /\ IsPayload(record.value)
         /\ record.header \in [name : {record.header.name}, value : {record.header.value},
                               utf8 : BOOLEAN]
BY ValuesAssumption DEF Screened, IsRecord, IsPayload

LEMMA HeaderHidden ==
  ASSUME Loaded, Obfuscated, NEW record \in Records
  PROVE  LET t == HeaderText(Screened(record).header) IN
         /\ \A p \in Range(Rule.patterns) : t.words \intersect p.words = {}
         /\ record.header.name \in Rule.headers => t = Redacted({MASK})
<1> DEFINE h == record.header
           screened == Screened(record).header
<1>1. IsRule(Rule) BY RuleIsRule
<1>2. \A p \in Range(Rule.patterns) : p.words \subseteq Words BY <1>1 DEF IsRule
<1>3. screened = ObfuscateHeader(Rule, h) BY ScreenedFacts
<1>4. h = [name |-> h.name, value |-> h.value, utf8 |-> h.utf8] BY ScreenedFacts
<1> HIDE DEF h, screened
<1>5. CASE h.name \in Rule.headers
  <2>1. screened.value = Redacted({MASK}) BY <1>3, <1>4, <1>5 DEF ObfuscateHeader
  <2>2. Redacted({MASK}) # Absent /\ Redacted({MASK}).words = {MASK}
    BY TextIsThere DEF Redacted
  <2>3. \A p \in Range(Rule.patterns) : {MASK} \intersect p.words = {} BY <1>2, MasksHide
  <2> QED BY <2>1, <2>2, <2>3 DEF HeaderText, screened
<1>6. CASE h.name \notin Rule.headers /\ h.value = Absent
  <2>1. screened.value = Absent BY <1>3, <1>6 DEF ObfuscateHeader
  <2> QED BY <2>1, <1>6 DEF HeaderText, Redacted, screened, h
<1>7. CASE h.name \notin Rule.headers /\ h.value # Absent
  <2>1. screened.value = RewriteText(Rule, h.value) BY <1>3, <1>4, <1>7 DEF ObfuscateHeader
  <2>2. screened.value # Absent /\ screened.value.words = RewriteWords(Rule, h.value.words)
    BY <2>1, <1>7, RewriteTextFacts
  <2>3. \A p \in Range(Rule.patterns) : screened.value.words \intersect p.words = {}
    BY <2>2, <1>1, RewriteFacts
  <2> QED BY <2>2, <2>3, <1>7 DEF HeaderText, screened, h
<1> QED BY <1>5, <1>6, <1>7
-----------------------------------------------------------------------------
(* A record on the page.                                                     *)

\* A record with the schemas at hand, and what the page may show of it: rendered
\* as it was kept, or after the filter has looked at it.
View(record, resolved) ==
  [key |-> StagedSlot("key", record.key, resolved),
   value |-> StagedSlot("value", record.value, resolved), header |-> Screened(record).header]
Rendered(record, resolved) ==
  {IntoRecord(View(record, resolved)), IntoRecord(AfterFilter(View(record, resolved)))}
Hits(record, resolved) == OnPayload(View(record, resolved))

LEMMA ViewIs ==
  ASSUME NEW record \in Records, NEW resolved
  PROVE  /\ Staged(Screened(record), resolved) = View(record, resolved)
         /\ OnPayload(Staged(record, resolved)) = Hits(record, resolved)
         /\ IntoRecord(Staged(record, resolved)).key = IntoRecord(View(record, resolved)).key
         /\ IntoRecord(Staged(record, resolved)).value = IntoRecord(View(record, resolved)).value
<1> DEFINE bare == Staged(record, resolved)
           view == View(record, resolved)
<1>1. Staged(Screened(record), resolved) = view BY StagedIs, ScreenedFacts DEF View
<1>2. bare.key = view.key /\ bare.value = view.value BY StagedIs DEF View
<1> HIDE DEF bare, view
<1>3. bare["key"] = view["key"] /\ bare["value"] = view["value"] BY <1>2
<1>4. OnPayload(bare) = OnPayload(view)
  <2>1. OnPayload(bare) = (\E f \in {"key", "value"} : bare[f] # Absent /\ needle \in Text(bare[f]).words)
    BY DEF OnPayload
  <2>2. OnPayload(view) = (\E f \in {"key", "value"} : view[f] # Absent /\ needle \in Text(view[f]).words)
    BY DEF OnPayload
  <2> QED BY <2>1, <2>2, <1>3
<1>5. IntoRecord(bare).key = IntoRecord(view).key /\ IntoRecord(bare).value = IntoRecord(view).value
  BY <1>2 DEF IntoRecord
<1> QED BY <1>1, <1>4, <1>5 DEF Hits, bare, view

LEMMA ViewFacts ==
  ASSUME Loaded, NEW record \in Records, NEW resolved
  PROVE  LET view == View(record, resolved) IN
         /\ view.key = Absent \/ IsSlot(view.key)
         /\ view.value = Absent \/ IsSlot(view.value)
<1>1. IsPayload(record.key) /\ IsPayload(record.value) BY ScreenedFacts
<1> QED BY <1>1, StagedFacts, AbsentStays DEF View

\* DecodedPayload::text renders once: a tree that was rendered is its text.
LEMMA RenderedSlot ==
  ASSUME NEW slot, IsSlot(slot)
  PROVE  LET done == [slot EXCEPT !.text = Text(slot), !.json = NoTree] IN
         /\ IsSlot(done) /\ done.raw = slot.raw /\ done.json = NoTree
         /\ done.text = Text(slot) /\ Text(done) = Text(slot)
<1>1. [slot EXCEPT !.text = Text(slot), !.json = NoTree]
        = [raw |-> slot.raw, json |-> NoTree, text |-> Text(slot)]
  <2> DEFINE u == Text(slot)
  <2> HIDE DEF u
  <2>1. [slot EXCEPT !.text = u] = [raw |-> slot.raw, json |-> slot.json, text |-> u]
    BY DEF IsSlot
  <2>2. [slot EXCEPT !.text = u, !.json = NoTree] = [[slot EXCEPT !.text = u] EXCEPT !.json = NoTree]
    BY DEF IsSlot
  <2>3. [[raw |-> slot.raw, json |-> slot.json, text |-> u] EXCEPT !.json = NoTree]
          = [raw |-> slot.raw, json |-> NoTree, text |-> u]
    OBVIOUS
  <2> QED BY <2>1, <2>2, <2>3 DEF u
<1>2. Text([raw |-> slot.raw, json |-> NoTree, text |-> Text(slot)]) = Text(slot)
  <2>1. Text(slot) # Absent BY TextFacts
  <2> DEFINE u == Text(slot)
  <2> HIDE DEF u
  <2>2. u # Absent => Text([raw |-> slot.raw, json |-> NoTree, text |-> u]) = u BY DEF Text
  <2> QED BY <2>1, <2>2 DEF u
<1> QED BY <1>1, <1>2 DEF IsSlot

LEMMA FilteredFacts ==
  ASSUME NEW view, view = [key |-> view.key, value |-> view.value, header |-> view.header],
         view.key = Absent \/ IsSlot(view.key), view.value = Absent \/ IsSlot(view.value),
         NEW field \in {"key", "value"}
  PROVE  LET after == AfterFilter(view) IN
         /\ after.header = view.header
         /\ view[field] = Absent => after[field] = Absent
         /\ view[field] # Absent =>
              /\ after[field] # Absent
              /\ after[field] \in {view[field],
                                   [view[field] EXCEPT !.text = Text(view[field]), !.json = NoTree]}
<1> DEFINE rendered(slot) == IF slot = Absent THEN Absent
                             ELSE [slot EXCEPT !.text = Text(slot), !.json = NoTree]
           hit == view.key # Absent /\ needle \in Text(view.key).words
           after == AfterFilter(view)
<1>1. after = [key |-> rendered(view.key),
               value |-> IF hit THEN view.value ELSE rendered(view.value),
               header |-> view.header]
  <2>1. ASSUME NEW k, NEW v
        PROVE  [view EXCEPT !.key = k, !.value = v] = [key |-> k, value |-> v, header |-> view.header]
    <3>1. [view EXCEPT !.key = k] = [key |-> k, value |-> view.value, header |-> view.header]
      OBVIOUS
    <3>2. [view EXCEPT !.key = k, !.value = v] = [[view EXCEPT !.key = k] EXCEPT !.value = v]
      OBVIOUS
    <3>3. [[key |-> k, value |-> view.value, header |-> view.header] EXCEPT !.value = v]
            = [key |-> k, value |-> v, header |-> view.header]
      OBVIOUS
    <3> QED BY <3>1, <3>2, <3>3
  <2>2. after = [view EXCEPT !.key = rendered(view.key),
                             !.value = IF hit THEN view.value ELSE rendered(view.value)]
    BY DEF AfterFilter
  <2> HIDE DEF after, hit, rendered
  <2> QED BY <2>1, <2>2
<1>2. \A slot : IsSlot(slot) => rendered(slot) # Absent /\ slot # Absent
  <2>1. ASSUME NEW slot, IsSlot(slot) PROVE rendered(slot) # Absent /\ slot # Absent
    BY <2>1, RenderedSlot, SlotIsThere
  <2> QED BY <2>1
<1>3. after["header"] = view.header /\ after["key"] = rendered(view["key"])
      /\ after["value"] \in {view["value"], rendered(view["value"])}
  BY <1>1
<1> QED BY <1>2, <1>3

\* What the page shows is what the view shows, filtered or not.
ShownOf(slot) == IF slot = Absent THEN Absent ELSE Text(slot)

LEMMA IntoRecordIs ==
  ASSUME NEW staged
  PROVE  /\ IntoRecord(staged).key = ShownOf(staged.key)
         /\ IntoRecord(staged).value = ShownOf(staged.value)
         /\ IntoRecord(staged).header = HeaderText(staged.header)
         /\ IntoRecord(staged).verbatim =>
              /\ ~Obfuscated /\ staged.header.value # Absent /\ staged.header.utf8
              /\ IsVerbatim(staged.key) /\ IsVerbatim(staged.value)
BY DEF IntoRecord, ShownOf, HeaderText

LEMMA PageFacts ==
  ASSUME Loaded, NEW record \in Records, NEW resolved, NEW pg \in Rendered(record, resolved)
  PROVE  /\ pg.key = ShownOf(StagedSlot("key", record.key, resolved))
         /\ pg.value = ShownOf(StagedSlot("value", record.value, resolved))
         /\ pg.header = HeaderText(Screened(record).header)
<1> DEFINE view == View(record, resolved)
<1>1. view = [key |-> view.key, value |-> view.value, header |-> view.header] BY DEF View
<1>2. (view.key = Absent \/ IsSlot(view.key)) /\ (view.value = Absent \/ IsSlot(view.value))
  BY ViewFacts
<1>3. /\ view.key = StagedSlot("key", record.key, resolved)
      /\ view.value = StagedSlot("value", record.value, resolved)
      /\ view.header = Screened(record).header
  BY DEF View
<1> HIDE DEF view
<1>4. AfterFilter(view).header = view.header BY <1>1, <1>2, FilteredFacts
<1>5. ASSUME NEW field \in {"key", "value"}
      PROVE  ShownOf(AfterFilter(view)[field]) = ShownOf(view[field])
  <2>1. CASE view[field] = Absent BY <2>1, <1>1, <1>2, FilteredFacts DEF ShownOf
  <2>2. CASE view[field] # Absent
    <3>1. IsSlot(view[field]) BY <1>2, <2>2
    <3>2. /\ AfterFilter(view)[field] # Absent
          /\ AfterFilter(view)[field] \in
               {view[field], [view[field] EXCEPT !.text = Text(view[field]), !.json = NoTree]}
      BY <2>2, <1>1, <1>2, FilteredFacts
    <3>3. Text(AfterFilter(view)[field]) = Text(view[field]) BY <3>1, <3>2, RenderedSlot
    <3> QED BY <2>2, <3>2, <3>3 DEF ShownOf
  <2> QED BY <2>1, <2>2
<1>6. ShownOf(AfterFilter(view).key) = ShownOf(view.key)
      /\ ShownOf(AfterFilter(view).value) = ShownOf(view.value)
  BY <1>5
<1>7. CASE pg = IntoRecord(view) BY <1>7, <1>3, IntoRecordIs
<1>8. CASE pg = IntoRecord(AfterFilter(view)) BY <1>8, <1>3, <1>4, <1>6, IntoRecordIs
<1> QED BY <1>7, <1>8 DEF Rendered, view

LEMMA SlotVerbatim ==
  ASSUME NEW slot, IsSlot(slot), slot.raw # Absent, slot.text = Absent,
         NEW kind \in {slot, [slot EXCEPT !.text = Text(slot), !.json = NoTree]},
         IsVerbatim(kind)
  PROVE  IsUtf8(slot.raw) /\ Text(slot) = RenderRaw(slot.raw)
<1>1. CASE kind = slot
  <2>1. slot # Absent BY SlotIsThere
  <2> QED BY <1>1, <2>1 DEF IsVerbatim, Text
<1>2. CASE kind = [slot EXCEPT !.text = Text(slot), !.json = NoTree]
  <2>1. IsSlot(kind) /\ kind.raw = slot.raw /\ kind.json = NoTree /\ kind.text = Text(slot)
    BY <1>2, RenderedSlot
  <2>2. kind # Absent BY <2>1, SlotIsThere
  <2>3. Text(slot) # Absent BY TextFacts
  <2> QED BY <2>1, <2>2, <2>3 DEF IsVerbatim
<1> QED BY <1>1, <1>2

\* What says that it is verbatim is the bytes of its key, value and header.
LEMMA Reproduces ==
  ASSUME Loaded, NEW record \in Records, NEW resolved, NEW pg \in Rendered(record, resolved),
         pg.verbatim
  PROVE  /\ record.key = Absent => pg.key = Absent
         /\ record.key # Absent => IsUtf8(record.key) /\ pg.key = RenderRaw(record.key)
         /\ record.value = Absent => pg.value = Absent
         /\ record.value # Absent => IsUtf8(record.value) /\ pg.value = RenderRaw(record.value)
         /\ pg.header = record.header.value /\ record.header.utf8
<1> DEFINE view == View(record, resolved)
           S(field) == StagedSlot(field, record[field], resolved)
<1>1. view = [key |-> view.key, value |-> view.value, header |-> view.header] BY DEF View
<1>2. (view.key = Absent \/ IsSlot(view.key)) /\ (view.value = Absent \/ IsSlot(view.value))
  BY ViewFacts
<1>3. /\ view.key = StagedSlot("key", record.key, resolved)
      /\ view.value = StagedSlot("value", record.value, resolved)
      /\ view.header = Screened(record).header
  BY DEF View
<1>4. PICK staged \in {view, AfterFilter(view)} : pg = IntoRecord(staged) BY DEF Rendered
<1> HIDE DEF view
<1>5. /\ ~Obfuscated /\ staged.header.value # Absent /\ staged.header.utf8
      /\ IsVerbatim(staged.key) /\ IsVerbatim(staged.value)
  BY <1>4, IntoRecordIs
<1>6. staged.header = view.header BY <1>4, <1>1, <1>2, FilteredFacts
<1>7. view.header = record.header BY <1>3, <1>5, ScreenedFacts
<1>8. pg.header = record.header.value /\ record.header.utf8
  BY <1>4, <1>5, <1>6, <1>7, IntoRecordIs DEF HeaderText
<1>9. ASSUME NEW field \in {"key", "value"}, NEW payload, payload # Absent, IsPayload(payload),
             view[field] = StagedSlot(field, payload, resolved), IsVerbatim(staged[field])
      PROVE  IsUtf8(payload) /\ ShownOf(view[field]) = RenderRaw(payload)
  <2> DEFINE slot == Decoded(payload, Backup(field), resolved)
  <2>1. IsSlot(slot) /\ slot.raw = payload /\ slot.text = Absent BY DecodedFacts
  <2>2. view[field] = slot BY <1>5, <1>9, StagedFacts
  <2>3. slot # Absent BY <2>1, SlotIsThere
  <2> HIDE DEF slot
  <2>4. staged[field] \in {slot, [slot EXCEPT !.text = Text(slot), !.json = NoTree]}
    BY <1>4, <1>1, <1>2, <2>2, <2>3, FilteredFacts
  <2>5. IsUtf8(payload) /\ Text(slot) = RenderRaw(payload)
    BY <2>1, <2>4, <1>9, SlotVerbatim
  <2> QED BY <2>2, <2>3, <2>5 DEF ShownOf
<1>10. /\ pg.key = ShownOf(view.key) /\ pg.value = ShownOf(view.value) BY <1>3, PageFacts
<1>11. IsPayload(record.key) /\ IsPayload(record.value) BY ScreenedFacts
<1>12. CASE record.key = Absent
  <2>1. pg.key = Absent BY <1>3, <1>10, <1>12, AbsentStays DEF ShownOf
  <2> QED BY <2>1, <1>3, <1>5, <1>8, <1>9, <1>10, <1>11, <1>12, AbsentStays DEF ShownOf
<1>13. CASE record.key # Absent
  BY <1>3, <1>5, <1>8, <1>9, <1>10, <1>11, <1>13, AbsentStays DEF ShownOf
<1> QED BY <1>12, <1>13
-----------------------------------------------------------------------------
(* Search and page.                                                          *)

LEMMA HitsIs ==
  ASSUME NEW record, NEW resolved
  PROVE  Hits(record, resolved) <=>
           \/ /\ StagedSlot("key", record.key, resolved) # Absent
              /\ needle \in Text(StagedSlot("key", record.key, resolved)).words
           \/ /\ StagedSlot("value", record.value, resolved) # Absent
              /\ needle \in Text(StagedSlot("value", record.value, resolved)).words
<1> DEFINE view == View(record, resolved)
<1>1. /\ view["key"] = StagedSlot("key", record.key, resolved)
      /\ view["value"] = StagedSlot("value", record.value, resolved)
  BY DEF View
<1>2. Hits(record, resolved) <=> \E f \in {"key", "value"} :
                                   view[f] # Absent /\ needle \in Text(view[f]).words
  BY DEF Hits, OnPayload
<1> HIDE DEF view
<1> QED BY <1>1, <1>2

\* A payload that nothing decodes and no rule hides shows its bytes.
LEMMA RawShown ==
  ASSUME Loaded, NEW field \in {"key", "value"}, NEW payload, payload # Absent, IsPayload(payload),
         NEW resolved \in SUBSET Ids, ~(decodes /\ NeedsDecode(payload, Backup(field))),
         ~(Obfuscated /\ HidesPayload(Rule))
  PROVE  /\ StagedSlot(field, payload, resolved) # Absent
         /\ Text(StagedSlot(field, payload, resolved)) = RenderRaw(payload)
<1> DEFINE slot == Decoded(payload, Backup(field), resolved)
           staged == StagedSlot(field, payload, resolved)
<1>1. /\ IsSlot(slot) /\ slot.raw = payload /\ slot.text = Absent
      /\ slot.json # NoTree => decodes /\ Framing(payload, Backup(field)) \in resolved
  BY DecodedFacts
<1>2. slot.json = NoTree BY <1>1, ValuesAssumption DEF NeedsDecode
<1>3. CASE ~Obfuscated
  <2>1. staged = slot /\ IsSlot(staged) BY <1>3, StagedFacts
  <2> HIDE DEF slot, staged
  <2>2. staged # Absent BY <2>1, SlotIsThere
  <2> QED BY <2>1, <2>2, <1>1, <1>2 DEF Text, staged
<1>4. CASE Obfuscated
  <2>1. Rule.fields = <<>> /\ Rule.patterns = <<>> /\ Rule.key = "none" /\ Rule.value = "none"
    BY <1>4 DEF HidesPayload
  <2>2. Whole(Rule, field) = "none" BY <2>1 DEF Whole
  <2>3. IsSlot(staged) /\ Text(staged) = RewriteText(Rule, Plain(Rule, field, slot))
    BY <1>4, <2>2, StagedFacts
  <2>4. Plain(Rule, field, slot) = RenderRaw(payload)
    BY <1>1, <1>2, <2>1 DEF Plain, MasksUndecoded
  <2>5. RewriteText(Rule, RenderRaw(payload)) = RenderRaw(payload)
    BY <2>1, RewriteNothing DEF RewriteText
  <2> HIDE DEF staged
  <2>6. staged # Absent BY <2>3, SlotIsThere
  <2> QED BY <2>3, <2>4, <2>5, <2>6 DEF staged
<1> QED BY <1>3, <1>4

\* Stages::screen_record decides on bytes only where the page shows bytes.
LEMMA ScreenPass ==
  ASSUME Loaded, Filtering, NEW record \in Records, ScreenRecord(record) = "pass",
         NEW resolved \in SUBSET Ids
  PROVE  Hits(record, resolved)
<1> DEFINE S(f) == StagedSlot(f, record[f], resolved)
<1>1. ~(Obfuscated /\ HidesPayload(Rule)) /\ OnRaw(record) = "pass" BY DEF ScreenRecord
<1>2. PICK f \in {"key", "value"} :
        record[f] # Absent /\ ~Framed(record, f) /\ needle \in RenderRaw(record[f]).words
  BY <1>1 DEF OnRaw
<1>3. IsPayload(record[f]) BY ScreenedFacts, record["key"] = record.key, record["value"] = record.value
<1>4. StagedSlot(f, record[f], resolved) # Absent
      /\ Text(StagedSlot(f, record[f], resolved)) = RenderRaw(record[f])
  BY <1>1, <1>2, <1>3, RawShown DEF Framed
<1> QED BY <1>2, <1>4, HitsIs

LEMMA ScreenFail ==
  ASSUME Loaded, Filtering, NEW record \in Records, ScreenRecord(record) = "fail",
         NEW resolved \in SUBSET Ids
  PROVE  ~Hits(record, resolved)
<1>1. ~(Obfuscated /\ HidesPayload(Rule)) /\ OnRaw(record) = "fail" BY DEF ScreenRecord
<1>2. \A f \in {"key", "value"} :
        record[f] # Absent => ~Framed(record, f) /\ needle \notin RenderRaw(record[f]).words
  BY <1>1 DEF OnRaw
<1>3. ASSUME NEW f \in {"key", "value"}, StagedSlot(f, record[f], resolved) # Absent
      PROVE  needle \notin Text(StagedSlot(f, record[f], resolved)).words
  <2>1. record[f] # Absent BY <1>3, AbsentStays
  <2>2. IsPayload(record[f])
    BY ScreenedFacts, record["key"] = record.key, record["value"] = record.value
  <2>3. Text(StagedSlot(f, record[f], resolved)) = RenderRaw(record[f])
    BY <1>1, <1>2, <2>1, <2>2, RawShown DEF Framed
  <2> QED BY <1>2, <2>1, <2>3
<1> QED BY <1>3, HitsIs

LEMMA ScreenVerdicts ==
  ASSUME NEW record PROVE ScreenRecord(record) \in {"pass", "fail", "needs_payload"}
BY DEF ScreenRecord, OnRaw

\* A page of a record that hits shows the needle.
LEMMA HitShows ==
  ASSUME Loaded, NEW record \in Records, NEW resolved, Hits(record, resolved),
         NEW pg \in Rendered(record, resolved)
  PROVE  \E text \in {pg.key, pg.value} : text # Absent /\ needle \in text.words
<1>1. /\ pg.key = ShownOf(StagedSlot("key", record.key, resolved))
      /\ pg.value = ShownOf(StagedSlot("value", record.value, resolved))
  BY PageFacts
<1>2. ASSUME NEW slot, slot # Absent, needle \in Text(slot).words
      PROVE  ShownOf(slot) # Absent /\ needle \in ShownOf(slot).words
  BY <1>2, TextFacts DEF ShownOf
<1> QED BY <1>1, <1>2, HitsIs
-----------------------------------------------------------------------------
(* The inductive invariant of the pipeline: the record on its way is one of   *)
(* the topic, and what is kept or shown of it is its view with some schemas.  *)

AtDecode(record) == kept.record = Screened(record) /\ page = Absent
AtRender(record) ==
  /\ page = Absent
  /\ kept.pending => kept.record = Screened(record) /\ (Filtering => ScreenRecord(record) = "pass")
  /\ ~kept.pending => \E resolved \in SUBSET Ids :
                        kept.staged = AfterFilter(View(record, resolved)) /\ Hits(record, resolved)
AtPage(record) ==
  \E resolved \in SUBSET Ids :
    page \in Rendered(record, resolved) /\ (Filtering => Hits(record, resolved))
AtEnd(record) ==
  page = Absent /\ (Filtering => \A resolved \in judged : ~Hits(record, resolved))

PassageOf(record) ==
  /\ passage = "decode" => AtDecode(record)
  /\ passage = "render" => AtRender(record)
  /\ passage = "shown" => AtPage(record)
  /\ passage = "rejected" => AtEnd(record)

ValuesInv ==
  /\ Loaded
  /\ passage \in {"idle", "decode", "render", "shown", "rejected"}
  /\ passage = "idle" => page = Absent
  /\ passage # "idle" => \E record \in Records : raw = record /\ PassageOf(record)

\* What depends only on the query and on a record does not change with the rest.
LEMMA RuleFrame ==
  ASSUME UNCHANGED query
  PROVE  /\ (Loaded <=> Loaded') /\ (Filtering <=> Filtering') /\ needle' = needle
         /\ Obfuscator' = Obfuscator /\ (Obfuscated <=> Obfuscated') /\ Rule' = Rule
         /\ decodes' = decodes /\ fallback' = fallback
<1>1. policy' = policy /\ needle' = needle /\ decodes' = decodes /\ fallback' = fallback
  BY DEF query
<1>2. Obfuscator' = Obfuscator BY <1>1 DEF Obfuscator
<1>3. Obfuscated <=> Obfuscated' BY <1>2 DEF Obfuscated
<1>4. Rule' = Rule BY <1>2, <1>3 DEF Rule
<1> QED BY <1>1, <1>2, <1>3, <1>4 DEF Loaded, Filtering

LEMMA SlotFrame ==
  ASSUME UNCHANGED query, NEW CONSTANT field, NEW CONSTANT payload, NEW CONSTANT resolved
  PROVE  StagedSlot(field, payload, resolved)' = StagedSlot(field, payload, resolved)
<1>1. Backup(field)' = Backup(field) BY RuleFrame DEF Backup
<1>2. Slot(payload, Backup(field), resolved)' = Slot(payload, Backup(field), resolved)
  BY <1>1, RuleFrame DEF Slot, Decoded
<1> QED BY <1>2, RuleFrame DEF StagedSlot

LEMMA RecordFrame ==
  ASSUME UNCHANGED query, NEW CONSTANT record, NEW CONSTANT resolved
  PROVE  /\ Screened(record)' = Screened(record)
         /\ View(record, resolved)' = View(record, resolved)
         /\ AfterFilter(View(record, resolved))' = AfterFilter(View(record, resolved))
         /\ Rendered(record, resolved)' = Rendered(record, resolved)
         /\ (Hits(record, resolved) <=> Hits(record, resolved)')
         /\ ScreenRecord(record)' = ScreenRecord(record)
<1>1. Screened(record)' = Screened(record)
  <2>1. Obfuscated <=> Obfuscated' BY RuleFrame
  <2>2. Rule' = Rule BY RuleFrame
  <2> QED BY <2>1, <2>2 DEF Screened
<1>2. View(record, resolved)' = View(record, resolved) BY <1>1, SlotFrame DEF View
<1>3. AfterFilter(View(record, resolved))' = AfterFilter(View(record, resolved))
  BY <1>2, RuleFrame DEF AfterFilter
<1>4. IntoRecord(View(record, resolved))' = IntoRecord(View(record, resolved))
  BY <1>2, RuleFrame DEF IntoRecord
<1>5. IntoRecord(AfterFilter(View(record, resolved)))' = IntoRecord(AfterFilter(View(record, resolved)))
  BY <1>3, RuleFrame DEF IntoRecord
<1>6. Hits(record, resolved) <=> Hits(record, resolved)'
  <2>1. needle' = needle BY RuleFrame
  <2> QED BY <1>2, <2>1 DEF Hits, OnPayload
<1>7. OnRaw(record)' = OnRaw(record)
  BY RuleFrame DEF OnRaw, Framed, Backup
<1>8. ScreenRecord(record)' = ScreenRecord(record) BY <1>7, RuleFrame DEF ScreenRecord
<1> QED BY <1>1, <1>2, <1>3, <1>4, <1>5, <1>6, <1>8 DEF Rendered

\* A step that does not touch the record keeps what is known of it.
LEMMA PassageFrame ==
  ASSUME UNCHANGED query, UNCHANGED <<raw, passage, kept, page, judged>>,
         NEW CONSTANT record, PassageOf(record)
  PROVE  PassageOf(record)'
<1>1. /\ raw' = raw /\ passage' = passage /\ kept' = kept /\ page' = page /\ judged' = judged
      /\ (Filtering <=> Filtering')
  BY RuleFrame
<1>2. AtDecode(record) => AtDecode(record)' BY <1>1, RecordFrame DEF AtDecode
<1>3. AtRender(record) => AtRender(record)' BY <1>1, RecordFrame DEF AtRender
<1>4. AtPage(record) => AtPage(record)' BY <1>1, RecordFrame DEF AtPage
<1>5. AtEnd(record) => AtEnd(record)' BY <1>1, RecordFrame DEF AtEnd
<1> QED BY <1>1, <1>2, <1>3, <1>4, <1>5 DEF PassageOf

LEMMA ValuesFrame ==
  ASSUME ValuesInv, UNCHANGED query, UNCHANGED <<raw, passage, kept, page, judged>>
  PROVE  ValuesInv'
<1>1. (Loaded <=> Loaded') /\ passage' = passage /\ page' = page /\ raw' = raw BY RuleFrame
<1>2. ASSUME passage # "idle"
      PROVE  \E record \in Records : raw' = record /\ PassageOf(record)'
  <2>1. PICK record \in Records : raw = record /\ PassageOf(record) BY <1>2 DEF ValuesInv
  <2>2. PassageOf(record)' BY <2>1, PassageFrame
  <2> QED BY <1>1, <2>1, <2>2
<1> QED BY <1>1, <1>2 DEF ValuesInv

LEMMA ValuesInitially == ASSUME ValuesInit PROVE ValuesInv
BY DEF ValuesInit, ValuesInv, Loaded

LEMMA AdmitKeeps ==
  ASSUME ValuesInv, NEW record \in Records, AdmitRecord(record) PROVE ValuesInv'
<1> DEFINE verdict == ScreenRecord(record)
<1>1. UNCHANGED query /\ raw' = record /\ page' = Absent BY DEF AdmitRecord
<1>2. kept' = [pending |-> verdict # "needs_payload", record |-> Screened(record)]
  BY DEF AdmitRecord, Screened
<1>3. passage' = CASE verdict = "pass" -> "render"
                   [] verdict = "needs_payload" -> "decode"
                   [] OTHER -> "rejected"
  BY DEF AdmitRecord
<1>4. judged' = IF verdict = "fail" THEN SUBSET Ids ELSE {} BY DEF AdmitRecord
<1>5. verdict \in {"pass", "fail", "needs_payload"} BY ScreenVerdicts
<1>6. Loaded /\ (Loaded <=> Loaded') /\ (Filtering <=> Filtering') BY <1>1, RuleFrame DEF ValuesInv
<1>7. Screened(record)' = Screened(record) /\ ScreenRecord(record)' = verdict
      /\ \A resolved : Hits(record, resolved) <=> Hits(record, resolved)'
  BY <1>1, RecordFrame
<1>8. verdict = "fail" => (Filtering => \A resolved \in SUBSET Ids : ~Hits(record, resolved))
  BY <1>6, ScreenFail
<1> HIDE DEF verdict
<1>9. CASE verdict = "pass"
  <2>1. passage' = "render" BY <1>3, <1>9
  <2>2. AtRender(record)' BY <1>1, <1>2, <1>7, <1>9 DEF AtRender
  <2> QED BY <1>1, <1>6, <2>1, <2>2 DEF ValuesInv, PassageOf
<1>10. CASE verdict = "needs_payload"
  <2>1. passage' = "decode" BY <1>3, <1>10
  <2>2. AtDecode(record)' BY <1>1, <1>2, <1>7 DEF AtDecode
  <2> QED BY <1>1, <1>6, <2>1, <2>2 DEF ValuesInv, PassageOf
<1>11. CASE verdict = "fail"
  <2>1. passage' = "rejected" BY <1>3, <1>11
  <2>2. AtEnd(record)' BY <1>1, <1>4, <1>6, <1>7, <1>8, <1>11 DEF AtEnd
  <2> QED BY <1>1, <1>6, <2>1, <2>2 DEF ValuesInv, PassageOf
<1> QED BY <1>5, <1>9, <1>10, <1>11

LEMMA DecodeKeeps == ASSUME ValuesInv, DecodeAndFilter PROVE ValuesInv'
<1>1. PICK resolved \in SUBSET Ids :
        /\ passage = "decode" /\ UNCHANGED <<query, registry, raw, page, reads>>
        /\ LET staged == Staged(kept.record, resolved) IN
           IF OnPayload(staged)
           THEN /\ kept' = [pending |-> FALSE, staged |-> AfterFilter(staged)]
                /\ passage' = "render" /\ judged' = judged
           ELSE kept' = Absent /\ passage' = "rejected" /\ judged' = {resolved}
  BY DEF DecodeAndFilter
<1>2. PICK record \in Records : raw = record /\ AtDecode(record)
  BY <1>1 DEF ValuesInv, PassageOf
<1>3. Staged(kept.record, resolved) = View(record, resolved) BY <1>2, ViewIs DEF AtDecode
<1>4. OnPayload(Staged(kept.record, resolved)) <=> Hits(record, resolved) BY <1>3 DEF Hits
<1>5. UNCHANGED query /\ raw' = record /\ page' = Absent BY <1>1, <1>2 DEF AtDecode
<1>6. Loaded /\ (Loaded <=> Loaded') /\ (Filtering <=> Filtering') BY <1>5, RuleFrame DEF ValuesInv
<1>7. AfterFilter(View(record, resolved))' = AfterFilter(View(record, resolved))
      /\ (Hits(record, resolved) <=> Hits(record, resolved)')
  BY <1>5, RecordFrame
<1>8. CASE Hits(record, resolved)
  <2>1. kept' = [pending |-> FALSE, staged |-> AfterFilter(View(record, resolved))]
        /\ passage' = "render"
    BY <1>1, <1>3, <1>4, <1>8
  <2>2. AtRender(record)' BY <1>5, <1>7, <1>8, <2>1 DEF AtRender
  <2> QED BY <1>5, <1>6, <2>1, <2>2 DEF ValuesInv, PassageOf
<1>9. CASE ~Hits(record, resolved)
  <2>1. passage' = "rejected" /\ judged' = {resolved} BY <1>1, <1>4, <1>9
  <2>2. AtEnd(record)' BY <1>5, <1>7, <1>9, <2>1 DEF AtEnd
  <2> QED BY <1>5, <1>6, <2>1, <2>2 DEF ValuesInv, PassageOf
<1> QED BY <1>8, <1>9

LEMMA RenderKeeps == ASSUME ValuesInv, RenderPending \/ RenderDecoded PROVE ValuesInv'
<1>1. passage = "render" /\ UNCHANGED query /\ raw' = raw /\ passage' = "shown"
  BY DEF RenderPending, RenderDecoded
<1>2. PICK record \in Records : raw = record /\ AtRender(record)
  BY <1>1 DEF ValuesInv, PassageOf
<1>3. Loaded /\ (Loaded <=> Loaded') /\ (Filtering <=> Filtering') BY <1>1, RuleFrame DEF ValuesInv
<1>4. PICK resolved \in SUBSET Ids :
        page' \in Rendered(record, resolved) /\ (Filtering => Hits(record, resolved))
  <2>1. CASE RenderPending
    <3>1. PICK resolved \in SUBSET Ids : kept.pending /\ page' = IntoRecord(Staged(kept.record, resolved))
      BY <2>1 DEF RenderPending
    <3>2. kept.record = Screened(record) /\ (Filtering => ScreenRecord(record) = "pass")
      BY <1>2, <3>1 DEF AtRender
    <3>3. page' = IntoRecord(View(record, resolved)) BY <3>1, <3>2, ViewIs
    <3>4. Filtering => Hits(record, resolved) BY <1>3, <3>2, ScreenPass
    <3> QED BY <3>3, <3>4 DEF Rendered
  <2>2. CASE RenderDecoded
    <3>1. ~kept.pending /\ page' = IntoRecord(kept.staged) BY <2>2 DEF RenderDecoded
    <3>2. PICK resolved \in SUBSET Ids :
            kept.staged = AfterFilter(View(record, resolved)) /\ Hits(record, resolved)
      BY <1>2, <3>1 DEF AtRender
    <3> QED BY <3>1, <3>2 DEF Rendered
  <2> QED BY <2>1, <2>2
<1>5. Rendered(record, resolved)' = Rendered(record, resolved)
      /\ (Hits(record, resolved) <=> Hits(record, resolved)')
  BY <1>1, RecordFrame
<1>6. AtPage(record)' BY <1>3, <1>4, <1>5 DEF AtPage
<1> QED BY <1>1, <1>2, <1>3, <1>6 DEF ValuesInv, PassageOf

LEMMA ValuesInductive == ValuesSpec => []ValuesInv
<1>1. ASSUME ValuesInv, [ValuesNext]_valueVars PROVE ValuesInv'
  <2>1. CASE \E record \in Records : AdmitRecord(record) BY <1>1, <2>1, AdmitKeeps
  <2>2. CASE DecodeAndFilter BY <1>1, <2>2, DecodeKeeps
  <2>3. CASE RenderPending \/ RenderDecoded BY <1>1, <2>3, RenderKeeps
  <2>4. CASE \E id \in Ids : OtherPage(id) \/ Forget(id)
    <3>1. UNCHANGED query /\ UNCHANGED <<raw, passage, kept, page, judged>>
      BY <2>4 DEF OtherPage, Forget
    <3> QED BY <1>1, <3>1, ValuesFrame
  <2>5. CASE RegistryChanges
    <3>1. UNCHANGED query /\ UNCHANGED <<raw, passage, kept, page, judged>>
      BY <2>5 DEF RegistryChanges
    <3> QED BY <1>1, <3>1, ValuesFrame
  <2>6. CASE UNCHANGED valueVars
    <3>1. UNCHANGED query /\ UNCHANGED <<raw, passage, kept, page, judged>>
      BY <2>6 DEF valueVars
    <3> QED BY <1>1, <3>1, ValuesFrame
  <2> QED BY <1>1, <2>1, <2>2, <2>3, <2>4, <2>5, <2>6 DEF ValuesNext
<1> QED BY <1>1, ValuesInitially, PTL DEF ValuesSpec

\* A page that shows something shows a record of the topic with some schemas.
LEMMA ShownRecord ==
  ASSUME ValuesInv, page # Absent
  PROVE  /\ raw \in Records
         /\ \E resolved \in SUBSET Ids :
              page \in Rendered(raw, resolved) /\ (Filtering => Hits(raw, resolved))
<1>1. passage # "idle" BY DEF ValuesInv
<1>2. PICK record \in Records : raw = record /\ PassageOf(record) BY <1>1 DEF ValuesInv
<1>3. passage = "shown" BY <1>1, <1>2 DEF ValuesInv, PassageOf, AtDecode, AtRender, AtEnd
<1> QED BY <1>2, <1>3 DEF PassageOf, AtPage

\* The value as a schema reads it.
Written == ReadWith(raw.value, Framing(raw.value, fallback))

\* Whatever was decoded, whichever cache answered and whether or not a filter
\* looked at the record first, a page shows nothing that a rule for its topic
\* hides, by the names the decoded document has: for every configuration that
\* loads, every topic, every record and every schema a query chooses.
THEOREM RulesAlwaysHold == ValuesSpec => []NoSecretShown
<1>1. ASSUME ValuesInv PROVE NoSecretShown
  <2> SUFFICES ASSUME page # Absent, NEW i \in DOMAIN policy,
                      NEW q \in Range(policy[i].topics), Matches(q, Topic)
               PROVE  LET rule == policy[i].rule
                          shown(text) == IF text = Absent THEN {} ELSE text.words
                          written(payload) == IF payload = Absent THEN {} ELSE WordsOf(payload.doc)
                      IN
                      /\ \A p \in Range(rule.patterns) :
                           \A text \in {page.key, page.value, page.header} :
                             shown(text) \cap p.words = {}
                      /\ rule.key = "none" \/ shown(page.key) \cap written(raw.key) = {}
                      /\ rule.value = "none" \/ shown(page.value) \cap written(raw.value) = {}
                      /\ \/ page.value = Absent
                         \/ rule.unparsed = "allow" /\ page.value = RewriteText(rule, RenderRaw(raw.value))
                         \/ page.value.words \cap (WordsOf(Written) \ Open(rule, Written)) = {}
                      /\ raw.header.name \in rule.headers => page.header = Redacted({MASK})
    BY DEF NoSecretShown, Open, Written
  <2>1. Loaded BY <1>1 DEF ValuesInv
  <2>2. Obfuscated /\ Rule = policy[i].rule BY <2>1, OneRule
  <2>3. PICK resolved \in SUBSET Ids : raw \in Records /\ page \in Rendered(raw, resolved)
    BY <1>1, ShownRecord
  <2> DEFINE K == StagedSlot("key", raw.key, resolved)
             V == StagedSlot("value", raw.value, resolved)
  <2>4. page.key = ShownOf(K) /\ page.value = ShownOf(V) /\ page.header = HeaderText(Screened(raw).header)
    BY <2>1, <2>3, PageFacts
  <2>5. IsPayload(raw.key) /\ IsPayload(raw.value) BY <2>3, ScreenedFacts
  <2>6. K # Absent => raw.key # Absent BY AbsentStays
  <2>7. V # Absent => raw.value # Absent BY AbsentStays
  <2>8. ASSUME K # Absent
        PROVE  /\ \A p \in Range(Rule.patterns) : Text(K).words \intersect p.words = {}
               /\ Rule.key # "none" => Text(K).words \intersect WordsOf(raw.key.doc) = {}
    BY <2>1, <2>2, <2>5, <2>6, <2>8, PayloadHidden DEF Whole
  <2>9. ASSUME V # Absent
        PROVE  /\ \A p \in Range(Rule.patterns) : Text(V).words \intersect p.words = {}
               /\ Rule.value # "none" => Text(V).words \intersect WordsOf(raw.value.doc) = {}
               /\ \/ Rule.unparsed = "allow" /\ Text(V) = RewriteText(Rule, RenderRaw(raw.value))
                  \/ Text(V).words \intersect (WordsOf(Written) \ Open(Rule, Written)) = {}
    BY <2>1, <2>2, <2>5, <2>7, <2>9, PayloadHidden DEF Whole, Written, Backup
  <2>10. /\ \A p \in Range(Rule.patterns) : page.header.words \intersect p.words = {}
         /\ raw.header.name \in Rule.headers => page.header = Redacted({MASK})
    BY <2>1, <2>2, <2>3, <2>4, HeaderHidden
  <2> DEFINE shown(text) == IF text = Absent THEN {} ELSE text.words
             written(payload) == IF payload = Absent THEN {} ELSE WordsOf(payload.doc)
  <2>11. shown(page.key) = IF K = Absent THEN {} ELSE Text(K).words
    BY <2>4, TextFacts DEF ShownOf
  <2>12. shown(page.value) = IF V = Absent THEN {} ELSE Text(V).words
    BY <2>4, TextFacts DEF ShownOf
  <2>13. V # Absent => page.value = Text(V) BY <2>4 DEF ShownOf
  <2>14. V = Absent => page.value = Absent BY <2>4 DEF ShownOf
  <2>15. \A p \in Range(Rule.patterns) :
           /\ shown(page.key) \cap p.words = {} /\ shown(page.value) \cap p.words = {}
           /\ shown(page.header) \cap p.words = {}
    <3> HIDE DEF K, V
    <3> QED BY <2>8, <2>9, <2>10, <2>11, <2>12
  <2>16. Rule.key = "none" \/ shown(page.key) \cap written(raw.key) = {}
    <3> HIDE DEF K, V
    <3> QED BY <2>8, <2>11
  <2>17. Rule.value = "none" \/ shown(page.value) \cap written(raw.value) = {}
    <3> HIDE DEF K, V
    <3> QED BY <2>9, <2>12
  <2>18. \/ page.value = Absent
         \/ Rule.unparsed = "allow" /\ page.value = RewriteText(Rule, RenderRaw(raw.value))
         \/ page.value.words \cap (WordsOf(Written) \ Open(Rule, Written)) = {}
    <3> HIDE DEF K, V
    <3> QED BY <2>9, <2>13, <2>14
  <2> HIDE DEF K, V, shown, written
  <2> QED BY <2>2, <2>10, <2>15, <2>16, <2>17, <2>18 DEF shown, written
<1> QED BY <1>1, ValuesInductive, PTL

\* The verdict on the bytes, before anything is decoded, and the one on what was
\* decoded and hidden both agree with what is shown: a filtered page has only
\* records that show the needle, and none was turned away that would have shown
\* it with the schemas it was judged with.
THEOREM FilterAgreesWithPage == ValuesSpec => []FilterMatchesView
<1>1. ASSUME ValuesInv PROVE FilterMatchesView
  <2> SUFFICES ASSUME Filtering PROVE FilterMatchesView BY DEF FilterMatchesView
  <2>1. Loaded BY <1>1 DEF ValuesInv
  <2>2. ASSUME page # Absent
        PROVE  \E text \in {page.key, page.value} : text # Absent /\ needle \in text.words
    BY <1>1, <2>1, <2>2, ShownRecord, HitShows
  <2>3. ASSUME passage = "rejected", NEW resolved \in judged
        PROVE  LET view == IntoRecord(Staged(raw, resolved)) IN
               \A text \in {view.key, view.value} : text # Absent => needle \notin text.words
    <3>1. raw \in Records /\ ~Hits(raw, resolved)
      BY <1>1, <2>3 DEF ValuesInv, PassageOf, AtEnd
    <3> DEFINE K == StagedSlot("key", raw.key, resolved)
               V == StagedSlot("value", raw.value, resolved)
               view == IntoRecord(Staged(raw, resolved))
    <3>2. view.key = ShownOf(K) /\ view.value = ShownOf(V)
      BY StagedIs, IntoRecordIs
    <3>3. (K # Absent => needle \notin Text(K).words) /\ (V # Absent => needle \notin Text(V).words)
      BY <3>1, HitsIs
    <3> HIDE DEF K, V, view
    <3> QED BY <3>2, <3>3 DEF ShownOf, view
  <2> QED BY <2>2, <2>3 DEF FilterMatchesView
<1> QED BY <1>1, ValuesInductive, PTL

\* A record that is said to be verbatim is its bytes, filtered or not.
THEOREM VerbatimIsVerbatim == ValuesSpec => []VerbatimReproduces
<1>1. ASSUME ValuesInv PROVE VerbatimReproduces
  <2> SUFFICES ASSUME page # Absent, page.verbatim PROVE VerbatimReproduces
    BY DEF VerbatimReproduces
  <2>1. Loaded BY <1>1 DEF ValuesInv
  <2>2. PICK resolved \in SUBSET Ids : raw \in Records /\ page \in Rendered(raw, resolved)
    BY <1>1, ShownRecord
  <2>3. /\ raw.key = Absent => page.key = Absent
        /\ raw.key # Absent => IsUtf8(raw.key) /\ page.key = RenderRaw(raw.key)
        /\ raw.value = Absent => page.value = Absent
        /\ raw.value # Absent => IsUtf8(raw.value) /\ page.value = RenderRaw(raw.value)
        /\ page.header = raw.header.value /\ raw.header.utf8
    BY <2>1, <2>2, Reproduces
  <2>4. /\ raw["key"] = raw.key /\ raw["value"] = raw.value
        /\ page["key"] = page.key /\ page["value"] = page.value
    OBVIOUS
  <2> QED BY <2>3, <2>4 DEF VerbatimReproduces
<1> QED BY <1>1, ValuesInductive, PTL
=============================================================================

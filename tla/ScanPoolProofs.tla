---------------------------- MODULE ScanPoolProofs ----------------------------
(***************************************************************************)
(* Proofs about ScanPool for every set of topics, pages and readers, every *)
(* window and every setting of the pool.                                   *)
(***************************************************************************)
EXTENDS ScanPool, FiniteSetTheorems, TLAPS

Entries == [topic : Topics, reader : Readers, age : 0 .. Old]

\* The settings of the pool are positive numbers.
LEMMA Settings ==
  /\ MaxPerTopic \in Nat \ {0} /\ MaxTotal \in Nat \ {0}
  /\ Ttl \in Nat \ {0} /\ Ends \in Nat \ {0} /\ Old \in Nat
BY PoolAssumption DEF Old

------------------------------------------------------------------------------
(* Picking out of a sequence.                                                *)

\* A set of indexes has a first one, which Min picks.
LEMMA LeastIndex ==
  ASSUME NEW S \in SUBSET Nat, S # {}
  PROVE  Min(S) \in S /\ \A j \in S : Min(S) <= j
<1> DEFINE initials == {1..i : i \in S}
           smaller == StrictSubsetOrdering(Nat)
<1>1. initials \subseteq FiniteSubsetsOf(Nat)
  <2>1. ASSUME NEW i \in S PROVE 1..i \in SUBSET Nat /\ IsFiniteSet(1..i)
    BY FS_Interval
  <2> QED BY <2>1 DEF FiniteSubsetsOf
<1>2. initials # {} OBVIOUS
<1>3. IsWellFoundedOn(smaller, FiniteSubsetsOf(Nat))
  BY FS_StrictSubsetOrderingWellFounded
<1>4. PICK initial \in initials : \A other \in initials : <<other, initial>> \notin smaller
  <2> HIDE DEF initials, smaller
  <2> QED BY <1>1, <1>2, <1>3, WFMin
<1>5. PICK i \in S : initial = 1..i OBVIOUS
<1>6. ASSUME NEW j \in S, j < i PROVE FALSE
  <2>1. 1..j \subseteq 1..i /\ i \in 1..i /\ i \notin 1..j BY <1>6
  <2>2. <<1..j, 1..i>> \in smaller BY <2>1, <1>6 DEF StrictSubsetOrdering
  <2> QED BY <1>4, <1>5, <2>2
<1>7. \A j \in S : i <= j BY <1>6
<1>8. Min(S) = CHOOSE x \in S : \A y \in S : x <= y BY DEF Min
<1> QED BY <1>7, <1>8

\* A set of indexes of a sequence has a last one, which Max picks.
LEMMA LastIndex ==
  ASSUME NEW n \in Nat, NEW S \in SUBSET (1..n), S # {}
  PROVE  Max(S) \in S
<1> DEFINE back == {n - i : i \in S}
<1>1. back \in SUBSET Nat /\ back # {} OBVIOUS
<1>2. Min(back) \in back /\ \A j \in back : Min(back) <= j
  <2> HIDE DEF back
  <2> QED BY <1>1, LeastIndex
<1>3. PICK i \in S : Min(back) = n - i BY <1>2
<1>4. \A j \in S : i >= j
  <2> TAKE j \in S
  <2>1. n - j \in back OBVIOUS
  <2>2. n - i <= n - j BY <1>2, <1>3, <2>1
  <2> QED BY <2>2
<1>5. Max(S) = CHOOSE x \in S : \A y \in S : x >= y BY DEF Max
<1> QED BY <1>4, <1>5

\* p is q with some entries left out: its i-th entry is the at[i]-th of q.
Thins(p, q, at) ==
  /\ at \in [DOMAIN p -> DOMAIN q]
  /\ \A i \in DOMAIN p, j \in DOMAIN p : i < j => at[i] < at[j]
  /\ \A i \in DOMAIN p : p[i] = q[at[i]]

\* Live leaves out a front of the queue, and what it leaves is young where the
\* front is the oldest.
LEMMA LiveThins ==
  ASSUME NEW q \in Seq(Entries)
  PROVE  /\ Live(q) \in Seq(Entries)
         /\ \E at : Thins(Live(q), q, at)
         /\ (\A i \in DOMAIN q, j \in DOMAIN q : i <= j => q[j].age <= q[i].age)
              => \A i \in DOMAIN Live(q) : Live(q)[i].age <= Ttl
<1> DEFINE fresh == {i \in DOMAIN q : q[i].age <= Ttl}
           m == Min(fresh)
<1>1. CASE fresh = {}
  <2>1. Live(q) = <<>> BY <1>1 DEF Live
  <2>2. Thins(<<>>, q, <<>>) BY DEF Thins
  <2> QED BY <2>1, <2>2
<1>2. CASE fresh # {}
  <2>1. Live(q) = SubSeq(q, m, Len(q)) BY <1>2 DEF Live
  <2>2. m \in fresh
    <3> fresh \in SUBSET Nat OBVIOUS
    <3> QED BY <1>2, LeastIndex
  <2> HIDE DEF m
  <2>3. m \in 1..Len(q) /\ q[m].age <= Ttl BY <2>2
  <2>4. /\ SubSeq(q, m, Len(q)) \in Seq(Entries)
        /\ Len(SubSeq(q, m, Len(q))) = Len(q) - m + 1
        /\ \A i \in 1..(Len(q) - m + 1) : SubSeq(q, m, Len(q))[i] = q[i + m - 1]
    BY <2>3
  <2> DEFINE at == [i \in 1..(Len(q) - m + 1) |-> i + m - 1]
  <2>5. DOMAIN Live(q) = 1..(Len(q) - m + 1) BY <2>1, <2>3, <2>4
  <2>6. Thins(Live(q), q, at) BY <2>1, <2>3, <2>4, <2>5 DEF Thins
  <2>7. ASSUME \A i \in DOMAIN q, j \in DOMAIN q : i <= j => q[j].age <= q[i].age,
               NEW k \in DOMAIN Live(q)
        PROVE  Live(q)[k].age <= Ttl
    <3>1. Live(q)[k] = q[k + m - 1] /\ k + m - 1 \in DOMAIN q /\ m <= k + m - 1
      BY <2>1, <2>3, <2>4, <2>5
    <3>2. q[k + m - 1].age <= q[m].age BY <2>3, <2>7, <3>1
    <3>3. q[m] \in Entries /\ q[k + m - 1] \in Entries BY <2>3, <3>1
    <3>4. q[m].age \in 0..Old /\ q[k + m - 1].age \in 0..Old BY <3>3 DEF Entries
    <3> QED BY <2>3, <3>1, <3>2, <3>4, Settings
  <2> QED BY <2>1, <2>4, <2>6, <2>7
<1> QED BY <1>1, <1>2

\* Without leaves out what it is told to, and nothing else.
LEMMA WithoutThins ==
  ASSUME NEW q \in Seq(Entries), NEW gone \in SUBSET (DOMAIN q)
  PROVE  /\ Without(q, gone) \in Seq(Entries)
         /\ \E at :
              /\ Thins(Without(q, gone), q, at)
              /\ \A i \in DOMAIN Without(q, gone) : at[i] \notin gone
              /\ \A j \in DOMAIN q \ gone :
                   \E i \in DOMAIN Without(q, gone) : at[i] = j
<1> DEFINE kept == DOMAIN q \ gone
           upTo(i) == {j \in kept : j <= i}
           n == Cardinality(kept)
           rank == [i \in kept |-> Cardinality(upTo(i))]
           nth(k) == CHOOSE i \in kept : Cardinality(upTo(i)) = k
           at == [k \in 1..n |-> nth(k)]
<1>1. kept \subseteq 1..Len(q) OBVIOUS
<1>0. \A i \in kept : i \in DOMAIN q /\ i \in 1..Len(q) /\ i \in Int OBVIOUS
<1>2. IsFiniteSet(kept) /\ n \in Nat
  <2>1. IsFiniteSet(1..Len(q)) BY FS_Interval
  <2> QED BY <1>1, <2>1, FS_Subset, FS_CardinalityType
<1>3. ASSUME NEW i \in kept PROVE IsFiniteSet(upTo(i)) /\ Cardinality(upTo(i)) \in 1..n
  <2>1. upTo(i) \in SUBSET kept /\ i \in upTo(i) BY <1>1
  <2> HIDE DEF kept, upTo
  <2>2. IsFiniteSet(upTo(i)) /\ Cardinality(upTo(i)) <= n BY <1>2, <2>1, FS_Subset
  <2>3. Cardinality(upTo(i)) \in Nat /\ Cardinality(upTo(i)) # 0
    BY <2>1, <2>2, FS_CardinalityType, FS_EmptySet
  <2> HIDE DEF n
  <2> QED BY <1>2, <2>2, <2>3
<1>4. ASSUME NEW i \in kept, NEW j \in kept, i < j
      PROVE  Cardinality(upTo(i)) < Cardinality(upTo(j))
  <2>1. upTo(i) \in SUBSET upTo(j) /\ upTo(i) # upTo(j) BY <1>1, <1>4
  <2> HIDE DEF upTo
  <2>2. /\ Cardinality(upTo(i)) <= Cardinality(upTo(j))
        /\ Cardinality(upTo(i)) # Cardinality(upTo(j))
    BY <1>3, <2>1, FS_Subset
  <2> HIDE DEF n
  <2> QED BY <1>2, <1>3, <2>2
<1>5. rank \in Surjection(kept, 1..n)
  <2>1. rank \in [kept -> 1..n] BY <1>3
  <2>2. rank \in Injection(kept, 1..n)
    <3>1. ASSUME NEW i \in kept, NEW j \in kept, rank[i] = rank[j] PROVE i = j
      <4>1. i \in Int /\ j \in Int BY <1>1
      <4>2. ~(i < j) /\ ~(j < i)
        <5>1. Cardinality(upTo(i)) = Cardinality(upTo(j)) BY <3>1
        <5>2. Cardinality(upTo(i)) \in 1..n /\ Cardinality(upTo(j)) \in 1..n BY <1>3
        <5> HIDE DEF upTo, n, kept, rank
        <5> QED BY <1>2, <1>4, <5>1, <5>2
      <4> QED BY <4>1, <4>2
    <3> QED BY <2>1, <3>1 DEF Injection, IsInjective
  <2>3. IsFiniteSet(1..n) /\ Cardinality(1..n) = n BY <1>2, FS_Interval
  <2> HIDE DEF rank
  <2> QED BY <2>2, <2>3, FS_Injection
<1>6. ASSUME NEW k \in 1..n PROVE nth(k) \in kept /\ Cardinality(upTo(nth(k))) = k
  <2>1. \E i \in kept : rank[i] = k BY <1>5 DEF Surjection
  <2>2. \E i \in kept : Cardinality(upTo(i)) = k BY <2>1
  <2> HIDE DEF kept, upTo
  <2> QED BY <2>2
<1>7. Without(q, gone) = [k \in 1..n |-> q[nth(k)]] BY DEF Without
<1>8. ASSUME NEW i \in 1..n, NEW j \in 1..n, i < j PROVE nth(i) < nth(j)
  <2> HIDE DEF nth, upTo, kept, n
  <2>1. nth(i) \in Int /\ nth(j) \in Int BY <1>0, <1>6
  <2>2. nth(i) # nth(j) BY <1>6, <1>8, <1>2
  <2>3. ~(nth(j) < nth(i)) BY <1>4, <1>6, <1>8, <1>2
  <2> QED BY <2>1, <2>2, <2>3
<1>9. ASSUME NEW j \in kept PROVE \E k \in 1..n : nth(k) = j
  <2>1. Cardinality(upTo(j)) \in 1..n BY <1>3
  <2>2. nth(Cardinality(upTo(j))) \in kept
    /\ Cardinality(upTo(nth(Cardinality(upTo(j))))) = Cardinality(upTo(j))
    BY <2>1, <1>6
  <2> HIDE DEF nth, upTo, kept, n
  <2>3. nth(Cardinality(upTo(j))) = j
    <3> DEFINE i == nth(Cardinality(upTo(j)))
    <3>1. i \in Int /\ j \in Int BY <1>0, <2>2
    <3>2. ~(i < j) /\ ~(j < i)
      <4>1. Cardinality(upTo(i)) = Cardinality(upTo(j)) /\ Cardinality(upTo(j)) \in Int
        BY <1>2, <2>1, <2>2
      <4> HIDE DEF i
      <4> QED BY <1>4, <4>1, <2>2 DEF i
    <3> QED BY <3>1, <3>2
  <2> QED BY <2>1, <2>3
<1> HIDE DEF nth, n, kept
<1>10. Without(q, gone) \in Seq(Entries)
  <2>1. \A k \in 1..n : nth(k) \in 1..Len(q) BY <1>1, <1>6
  <2>2. \A k \in 1..n : q[nth(k)] \in Entries BY <2>1
  <2> QED BY <1>2, <1>7, <2>2
<1>11. DOMAIN Without(q, gone) = 1..n BY <1>7
<1>12. Thins(Without(q, gone), q, at)
  <2>1. at \in [1..n -> DOMAIN q] BY <1>0, <1>6
  <2> QED BY <1>7, <1>8, <1>11, <2>1 DEF Thins
<1>13. \A i \in 1..n : at[i] \notin gone BY <1>6 DEF kept
<1>14. \A j \in DOMAIN q \ gone : \E i \in 1..n : at[i] = j BY <1>9 DEF kept
<1> QED BY <1>10, <1>11, <1>12, <1>13, <1>14

------------------------------------------------------------------------------
(* The inductive invariant.                                                  *)

PoolTypes ==
  /\ parked \in Seq(Entries)
  /\ sweepIn \in 0 .. Ttl
  /\ life \in [Readers -> {"none", "open", "closed", "retired"}]
  /\ position \in [Readers -> 0 .. Ends] /\ paused \in [Readers -> BOOLEAN]
  /\ pc \in [Pages -> {"idle", "build", "assign", "seek", "read", "end"}]
  /\ topic \in [Pages -> Topics \cup {None}]
  /\ reader \in [Pages -> Readers \cup {None}]
  /\ leased \in [Pages -> BOOLEAN] /\ reusable \in [Pages -> BOOLEAN]
  /\ released \in [Pages -> BOOLEAN]
  /\ next \in [Pages -> 0 .. Ends] /\ done \in [Pages -> BOOLEAN]
  /\ failed \in SUBSET Readers

\* The pool's two limits.
Limits ==
  /\ Len(parked) <= MaxTotal
  /\ \A t \in Topics : Cardinality(OfTopic(t)) <= MaxPerTopic

\* What a page has at each point of its way.
Stages ==
  \A r \in Pages :
    /\ pc[r] \in {"idle", "build"} => reader[r] = None /\ ~leased[r]
    /\ pc[r] \in {"assign", "seek", "read", "end"} => reader[r] \in Readers
    /\ pc[r] \in {"assign", "seek"} => (leased[r] => ~released[r])
    /\ pc[r] = "read" => leased[r] /\ ~released[r]
    /\ pc[r] = "end" => leased[r]
    /\ pc[r] # "idle" => topic[r] \in Topics

\* No entry of the queue is there twice.
Distinct ==
  \A i \in DOMAIN parked, j \in DOMAIN parked : parked[i].reader = parked[j].reader => i = j

\* A reader that is there is with one page or parked, and one that gave an error is
\* with a page that will not park it.
Places ==
  \A c \in Readers :
    /\ \A r \in Pages, s \in Pages : Holds(r, c) /\ Holds(s, c) => r = s
    /\ \A r \in Pages : Holds(r, c) => c \notin ParkedReaders
    /\ life[c] \in {"open", "closed"} <=> (c \in ParkedReaders \/ \E r \in Pages : Holds(r, c))
    /\ c \in failed => life[c] \in {"open", "closed"} /\ c \notin ParkedReaders
    /\ \A r \in Pages : c \in failed /\ Holds(r, c) => leased[r] /\ ~reusable[r]

\* A reader is resumed before it seeks, and follows its page from there on.
Follows ==
  \A r \in Pages :
    /\ pc[r] = "seek" => ~paused[reader[r]]
    /\ pc[r] = "read" => paused[reader[r]] = done[r] /\ position[reader[r]] = next[r]

\* The front is the oldest, and what a sweep leaves is as old as the next can
\* find it.
Ages ==
  /\ \A i \in DOMAIN parked, j \in DOMAIN parked : i <= j => parked[j].age <= parked[i].age
  /\ \A i \in DOMAIN parked : parked[i].age + sweepIn <= 2 * Ttl

PoolInv == PoolTypes /\ Limits /\ Stages /\ Distinct /\ Places /\ Follows /\ Ages

------------------------------------------------------------------------------
(* The queue.                                                                *)

InTopic(q, t) == {i \in DOMAIN q : q[i].topic = t}
Named(q) == {q[i].reader : i \in DOMAIN q}

\* The rules of the queue, of any sequence of entries.
QueueFits(q, left) ==
  /\ q \in Seq(Entries)
  /\ Len(q) <= MaxTotal
  /\ \A t \in Topics : Cardinality(InTopic(q, t)) <= MaxPerTopic
  /\ \A i \in DOMAIN q, j \in DOMAIN q : q[i].reader = q[j].reader => i = j
  /\ \A i \in DOMAIN q, j \in DOMAIN q : i <= j => q[j].age <= q[i].age
  /\ \A i \in DOMAIN q : q[i].age + left <= 2 * Ttl

\* They are what the invariant says of the queue.
LEMMA QueueRules ==
  /\ PoolInv => QueueFits(parked, sweepIn) /\ ParkedReaders = Named(parked)
  /\ QueueFits(parked, sweepIn)' => parked' \in Seq(Entries) /\ Limits' /\ Distinct' /\ Ages'
  /\ ParkedReaders' = Named(parked')
BY DEF PoolInv, PoolTypes, QueueFits, Limits, Distinct, Ages, OfTopic, InTopic, ParkedReaders, Named

\* The indexes of a topic are finitely many.
LEMMA TopicIsFinite ==
  ASSUME NEW q \in Seq(Entries), NEW t
  PROVE  IsFiniteSet(InTopic(q, t)) /\ Cardinality(InTopic(q, t)) \in Nat
<1>1. IsFiniteSet(1..Len(q)) BY FS_Interval
<1>2. InTopic(q, t) \in SUBSET (1..Len(q)) BY DEF InTopic
<1> QED BY <1>1, <1>2, FS_Subset, FS_CardinalityType

\* Entries of a queue may be left out.
LEMMA ThinnedFits ==
  ASSUME NEW q, NEW left, QueueFits(q, left), NEW p \in Seq(Entries), NEW at, Thins(p, q, at)
  PROVE  QueueFits(p, left) /\ Named(p) \subseteq Named(q)
<1> USE DEF Thins
<1>1. q \in Seq(Entries) BY DEF QueueFits
<1>2. ASSUME NEW i \in DOMAIN p, NEW j \in DOMAIN p PROVE (at[i] = at[j] => i = j) /\ (i <= j => at[i] <= at[j])
  <2>1. i \in Int /\ j \in Int /\ at[i] \in Int /\ at[j] \in Int BY <1>1
  <2> QED BY <2>1
<1>3. Len(p) <= MaxTotal
  <2>1. at \in Injection(1..Len(p), 1..Len(q)) BY <1>1, <1>2 DEF Injection, IsInjective
  <2>2. /\ IsFiniteSet(1..Len(q)) /\ Cardinality(1..Len(q)) = Len(q)
        /\ Cardinality(1..Len(p)) = Len(p)
    <3>1. Len(p) \in Nat /\ Len(q) \in Nat BY <1>1
    <3>2. ASSUME NEW n \in Nat PROVE IsFiniteSet(1..n) /\ Cardinality(1..n) = n
      BY FS_Interval
    <3> QED BY <3>1, <3>2
  <2>3. Cardinality(1..Len(p)) <= Cardinality(1..Len(q)) BY <2>1, <2>2, FS_Injection
  <2> QED BY <1>1, <2>2, <2>3, Settings DEF QueueFits
<1>4. ASSUME NEW t \in Topics PROVE Cardinality(InTopic(p, t)) <= MaxPerTopic
  <2> DEFINE f == [i \in InTopic(p, t) |-> at[i]]
  <2>1. f \in Injection(InTopic(p, t), InTopic(q, t))
    <3>1. f \in [InTopic(p, t) -> InTopic(q, t)] BY DEF InTopic
    <3>2. \A i \in InTopic(p, t), j \in InTopic(p, t) : f[i] = f[j] => i = j
      BY <1>2 DEF InTopic
    <3> QED BY <3>1, <3>2 DEF Injection, IsInjective
  <2> HIDE DEF f
  <2>2. Cardinality(InTopic(p, t)) <= Cardinality(InTopic(q, t))
    BY <1>1, <2>1, TopicIsFinite, FS_Injection
  <2> QED BY <1>1, <2>2, TopicIsFinite, Settings DEF QueueFits
<1>5. \A i \in DOMAIN p, j \in DOMAIN p : p[i].reader = p[j].reader => i = j
  BY <1>2 DEF QueueFits
<1>6. \A i \in DOMAIN p, j \in DOMAIN p : i <= j => p[j].age <= p[i].age
  BY <1>2 DEF QueueFits
<1>7. \A i \in DOMAIN p : p[i].age + left <= 2 * Ttl BY DEF QueueFits
<1>8. Named(p) \subseteq Named(q) BY DEF Named
<1> QED BY <1>3, <1>4, <1>5, <1>6, <1>7, <1>8 DEF QueueFits

\* expire() leaves a queue, and the readers it does not retire.
LEMMA LiveFits ==
  ASSUME NEW q, NEW left, QueueFits(q, left)
  PROVE  /\ QueueFits(Live(q), left)
         /\ \A i \in DOMAIN Live(q) : Live(q)[i].age <= Ttl
         /\ Expired(q) \subseteq Named(q)
         /\ Named(Live(q)) = Named(q) \ Expired(q)
<1>1. q \in Seq(Entries) BY DEF QueueFits
<1>2. \A i \in DOMAIN q, j \in DOMAIN q : i <= j => q[j].age <= q[i].age BY DEF QueueFits
<1>3. /\ Live(q) \in Seq(Entries)
      /\ \A i \in DOMAIN Live(q) : Live(q)[i].age <= Ttl
  BY <1>1, <1>2, LiveThins
<1>4. PICK at : Thins(Live(q), q, at) BY <1>1, LiveThins
<1>5. QueueFits(Live(q), left) /\ Named(Live(q)) \subseteq Named(q) BY <1>3, <1>4, ThinnedFits
<1>6. Expired(q) = Named(q) \ Named(Live(q)) BY DEF Expired, Named
<1> QED BY <1>3, <1>5, <1>6

\* Taking entries out of a queue takes their readers out, and no other.
LEMMA WithoutFits ==
  ASSUME NEW q, NEW left, QueueFits(q, left), NEW out \in SUBSET DOMAIN q
  PROVE  /\ QueueFits(Without(q, out), left)
         /\ Named(Without(q, out)) = Named(q) \ {q[i].reader : i \in out}
<1> DEFINE p == Without(q, out)
<1>1. q \in Seq(Entries) BY DEF QueueFits
<1>2. p \in Seq(Entries) BY <1>1, WithoutThins
<1>3. PICK at : /\ Thins(p, q, at)
                /\ \A i \in DOMAIN p : at[i] \notin out
                /\ \A j \in DOMAIN q \ out : \E i \in DOMAIN p : at[i] = j
  BY <1>1, WithoutThins
<1> HIDE DEF p
<1>4. QueueFits(p, left) BY <1>2, <1>3, ThinnedFits
<1>5. ASSUME NEW i \in DOMAIN p PROVE p[i].reader \in Named(q) \ {q[j].reader : j \in out}
  BY <1>3 DEF QueueFits, Thins, Named
<1>6. ASSUME NEW j \in DOMAIN q \ out PROVE q[j].reader \in Named(p)
  BY <1>3 DEF Thins, Named
<1>7. Named(p) = Named(q) \ {q[i].reader : i \in out} BY <1>5, <1>6 DEF Named
<1> QED BY <1>4, <1>7 DEF p

\* A reader parked behind a queue with room makes a queue.
LEMMA BehindFits ==
  ASSUME NEW q, NEW left \in 0 .. Ttl, QueueFits(q, left), NEW t \in Topics, NEW c \in Readers,
         c \notin Named(q), ~Full(q, t)
  PROVE  /\ QueueFits(ParkedBehind(q, t, c), left)
         /\ Named(ParkedBehind(q, t, c)) = Named(q) \cup {c}
<1> DEFINE e == [topic |-> t, reader |-> c, age |-> 0]
           p == Append(q, e)
           n == Len(q)
<1>1. q \in Seq(Entries) /\ n \in Nat BY DEF QueueFits
<1>2. e \in Entries BY Settings DEF Entries
<1>3. e.topic = t /\ e.reader = c /\ e.age = 0 OBVIOUS
<1> HIDE DEF e
<1>4. /\ p \in Seq(Entries) /\ Len(p) = n + 1 /\ DOMAIN p = 1..(n + 1) /\ DOMAIN q = 1..n
      /\ \A i \in 1..n : p[i] = q[i]
  BY <1>1, <1>2
<1>14. p[n + 1] = e BY <1>1, <1>2
<1>5. ParkedBehind(q, t, c) = p BY DEF ParkedBehind, e
<1> HIDE DEF p, n
<1>6. Len(p) <= MaxTotal BY <1>1, <1>4, Settings DEF Full, n
<1>7. ASSUME NEW u \in Topics PROVE Cardinality(InTopic(p, u)) <= MaxPerTopic
  <2>1. CASE u = t
    <3>1. InTopic(p, u) = InTopic(q, u) \cup {n + 1}
      BY <1>1, <1>3, <1>4, <1>14, <2>1 DEF InTopic
    <3>2. n + 1 \notin InTopic(q, u) BY <1>1, <1>4 DEF InTopic
    <3>3. IsFiniteSet(InTopic(q, u)) /\ Cardinality(InTopic(q, u)) \in Nat BY <1>1, TopicIsFinite
    <3>4. Cardinality(InTopic(p, u)) = Cardinality(InTopic(q, u)) + 1
      BY <3>1, <3>2, <3>3, FS_AddElement
    <3>5. ~(Cardinality(InTopic(q, u)) >= MaxPerTopic) BY <2>1 DEF Full, InTopic
    <3> QED BY <3>3, <3>4, <3>5, Settings
  <2>2. CASE u # t
    <3>1. InTopic(p, u) = InTopic(q, u)
      BY <1>1, <1>3, <1>4, <1>14, <2>2 DEF InTopic
    <3> QED BY <3>1 DEF QueueFits
  <2> QED BY <2>1, <2>2
<1>8. ASSUME NEW i \in DOMAIN q PROVE q[i].reader # c /\ q[i].age \in Nat
  <2>1. q[i] \in Entries BY <1>1
  <2>2. q[i].age \in 0 .. Old BY <2>1 DEF Entries
  <2> QED BY <2>2, Settings DEF Named
<1>9. \A i \in DOMAIN p, j \in DOMAIN p : p[i].reader = p[j].reader => i = j
  BY <1>1, <1>3, <1>4, <1>14, <1>8 DEF QueueFits
<1>10. \A i \in DOMAIN p, j \in DOMAIN p : i <= j => p[j].age <= p[i].age
  BY <1>1, <1>3, <1>4, <1>14, <1>8 DEF QueueFits
<1>11. \A i \in DOMAIN p : p[i].age + left <= 2 * Ttl
  BY <1>1, <1>3, <1>4, <1>14, Settings DEF QueueFits
<1>12. Named(p) = Named(q) \cup {c} BY <1>1, <1>3, <1>4, <1>14 DEF Named
<1> QED BY <1>4, <1>5, <1>6, <1>7, <1>9, <1>10, <1>11, <1>12 DEF QueueFits

------------------------------------------------------------------------------
(* One lemma per action. First those that leave the queue alone.             *)

Active == {"assign", "seek", "read"}

\* What a page on its way can count on: it holds its reader, which is there, is
\* not parked and is no other page's.
OwnReader(r) ==
  /\ reader[r] \in Readers /\ Holds(r, reader[r])
  /\ life[reader[r]] \in {"open", "closed"} /\ reader[r] \notin ParkedReaders
  /\ \A s \in Pages : Holds(s, reader[r]) => s = r
  /\ \A s \in Pages : s # r /\ pc[s] \in Active => reader[s] # reader[r]

\* The invariant gives every page on its way its own reader.
LEMMA OneReaderEach ==
  ASSUME PoolInv, NEW r \in Pages, pc[r] \in Active
  PROVE  OwnReader(r)
<1>1. ASSUME NEW s \in Pages, pc[s] \in Active
      PROVE  reader[s] \in Readers /\ Holds(s, reader[s])
  BY <1>1 DEF PoolInv, Stages, Holds, Active
<1> QED BY <1>1 DEF PoolInv, Places, OwnReader

\* What Forget does to the readers that go, and to the others.
LEMMA Forgets ==
  ASSUME PoolTypes, NEW gone, NEW as \in {"none", "retired"}, Forget(gone, as)
  PROVE  /\ life' \in [Readers -> {"none", "open", "closed", "retired"}]
         /\ position' \in [Readers -> 0 .. Ends] /\ paused' \in [Readers -> BOOLEAN]
         /\ failed' \in SUBSET Readers
         /\ \A c \in Readers :
              /\ c \in gone => life'[c] = as /\ c \notin failed'
              /\ c \notin gone =>
                   /\ life'[c] = life[c] /\ position'[c] = position[c]
                   /\ paused'[c] = paused[c] /\ (c \in failed' <=> c \in failed)
<1>1. life' \in [Readers -> {"none", "open", "closed", "retired"}]
  BY DEF PoolTypes, Forget
<1>2. position' \in [Readers -> 0 .. Ends] /\ paused' \in [Readers -> BOOLEAN]
  BY Settings DEF PoolTypes, Forget
<1>3. failed' \in SUBSET Readers BY DEF PoolTypes, Forget
<1> QED BY <1>1, <1>2, <1>3 DEF PoolTypes, Forget

\* What is said of the queue stays as it is with the queue.
LEMMA QueueKept ==
  ASSUME PoolInv, UNCHANGED <<parked, sweepIn>>
  PROVE  Limits' /\ Ages' /\ Distinct' /\ ParkedReaders' = ParkedReaders
BY DEF PoolInv, Limits, Ages, Distinct, OfTopic, ParkedReaders

\* A new reader starts with its page alone.
LEMMA BuildKeeps ==
  ASSUME PoolInv, NEW r \in Pages, NEW c \in Readers, Build(r, c)
  PROVE  PoolInv'
<1> USE DEF PoolInv
<1>1. PoolTypes' BY Settings DEF PoolTypes, Stages, Build, poolVars
<1>2. UNCHANGED <<parked, sweepIn>> BY DEF Build, poolVars
<1>3. Limits' /\ Ages' /\ Distinct' /\ ParkedReaders' = ParkedReaders BY <1>2, QueueKept
<1>4. Stages' BY PoolAssumption DEF PoolTypes, Stages, Build, poolVars
<1>5. ASSUME NEW s \in Pages, NEW k \in Readers
      PROVE  Holds(s, k)' <=> Holds(s, k) \/ (s = r /\ k = c)
  BY <1>5, PoolAssumption DEF PoolTypes, Stages, Holds, Build, poolVars
<1>6. ASSUME NEW k \in Readers
      PROVE  life'[k] = (IF k = c THEN "open" ELSE life[k]) /\ (k \in failed' <=> k \in failed)
  BY <1>6 DEF PoolTypes, Build, poolVars
<1>7. ASSUME NEW s \in Pages, NEW k \in Readers, Holds(s, k)', Holds(s, k), k \in failed
      PROVE  leased'[s] = leased[s] /\ (reusable'[s] => reusable[s])
  BY <1>7, PoolAssumption DEF PoolTypes, Places, Holds, Build, poolVars
<1>8. Places' BY <1>3, <1>5, <1>6, <1>7 DEF Places, Build
<1>9. ASSUME NEW s \in Pages, pc[s] \in Active PROVE reader[s] \in Readers \ {c} /\ s # r
  BY <1>9, OneReaderEach DEF Build, Active, OwnReader
<1>10. ASSUME NEW s \in Pages, pc'[s] \in {"seek", "read"}
       PROVE  /\ pc'[s] = pc[s] /\ reader'[s] = reader[s] /\ pc[s] \in Active
  BY <1>10 DEF PoolTypes, Build, Active
<1>11. Follows' BY <1>9, <1>10 DEF PoolTypes, Follows, Build
<1> QED BY <1>1, <1>3, <1>4, <1>8, <1>11

\* A page that gets no reader has none to lose.
LEMMA BuildFailsKeeps ==
  ASSUME PoolInv, NEW r \in Pages, BuildFails(r)
  PROVE  PoolInv'
<1> USE DEF PoolInv
<1>1. PoolTypes' BY Settings DEF PoolTypes, Stages, BuildFails, Idle, poolVars, readerVars
<1>2. UNCHANGED <<parked, sweepIn>> BY DEF BuildFails, Idle, poolVars
<1>3. Limits' /\ Ages' /\ Distinct' /\ ParkedReaders' = ParkedReaders BY <1>2, QueueKept
<1>4. Stages' BY PoolAssumption DEF PoolTypes, Stages, BuildFails, Idle, poolVars, readerVars
<1>5. ASSUME NEW s \in Pages, NEW k \in Readers
      PROVE  Holds(s, k)' <=> Holds(s, k)
  BY <1>5, PoolAssumption DEF PoolTypes, Stages, Holds, BuildFails, Idle, poolVars, readerVars
<1>6. ASSUME NEW k \in Readers
      PROVE  life'[k] = life[k] /\ (k \in failed' <=> k \in failed)
  BY <1>6 DEF PoolTypes, BuildFails, Idle, poolVars, readerVars
<1>7. ASSUME NEW s \in Pages, NEW k \in Readers, Holds(s, k)', Holds(s, k), k \in failed
      PROVE  leased'[s] = leased[s] /\ (reusable'[s] => reusable[s])
  BY <1>7, PoolAssumption DEF PoolTypes, Stages, Holds, BuildFails, Idle
<1>8. Places' BY <1>3, <1>5, <1>6, <1>7 DEF Places, BuildFails
<1>9. Follows'
  BY <1>1 DEF PoolTypes, Stages, Follows, Active, BuildFails, Idle, poolVars, readerVars
<1> QED BY <1>1, <1>3, <1>4, <1>8, <1>9

\* The reader is resumed.
LEMMA AssignKeeps ==
  ASSUME PoolInv, NEW r \in Pages, Assign(r)
  PROVE  PoolInv'
<1> USE DEF PoolInv, OwnReader
<1>r. OwnReader(r) BY OneReaderEach DEF Assign, Active
<1>1. PoolTypes' BY <1>r, Settings DEF PoolTypes, Stages, Assign, Unpause, poolVars
<1>2. UNCHANGED <<parked, sweepIn>> BY DEF Assign, Unpause, poolVars
<1>3. Limits' /\ Ages' /\ Distinct' /\ ParkedReaders' = ParkedReaders BY <1>2, QueueKept
<1>4. Stages' BY <1>r DEF PoolTypes, Stages, Assign, Unpause, poolVars
<1>5. ASSUME NEW s \in Pages, NEW k \in Readers
      PROVE  Holds(s, k)' <=> Holds(s, k)
  BY <1>r, <1>5 DEF PoolTypes, Stages, Holds, Assign, Unpause, poolVars
<1>6. ASSUME NEW k \in Readers
      PROVE  life'[k] = life[k] /\ (k \in failed' <=> k \in failed)
  BY <1>r, <1>6 DEF PoolTypes, Assign, Unpause, poolVars
<1>7. ASSUME NEW s \in Pages, NEW k \in Readers, Holds(s, k)', Holds(s, k), k \in failed
      PROVE  leased'[s] = leased[s] /\ (reusable'[s] => reusable[s])
  BY <1>7 DEF PoolTypes, Places, Holds, Assign, Unpause, poolVars
<1>8. Places' BY <1>r, <1>3, <1>5, <1>6, <1>7 DEF Places, Assign
<1>9. Follows'
  BY <1>r, <1>1 DEF PoolTypes, Stages, Follows, Active, Assign, Unpause, poolVars
<1> QED BY <1>1, <1>3, <1>4, <1>8, <1>9

\* The reader is where its page asked.
LEMMA SeekKeeps ==
  ASSUME PoolInv, NEW r \in Pages, Seek(r)
  PROVE  PoolInv'
<1> USE DEF PoolInv, OwnReader
<1>r. OwnReader(r) BY OneReaderEach DEF Seek, Active
<1>1. PoolTypes' BY <1>r, Settings DEF PoolTypes, Stages, Seek, poolVars
<1>2. UNCHANGED <<parked, sweepIn>> BY DEF Seek, poolVars
<1>3. Limits' /\ Ages' /\ Distinct' /\ ParkedReaders' = ParkedReaders BY <1>2, QueueKept
<1>4. Stages' BY <1>r DEF PoolTypes, Stages, Seek, poolVars
<1>5. ASSUME NEW s \in Pages, NEW k \in Readers
      PROVE  Holds(s, k)' <=> Holds(s, k)
  BY <1>r, <1>5 DEF PoolTypes, Stages, Holds, Seek, poolVars
<1>6. ASSUME NEW k \in Readers
      PROVE  life'[k] = life[k] /\ (k \in failed' <=> k \in failed)
  BY <1>r, <1>6 DEF PoolTypes, Seek, poolVars
<1>7. ASSUME NEW s \in Pages, NEW k \in Readers, Holds(s, k)', Holds(s, k), k \in failed
      PROVE  leased'[s] = leased[s] /\ (reusable'[s] => reusable[s])
  BY <1>7 DEF PoolTypes, Places, Holds, Seek, poolVars
<1>8. Places' BY <1>r, <1>3, <1>5, <1>6, <1>7 DEF Places, Seek
<1>9. Follows'
  <2> SUFFICES ASSUME NEW s \in Pages, pc'[s] \in {"seek", "read"}
               PROVE  /\ pc'[s] = "seek" => ~paused'[reader'[s]]
                      /\ pc'[s] = "read" => /\ paused'[reader'[s]] = done'[s]
                                            /\ position'[reader'[s]] = next'[s]
    BY DEF Follows
  <2>1. CASE s = r BY <1>r, <2>1 DEF PoolTypes, Follows, Seek
  <2>2. CASE s # r
    <3>1. pc'[s] = pc[s] /\ done'[s] = done[s] /\ reader[s] \in Readers /\ reader[s] # reader[r]
      BY <1>r, <2>2, OneReaderEach DEF PoolTypes, Seek, Active
    <3> QED BY <3>1 DEF PoolTypes, Follows, Seek
  <2> QED BY <2>1, <2>2
<1> QED BY <1>1, <1>3, <1>4, <1>8, <1>9

\* A reader that acquire() could not point at the window is retired.
LEMMA AssignFailsKeeps ==
  ASSUME PoolInv, NEW r \in Pages, AssignFails(r), ~leased[r]
  PROVE  PoolInv'
<1> USE DEF PoolInv, OwnReader
<1>i. Idle(r) /\ UNCHANGED <<poolVars, released>> BY DEF AssignFails
<1>0. Forget({reader[r]}, "retired") BY DEF AssignFails, Retire, Forget, Idle, poolVars, readerVars
<1>r. OwnReader(r) BY OneReaderEach DEF AssignFails, Active
<1>1. PoolTypes' BY <1>0, Forgets, <1>i, <1>r, Settings DEF PoolTypes, Stages, Idle, poolVars
<1>2. UNCHANGED <<parked, sweepIn>> BY <1>i DEF AssignFails, Idle, poolVars
<1>3. Limits' /\ Ages' /\ Distinct' /\ ParkedReaders' = ParkedReaders BY <1>2, QueueKept
<1>4. Stages' BY <1>i, <1>r DEF PoolTypes, Stages, Idle, poolVars
<1>5. ASSUME NEW s \in Pages, NEW k \in Readers
      PROVE  /\ Holds(s, k)' <=> Holds(s, k) /\ s # r
             /\ Holds(r, k) => k = reader[r]
  BY <1>i, <1>r, <1>5, PoolAssumption DEF PoolTypes, Stages, Holds, Idle, poolVars
<1>6. ASSUME NEW k \in Readers
      PROVE  /\ k = reader[r] => life'[k] = "retired" /\ k \notin failed'
             /\ k # reader[r] => life'[k] = life[k] /\ (k \in failed' <=> k \in failed)
  BY <1>0, Forgets
<1>7. ASSUME NEW s \in Pages, NEW k \in Readers, Holds(s, k)', Holds(s, k), k \in failed
      PROVE  leased'[s] = leased[s] /\ (reusable'[s] => reusable[s])
  BY <1>i, <1>5, <1>7 DEF PoolTypes, Idle, poolVars
<1>8. Places' BY <1>r, <1>3, <1>5, <1>6, <1>7 DEF Places
<1>9. Follows'
  BY <1>i, <1>0, Forgets, <1>r, <1>1 DEF PoolTypes, Stages, Follows, Active, Idle, poolVars
<1> QED BY <1>1, <1>3, <1>4, <1>8, <1>9

\* A lease that cannot be moved to its next windows is poisoned.
LEMMA ReassignFailsKeeps ==
  ASSUME PoolInv, NEW r \in Pages, AssignFails(r), leased[r]
  PROVE  PoolInv'
<1> USE DEF PoolInv, OwnReader
<1>0. /\ reusable' = [reusable EXCEPT ![r] = FALSE]
      /\ failed' = failed \cup {reader[r]}
      /\ pc' = [pc EXCEPT ![r] = "end"]
      /\ UNCHANGED <<poolVars, readerVars, topic, reader, leased, released, next, done>>
  BY DEF AssignFails
<1>r. OwnReader(r) BY OneReaderEach DEF AssignFails, Active
<1>1. PoolTypes' BY <1>0, <1>r, Settings DEF PoolTypes, Stages, poolVars, readerVars
<1>2. UNCHANGED <<parked, sweepIn>> BY <1>0 DEF poolVars, readerVars
<1>3. Limits' /\ Ages' /\ Distinct' /\ ParkedReaders' = ParkedReaders BY <1>2, QueueKept
<1>4. Stages' BY <1>0, <1>r DEF PoolTypes, Stages, poolVars, readerVars
<1>5. ASSUME NEW s \in Pages, NEW k \in Readers
      PROVE  Holds(s, k)' <=> Holds(s, k)
  BY <1>0, <1>r, <1>5 DEF PoolTypes, Stages, Holds, poolVars, readerVars
<1>6. ASSUME NEW k \in Readers
      PROVE  life'[k] = life[k] /\ (k \in failed' <=> k \in failed \/ k = reader[r])
  BY <1>0, <1>r, <1>6 DEF PoolTypes, poolVars, readerVars
<1>7. ASSUME NEW s \in Pages, NEW k \in Readers, Holds(s, k)', Holds(s, k), k \in failed
      PROVE  leased'[s] = leased[s] /\ (reusable'[s] => reusable[s])
  BY <1>0, <1>7 DEF PoolTypes, Places, Holds, poolVars, readerVars
<1>p. leased'[r] /\ ~reusable'[r] BY <1>0 DEF PoolTypes, Stages
<1>8. Places' BY <1>0, <1>r, <1>p, <1>3, <1>5, <1>6, <1>7 DEF Places
<1>9. Follows'
  BY <1>0, <1>r, <1>1 DEF PoolTypes, Stages, Follows, Active, poolVars, readerVars
<1> QED BY <1>1, <1>3, <1>4, <1>8, <1>9

\* A reader goes with the acquire() that is dropped.
LEMMA AcquireDroppedKeeps ==
  ASSUME PoolInv, NEW r \in Pages, AcquireDropped(r)
  PROVE  PoolInv'
<1> USE DEF PoolInv
<1>0. Forget({reader[r]}, "none") BY DEF AcquireDropped, Forget, Idle, poolVars
<1>r. /\ pc[r] # "build" => reader[r] \in Readers /\ Holds(r, reader[r])
      /\ \A s \in Pages : reader[r] \in Readers /\ Holds(s, reader[r]) => s = r
      /\ reader[r] \in Readers => reader[r] \notin ParkedReaders
      /\ \A s \in Pages : s # r /\ pc[s] \in Active => reader[s] # reader[r]
  BY OneReaderEach, PoolAssumption DEF AcquireDropped, Active, OwnReader, Stages
<1>1. PoolTypes' BY <1>0, Forgets, <1>r, Settings DEF PoolTypes, Stages, AcquireDropped, Idle, poolVars
<1>2. UNCHANGED <<parked, sweepIn>> BY DEF AcquireDropped, Idle, poolVars
<1>3. Limits' /\ Ages' /\ Distinct' /\ ParkedReaders' = ParkedReaders BY <1>2, QueueKept
<1>4. Stages' BY <1>r DEF PoolTypes, Stages, AcquireDropped, Idle, poolVars
<1>5. ASSUME NEW s \in Pages, NEW k \in Readers
      PROVE  /\ Holds(s, k)' <=> Holds(s, k) /\ s # r
             /\ Holds(r, k) => k = reader[r]
  BY <1>r, <1>5, PoolAssumption DEF PoolTypes, Stages, Holds, AcquireDropped, Idle, poolVars
<1>6. ASSUME NEW k \in Readers
      PROVE  /\ k = reader[r] => life'[k] = "none" /\ k \notin failed'
             /\ k # reader[r] => life'[k] = life[k] /\ (k \in failed' <=> k \in failed)
  BY <1>0, Forgets
<1>7. ASSUME NEW s \in Pages, NEW k \in Readers, Holds(s, k)', Holds(s, k), k \in failed
      PROVE  leased'[s] = leased[s] /\ (reusable'[s] => reusable[s])
  BY <1>5, <1>7 DEF PoolTypes, AcquireDropped, Idle
<1>8. Places' BY <1>r, <1>3, <1>5, <1>6, <1>7 DEF Places, AcquireDropped
<1>9. Follows'
  BY <1>0, Forgets, <1>r, <1>1 DEF PoolTypes, Stages, Follows, Active, AcquireDropped, Idle, poolVars
<1> QED BY <1>1, <1>3, <1>4, <1>8, <1>9

\* Page and reader go on together.
LEMMA PollRecordKeeps ==
  ASSUME PoolInv, NEW r \in Pages, PollRecord(r)
  PROVE  PoolInv'
<1> USE DEF PoolInv, OwnReader
<1>r. OwnReader(r) BY OneReaderEach DEF PollRecord, Active
<1>1. PoolTypes'
  <2>1. position[reader[r]] = next[r] BY DEF Follows, PollRecord
  <2>2. position[reader[r]] + 1 \in 0 .. Ends /\ next[r] + 1 \in 0 .. Ends
    BY <1>r, <2>1, Settings DEF PoolTypes, PollRecord
  <2>3. position' \in [Readers -> 0 .. Ends] /\ next' \in [Pages -> 0 .. Ends]
    BY <1>r, <2>2 DEF PoolTypes, PollRecord
  <2> QED BY <2>3 DEF PoolTypes, PollRecord, poolVars
<1>2. UNCHANGED <<parked, sweepIn>> BY DEF PollRecord, poolVars
<1>3. Limits' /\ Ages' /\ Distinct' /\ ParkedReaders' = ParkedReaders BY <1>2, QueueKept
<1>4. Stages' BY <1>r DEF PoolTypes, Stages, PollRecord, poolVars
<1>5. ASSUME NEW s \in Pages, NEW k \in Readers
      PROVE  Holds(s, k)' <=> Holds(s, k)
  BY <1>r, <1>5 DEF PoolTypes, Stages, Holds, PollRecord, poolVars
<1>6. ASSUME NEW k \in Readers
      PROVE  life'[k] = life[k] /\ (k \in failed' <=> k \in failed)
  BY <1>r, <1>6 DEF PoolTypes, PollRecord, poolVars
<1>7. ASSUME NEW s \in Pages, NEW k \in Readers, Holds(s, k)', Holds(s, k), k \in failed
      PROVE  leased'[s] = leased[s] /\ (reusable'[s] => reusable[s])
  BY <1>7 DEF PoolTypes, Places, Holds, PollRecord, poolVars
<1>8. Places' BY <1>r, <1>3, <1>5, <1>6, <1>7 DEF Places, PollRecord
<1>9. Follows'
  BY <1>r, <1>1 DEF PoolTypes, Stages, Follows, Active, PollRecord, poolVars
<1> QED BY <1>1, <1>3, <1>4, <1>8, <1>9

\* The page pauses what it has read.
LEMMA PauseKeeps ==
  ASSUME PoolInv, NEW r \in Pages, Pause(r)
  PROVE  PoolInv'
<1> USE DEF PoolInv, OwnReader
<1>r. OwnReader(r) BY OneReaderEach DEF Pause, Active
<1>1. PoolTypes' BY <1>r, Settings DEF PoolTypes, Stages, Pause, poolVars
<1>2. UNCHANGED <<parked, sweepIn>> BY DEF Pause, poolVars
<1>3. Limits' /\ Ages' /\ Distinct' /\ ParkedReaders' = ParkedReaders BY <1>2, QueueKept
<1>4. Stages' BY <1>r DEF PoolTypes, Stages, Pause, poolVars
<1>5. ASSUME NEW s \in Pages, NEW k \in Readers
      PROVE  Holds(s, k)' <=> Holds(s, k)
  BY <1>r, <1>5 DEF PoolTypes, Stages, Holds, Pause, poolVars
<1>6. ASSUME NEW k \in Readers
      PROVE  life'[k] = life[k] /\ (k \in failed' <=> k \in failed)
  BY <1>r, <1>6 DEF PoolTypes, Pause, poolVars
<1>7. ASSUME NEW s \in Pages, NEW k \in Readers, Holds(s, k)', Holds(s, k), k \in failed
      PROVE  leased'[s] = leased[s] /\ (reusable'[s] => reusable[s])
  BY <1>7 DEF PoolTypes, Places, Holds, Pause, poolVars
<1>8. Places' BY <1>r, <1>3, <1>5, <1>6, <1>7 DEF Places, Pause
<1>9. Follows'
  BY <1>r, <1>1 DEF PoolTypes, Stages, Follows, Active, Pause, poolVars
<1> QED BY <1>1, <1>3, <1>4, <1>8, <1>9

\* A page may skip to the end of its window, or poison its lease in trying.
LEMMA SeekToEndKeeps ==
  ASSUME PoolInv, NEW r \in Pages, NEW fails \in BOOLEAN, SeekToEnd(r, fails)
  PROVE  PoolInv'
<1> USE DEF PoolInv, OwnReader
<1>r. OwnReader(r) BY OneReaderEach DEF SeekToEnd, Active
<1>1. PoolTypes'
  <2>1. position' \in [Readers -> 0 .. Ends] /\ next' \in [Pages -> 0 .. Ends]
    <3>1. CASE fails BY <3>1 DEF PoolTypes, SeekToEnd
    <3>2. CASE ~fails
      <4>1. Ends \in 0 .. Ends BY Settings
      <4> QED BY <1>r, <3>2, <4>1 DEF PoolTypes, SeekToEnd
    <3> QED BY <3>1, <3>2
  <2>2. reusable' \in [Pages -> BOOLEAN] /\ failed' \in SUBSET Readers
    <3>1. CASE fails
      <4>1. /\ reusable' = [reusable EXCEPT ![r] = FALSE]
            /\ failed' = failed \cup {reader[r]}
        BY <3>1 DEF SeekToEnd
      <4> QED BY <1>r, <4>1 DEF PoolTypes
    <3>2. CASE ~fails BY <3>2 DEF PoolTypes, SeekToEnd
    <3> QED BY <3>1, <3>2
  <2> QED BY <2>1, <2>2 DEF PoolTypes, SeekToEnd, poolVars
<1>2. UNCHANGED <<parked, sweepIn>> BY DEF SeekToEnd, poolVars
<1>3. Limits' /\ Ages' /\ Distinct' /\ ParkedReaders' = ParkedReaders BY <1>2, QueueKept
<1>4. Stages' BY <1>r DEF PoolTypes, Stages, SeekToEnd, poolVars
<1>5. ASSUME NEW s \in Pages, NEW k \in Readers
      PROVE  Holds(s, k)' <=> Holds(s, k)
  BY <1>r, <1>5 DEF PoolTypes, Stages, Holds, SeekToEnd, poolVars
<1>6. ASSUME NEW k \in Readers
      PROVE  life'[k] = life[k] /\ (k \in failed' <=> k \in failed \/ (fails /\ k = reader[r]))
  BY <1>r, <1>6 DEF PoolTypes, SeekToEnd, poolVars
<1>7. ASSUME NEW s \in Pages, NEW k \in Readers, Holds(s, k)', Holds(s, k), k \in failed
      PROVE  leased'[s] = leased[s] /\ (reusable'[s] => reusable[s])
  BY <1>7 DEF PoolTypes, SeekToEnd
<1>p. fails => leased'[r] /\ ~reusable'[r] BY DEF PoolTypes, Stages, SeekToEnd
<1>8. Places' BY <1>r, <1>p, <1>3, <1>5, <1>6, <1>7 DEF Places, SeekToEnd
<1>9. Follows'
  BY <1>r, <1>1 DEF PoolTypes, Stages, Follows, Active, SeekToEnd, poolVars
<1> QED BY <1>1, <1>3, <1>4, <1>8, <1>9

\* A lease goes on to its next windows.
LEMMA ReassignKeeps ==
  ASSUME PoolInv, NEW r \in Pages, NEW at \in 0 .. Ends, Reassign(r, at)
  PROVE  PoolInv'
<1> USE DEF PoolInv, OwnReader
<1>r. OwnReader(r) BY OneReaderEach DEF Reassign, Active
<1>1. PoolTypes' BY <1>r, Settings DEF PoolTypes, Stages, Reassign, poolVars, readerVars
<1>2. UNCHANGED <<parked, sweepIn>> BY DEF Reassign, poolVars, readerVars
<1>3. Limits' /\ Ages' /\ Distinct' /\ ParkedReaders' = ParkedReaders BY <1>2, QueueKept
<1>4. Stages' BY <1>r DEF PoolTypes, Stages, Reassign, poolVars, readerVars
<1>5. ASSUME NEW s \in Pages, NEW k \in Readers
      PROVE  Holds(s, k)' <=> Holds(s, k)
  BY <1>r, <1>5 DEF PoolTypes, Stages, Holds, Reassign, poolVars, readerVars
<1>6. ASSUME NEW k \in Readers
      PROVE  life'[k] = life[k] /\ (k \in failed' <=> k \in failed)
  BY <1>r, <1>6 DEF PoolTypes, Reassign, poolVars, readerVars
<1>7. ASSUME NEW s \in Pages, NEW k \in Readers, Holds(s, k)', Holds(s, k), k \in failed
      PROVE  leased'[s] = leased[s] /\ (reusable'[s] => reusable[s])
  BY <1>7 DEF PoolTypes, Places, Holds, Reassign, poolVars, readerVars
<1>8. Places' BY <1>r, <1>3, <1>5, <1>6, <1>7 DEF Places, Reassign
<1>9. Follows'
  BY <1>r, <1>1 DEF PoolTypes, Stages, Follows, Active, Reassign, poolVars, readerVars
<1> QED BY <1>1, <1>3, <1>4, <1>8, <1>9

\* A lease whose poll failed is poisoned.
LEMMA PollFailsKeeps ==
  ASSUME PoolInv, NEW r \in Pages, PollFails(r)
  PROVE  PoolInv'
<1> USE DEF PoolInv, OwnReader
<1>r. OwnReader(r) BY OneReaderEach DEF PollFails, Active
<1>1. PoolTypes' BY <1>r, Settings DEF PoolTypes, Stages, PollFails, poolVars, readerVars
<1>2. UNCHANGED <<parked, sweepIn>> BY DEF PollFails, poolVars, readerVars
<1>3. Limits' /\ Ages' /\ Distinct' /\ ParkedReaders' = ParkedReaders BY <1>2, QueueKept
<1>4. Stages' BY <1>r DEF PoolTypes, Stages, PollFails, poolVars, readerVars
<1>5. ASSUME NEW s \in Pages, NEW k \in Readers
      PROVE  Holds(s, k)' <=> Holds(s, k)
  BY <1>r, <1>5 DEF PoolTypes, Stages, Holds, PollFails, poolVars, readerVars
<1>6. ASSUME NEW k \in Readers
      PROVE  life'[k] = life[k] /\ (k \in failed' <=> k \in failed \/ k = reader[r])
  BY <1>r, <1>6 DEF PoolTypes, PollFails, poolVars, readerVars
<1>7. ASSUME NEW s \in Pages, NEW k \in Readers, Holds(s, k)', Holds(s, k), k \in failed
      PROVE  leased'[s] = leased[s] /\ (reusable'[s] => reusable[s])
  BY <1>7 DEF PoolTypes, Places, Holds, PollFails, poolVars, readerVars
<1>p. leased'[r] /\ ~reusable'[r] BY DEF PoolTypes, Stages, PollFails
<1>8. Places' BY <1>r, <1>p, <1>3, <1>5, <1>6, <1>7 DEF Places, PollFails
<1>9. Follows'
  BY <1>r, <1>1 DEF PoolTypes, Stages, Follows, Active, PollFails, poolVars, readerVars
<1> QED BY <1>1, <1>3, <1>4, <1>8, <1>9

\* A lease whose poll was dropped ends, wherever the reader got to.
LEMMA CancelledKeeps ==
  ASSUME PoolInv, NEW r \in Pages, NEW at \in 0 .. Ends, Cancelled(r, at)
  PROVE  PoolInv'
<1> USE DEF PoolInv, OwnReader
<1>r. OwnReader(r) BY OneReaderEach DEF Cancelled, Active
<1>1. PoolTypes' BY <1>r, Settings DEF PoolTypes, Stages, Cancelled, poolVars
<1>2. UNCHANGED <<parked, sweepIn>> BY DEF Cancelled, poolVars
<1>3. Limits' /\ Ages' /\ Distinct' /\ ParkedReaders' = ParkedReaders BY <1>2, QueueKept
<1>4. Stages' BY <1>r DEF PoolTypes, Stages, Cancelled, poolVars
<1>5. ASSUME NEW s \in Pages, NEW k \in Readers
      PROVE  Holds(s, k)' <=> Holds(s, k)
  BY <1>r, <1>5 DEF PoolTypes, Stages, Holds, Cancelled, poolVars
<1>6. ASSUME NEW k \in Readers
      PROVE  life'[k] = life[k] /\ (k \in failed' <=> k \in failed)
  BY <1>r, <1>6 DEF PoolTypes, Cancelled, poolVars
<1>7. ASSUME NEW s \in Pages, NEW k \in Readers, Holds(s, k)', Holds(s, k), k \in failed
      PROVE  leased'[s] = leased[s] /\ (reusable'[s] => reusable[s])
  BY <1>7 DEF PoolTypes, Places, Holds, Cancelled, poolVars
<1>8. Places' BY <1>r, <1>3, <1>5, <1>6, <1>7 DEF Places, Cancelled
<1>9. Follows'
  BY <1>r, <1>1 DEF PoolTypes, Stages, Follows, Active, Cancelled, poolVars
<1> QED BY <1>1, <1>3, <1>4, <1>8, <1>9

\* A reader that was retired is nobody's.
LEMMA ClosedKeeps ==
  ASSUME PoolInv, NEW c \in Readers, Closed(c)
  PROVE  PoolInv'
<1> USE DEF PoolInv
<1>0. Forget({c}, "none") BY DEF Closed, Forget, poolVars, pageVars
<1>1. PoolTypes' BY <1>0, Forgets, Settings DEF PoolTypes, Stages, Closed, poolVars, pageVars
<1>2. UNCHANGED <<parked, sweepIn>> BY DEF Closed, poolVars, pageVars, poolVars
<1>3. Limits' /\ Ages' /\ Distinct' /\ ParkedReaders' = ParkedReaders BY <1>2, QueueKept
<1>4. Stages' BY PoolAssumption DEF PoolTypes, Stages, Closed, poolVars, pageVars
<1>5. ASSUME NEW s \in Pages, NEW k \in Readers
      PROVE  Holds(s, k)' <=> Holds(s, k)
  BY <1>5 DEF PoolTypes, Stages, Holds, Closed, poolVars, pageVars
<1>6. ASSUME NEW k \in Readers
      PROVE  /\ k \in {c} => life'[k] = "none" /\ k \notin failed'
             /\ k \notin {c} => life'[k] = life[k] /\ (k \in failed' <=> k \in failed)
  BY <1>0, Forgets
<1>7. ASSUME NEW s \in Pages, NEW k \in Readers, Holds(s, k)', Holds(s, k), k \in failed
      PROVE  leased'[s] = leased[s] /\ (reusable'[s] => reusable[s])
  BY <1>7 DEF PoolTypes, Places, Holds, Closed, poolVars, pageVars
<1>8. Places' BY <1>3, <1>5, <1>6, <1>7 DEF Places, Closed
<1>9. ASSUME NEW s \in Pages, pc[s] \in Active PROVE reader[s] \in Readers \ {c}
  BY <1>9, OneReaderEach DEF Closed, OwnReader
<1>10. Follows'
  BY <1>0, Forgets, <1>9 DEF Follows, Active, Closed, pageVars
<1> QED BY <1>1, <1>3, <1>4, <1>8, <1>10

\* A parked reader that closes itself is still parked.
LEMMA ClosesItselfKeeps ==
  ASSUME PoolInv, NEW c \in Readers, ClosesItself(c)
  PROVE  PoolInv'
<1> USE DEF PoolInv
<1>1. PoolTypes' BY Settings DEF PoolTypes, Stages, ClosesItself, poolVars, pageVars
<1>2. UNCHANGED <<parked, sweepIn>> BY DEF ClosesItself, poolVars, pageVars, poolVars
<1>3. Limits' /\ Ages' /\ Distinct' /\ ParkedReaders' = ParkedReaders BY <1>2, QueueKept
<1>4. Stages' BY PoolAssumption DEF PoolTypes, Stages, ClosesItself, poolVars, pageVars
<1>5. ASSUME NEW s \in Pages, NEW k \in Readers
      PROVE  Holds(s, k)' <=> Holds(s, k)
  BY <1>5 DEF PoolTypes, Stages, Holds, ClosesItself, poolVars, pageVars
<1>6. ASSUME NEW k \in Readers
      PROVE  life'[k] = (IF k = c THEN "closed" ELSE life[k]) /\ (k \in failed' <=> k \in failed)
  BY <1>6 DEF PoolTypes, ClosesItself, poolVars, pageVars
<1>7. ASSUME NEW s \in Pages, NEW k \in Readers, Holds(s, k)', Holds(s, k), k \in failed
      PROVE  leased'[s] = leased[s] /\ (reusable'[s] => reusable[s])
  BY <1>7 DEF PoolTypes, Places, Holds, ClosesItself, poolVars, pageVars
<1>8. Places' BY <1>3, <1>5, <1>6, <1>7 DEF Places, ClosesItself
<1>9. Follows'
  BY <1>1 DEF PoolTypes, Stages, Follows, Active, ClosesItself, poolVars, pageVars
<1> QED BY <1>1, <1>3, <1>4, <1>8, <1>9

------------------------------------------------------------------------------
(* The actions that change the queue.                                        *)

\* Time makes every entry older at once.
LEMMA TickKeeps ==
  ASSUME PoolInv, Tick
  PROVE  PoolInv'
<1> USE DEF PoolInv
<1>1. QueueFits(parked, sweepIn) BY QueueRules
<1>2. parked \in Seq(Entries) /\ sweepIn \in 1 .. Ttl /\ sweepIn' = sweepIn - 1
  BY Settings DEF PoolTypes, Tick
<1>3. ASSUME NEW i \in DOMAIN parked
      PROVE  /\ parked[i] \in Entries /\ parked[i].age \in 0 .. Old
             /\ parked[i].age + 1 \in 0 .. Old /\ parked[i].age # Old
  <2>1. parked[i] \in Entries BY <1>2
  <2>2. parked[i].age \in 0 .. Old BY <2>1 DEF Entries
  <2>3. parked[i].age + sweepIn <= 2 * Ttl BY <1>1 DEF QueueFits
  <2> QED BY <1>2, <2>1, <2>2, <2>3, Settings DEF Old
<1>4. /\ DOMAIN parked' = DOMAIN parked
      /\ \A i \in DOMAIN parked : parked'[i] = [parked[i] EXCEPT !.age = parked[i].age + 1]
  BY <1>3 DEF Tick
<1>5. ASSUME NEW i \in DOMAIN parked
      PROVE  /\ parked'[i] \in Entries /\ parked'[i].topic = parked[i].topic
             /\ parked'[i].reader = parked[i].reader /\ parked'[i].age = parked[i].age + 1
  BY <1>3, <1>4 DEF Entries
<1>6. parked' \in Seq(Entries) /\ Len(parked') = Len(parked)
  <2>1. parked' = [i \in 1..Len(parked) |-> parked'[i]] BY <1>2, <1>4 DEF Tick
  <2> QED BY <1>2, <1>5, <2>1
<1>7. \A t : InTopic(parked', t) = InTopic(parked, t) BY <1>4, <1>5 DEF InTopic
<1>8. QueueFits(parked, sweepIn)'
  <2>1. Len(parked') <= MaxTotal
        /\ \A t \in Topics : Cardinality(InTopic(parked', t)) <= MaxPerTopic
    BY <1>1, <1>6, <1>7 DEF QueueFits
  <2>2. \A i \in DOMAIN parked', j \in DOMAIN parked' : parked'[i].reader = parked'[j].reader => i = j
    BY <1>1, <1>4, <1>5 DEF QueueFits
  <2>3. \A i \in DOMAIN parked', j \in DOMAIN parked' : i <= j => parked'[j].age <= parked'[i].age
    BY <1>1, <1>3, <1>4, <1>5 DEF QueueFits
  <2>4. \A i \in DOMAIN parked' : parked'[i].age + sweepIn' <= 2 * Ttl
    BY <1>1, <1>2, <1>3, <1>4, <1>5, Settings DEF QueueFits
  <2> QED BY <1>6, <2>1, <2>2, <2>3, <2>4 DEF QueueFits
<1>9. ParkedReaders' = ParkedReaders BY <1>4, <1>5 DEF ParkedReaders
<1>10. UNCHANGED <<readerVars, pageVars, failed>> BY DEF Tick
<1>11. PoolTypes' BY <1>2, <1>6, <1>10, Settings DEF PoolTypes, readerVars, pageVars
<1>12. Stages' /\ Follows' BY <1>10 DEF Stages, Follows, readerVars, pageVars
<1>13. \A r \in Pages, c \in Readers : Holds(r, c)' <=> Holds(r, c)
  BY <1>10 DEF Holds, pageVars
<1>14. Places' BY <1>9, <1>10, <1>13 DEF Places, readerVars, pageVars
<1> QED BY <1>8, <1>11, <1>12, <1>14, QueueRules

\* The pool's task retires what is too old, which nobody holds.
LEMMA SweepKeeps ==
  ASSUME PoolInv, Sweep
  PROVE  PoolInv'
<1> USE DEF PoolInv
<1>1. QueueFits(parked, sweepIn) /\ ParkedReaders = Named(parked) BY QueueRules
<1>2. /\ QueueFits(Live(parked), sweepIn)
      /\ \A i \in DOMAIN Live(parked) : Live(parked)[i].age <= Ttl
      /\ Expired(parked) \subseteq ParkedReaders
      /\ Named(Live(parked)) = ParkedReaders \ Expired(parked)
  BY <1>1, LiveFits
<1>3. /\ parked' = Live(parked) /\ sweepIn' = Ttl /\ UNCHANGED pageVars
      /\ Forget(Expired(parked), "retired")
  BY DEF Sweep, Retire
<1>4. QueueFits(parked, sweepIn)'
  <2>1. ASSUME NEW i \in DOMAIN Live(parked) PROVE Live(parked)[i].age + Ttl <= 2 * Ttl
    <3>1. Live(parked) \in Seq(Entries) BY <1>2 DEF QueueFits
    <3>2. Live(parked)[i] \in Entries BY <3>1
    <3>3. Live(parked)[i].age \in 0 .. Old BY <3>2 DEF Entries
    <3> QED BY <1>2, <3>3, Settings
  <2> QED BY <1>2, <1>3, <2>1 DEF QueueFits
<1>5. ParkedReaders' = ParkedReaders \ Expired(parked) BY <1>2, <1>3, QueueRules
<1>6. PoolTypes' BY <1>3, <1>4, Forgets, Settings DEF PoolTypes, QueueFits, pageVars
<1>7. Stages' BY <1>3 DEF Stages, pageVars
<1>8. \A r \in Pages, c \in Readers : Holds(r, c)' <=> Holds(r, c)
  BY <1>3 DEF Holds, pageVars
<1>9. ASSUME NEW c \in Readers
      PROVE  /\ c \in Expired(parked) => life'[c] = "retired" /\ c \notin failed' /\ c \in ParkedReaders
             /\ c \notin Expired(parked) =>
                  /\ life'[c] = life[c] /\ position'[c] = position[c]
                  /\ paused'[c] = paused[c] /\ (c \in failed' <=> c \in failed)
  BY <1>2, <1>3, Forgets
<1>10. Places' BY <1>3, <1>5, <1>8, <1>9 DEF Places, pageVars
<1>11. ASSUME NEW r \in Pages, pc[r] \in Active
       PROVE  reader[r] \in Readers /\ reader[r] \notin Expired(parked)
  BY <1>2, <1>11, OneReaderEach DEF OwnReader
<1>12. Follows' BY <1>3, <1>9, <1>11 DEF Follows, Active, pageVars
<1> QED BY <1>4, <1>6, <1>7, <1>10, <1>12, QueueRules

\* A page that asks takes a parked reader of nobody, or goes on to build one.
LEMMA AcquireKeeps ==
  ASSUME PoolInv, NEW r \in Pages, NEW t \in Topics, NEW from \in 0 .. Ends, Acquire(r, t, from)
  PROVE  PoolInv'
<1> USE DEF PoolInv
<1> DEFINE live == Live(parked)
           usable == Usable(live, t)
           shut == Shut(live, t)
           taken == IF usable = {} THEN None ELSE live[Max(usable)].reader
           out == shut \cup (IF usable = {} THEN {} ELSE {Max(usable)})
           gone == Expired(parked) \cup {live[i].reader : i \in shut}
<1>1. QueueFits(parked, sweepIn) /\ ParkedReaders = Named(parked) BY QueueRules
<1>2. /\ QueueFits(live, sweepIn)
      /\ Expired(parked) \subseteq ParkedReaders
      /\ Named(live) = ParkedReaders \ Expired(parked)
  BY <1>1, LiveFits
<1>3. /\ pc[r] = "idle" /\ parked' = Without(live, out) /\ Forget(gone, "retired")
      /\ topic' = [topic EXCEPT ![r] = t] /\ next' = [next EXCEPT ![r] = from]
      /\ reader' = [reader EXCEPT ![r] = taken]
      /\ pc' = [pc EXCEPT ![r] = IF taken = None THEN "build" ELSE "assign"]
      /\ UNCHANGED <<sweepIn, leased, reusable, released, done>>
  BY DEF Acquire, Retire
<1> HIDE DEF live
<1>4. live \in Seq(Entries) BY <1>2 DEF QueueFits
<1>5. /\ shut \in SUBSET DOMAIN live /\ usable \in SUBSET DOMAIN live /\ shut \cap usable = {}
  BY DEF Shut, Usable
<1>6. usable # {} => Max(usable) \in usable
  <2>1. usable \in SUBSET (1..Len(live)) /\ Len(live) \in Nat BY <1>4, <1>5
  <2> HIDE DEF usable
  <2> QED BY <2>1, LastIndex
<1> HIDE DEF usable, shut
<1>7. /\ taken # None => taken \in Named(live) \cap Readers
      /\ taken \in Readers \cup {None}
      /\ taken \notin {live[i].reader : i \in shut}
      /\ {live[i].reader : i \in out} = {live[i].reader : i \in shut} \cup ({taken} \ {None})
  <2>0. \A i \in DOMAIN live : live[i] \in Entries BY <1>4
  <2>1. \A i \in DOMAIN live : live[i].reader \in Readers BY <2>0 DEF Entries
  <2>2. CASE usable = {}
    <3>1. taken = None BY <2>2
    <3> QED BY <3>1, <1>5, <2>1, <2>2, PoolAssumption
  <2>3. CASE usable # {}
    <3>1. taken = live[Max(usable)].reader BY <2>3
    <3>2. Max(usable) \in DOMAIN live /\ Max(usable) \notin shut BY <1>5, <1>6, <2>3
    <3>3. taken \in Readers /\ taken # None BY <2>1, <3>1, <3>2, PoolAssumption
    <3>4. taken \notin {live[i].reader : i \in shut} BY <1>2, <1>5, <3>1, <3>2 DEF QueueFits
    <3>5. out = shut \cup {Max(usable)} BY <2>3
    <3> QED BY <3>1, <3>2, <3>3, <3>4, <3>5 DEF Named
  <2> QED BY <2>2, <2>3
<1>8. out \in SUBSET DOMAIN live BY <1>5, <1>6
<1> HIDE DEF out
<1>9. QueueFits(parked, sweepIn)' /\ ParkedReaders' = Named(live) \ {live[i].reader : i \in out}
  BY <1>2, <1>3, <1>8, WithoutFits, QueueRules
<1> HIDE DEF taken
<1>10. /\ gone \subseteq ParkedReaders
       /\ taken # None => taken \in (ParkedReaders \ gone) \cap Readers
       /\ ParkedReaders' = (ParkedReaders \ gone) \ {taken}
  <2>1. {live[i].reader : i \in shut} \subseteq Named(live) BY <1>5 DEF Named
  <2>2. None \notin ParkedReaders
    <3>1. \A i \in DOMAIN parked : parked[i] \in Entries BY DEF PoolTypes
    <3> QED BY <3>1, PoolAssumption DEF ParkedReaders, Entries
  <2> QED BY <1>2, <1>7, <1>9, <2>1, <2>2
<1> HIDE DEF gone
<1>11. /\ life' \in [Readers -> {"none", "open", "closed", "retired"}]
       /\ position' \in [Readers -> 0 .. Ends] /\ paused' \in [Readers -> BOOLEAN]
       /\ failed' \in SUBSET Readers
       /\ \A c \in Readers :
            /\ c \in gone => life'[c] = "retired" /\ c \notin failed'
            /\ c \notin gone =>
                 /\ life'[c] = life[c] /\ position'[c] = position[c]
                 /\ paused'[c] = paused[c] /\ (c \in failed' <=> c \in failed)
  BY <1>3, Forgets
<1>12. PoolTypes'
  <2>1. parked' \in Seq(Entries) BY <1>9 DEF QueueFits
  <2>2. pc' \in [Pages -> {"idle", "build", "assign", "seek", "read", "end"}]
    BY <1>3 DEF PoolTypes
  <2> QED BY <1>3, <1>7, <1>11, <2>1, <2>2 DEF PoolTypes
<1>13. reader[r] = None /\ ~leased[r] BY <1>3 DEF Stages
<1>14. Stages'
  <2> SUFFICES ASSUME NEW s \in Pages
               PROVE  /\ pc'[s] \in {"idle", "build"} => reader'[s] = None /\ ~leased'[s]
                      /\ pc'[s] \in {"assign", "seek", "read", "end"} => reader'[s] \in Readers
                      /\ pc'[s] \in {"assign", "seek"} => (leased'[s] => ~released'[s])
                      /\ pc'[s] = "read" => leased'[s] /\ ~released'[s]
                      /\ pc'[s] = "end" => leased'[s]
                      /\ pc'[s] # "idle" => topic'[s] \in Topics
    BY DEF Stages
  <2>1. CASE s = r
    <3>1. CASE taken = None BY <1>3, <1>13, <2>1, <3>1 DEF PoolTypes
    <3>2. CASE taken # None BY <1>3, <1>7, <1>13, <2>1, <3>2 DEF PoolTypes
    <3> QED BY <3>1, <3>2
  <2>2. CASE s # r BY <1>3, <2>2 DEF PoolTypes, Stages
  <2> QED BY <2>1, <2>2
<1>15. ASSUME NEW s \in Pages, NEW c \in Readers
       PROVE  Holds(s, c)' <=> (Holds(s, c) \/ (s = r /\ c = taken))
  BY <1>3, <1>13, PoolAssumption DEF PoolTypes, Holds
<1>16. Places'
  <2> SUFFICES ASSUME NEW c \in Readers
               PROVE  /\ \A s \in Pages, u \in Pages : Holds(s, c)' /\ Holds(u, c)' => s = u
                      /\ \A s \in Pages : Holds(s, c)' => c \notin ParkedReaders'
                      /\ life'[c] \in {"open", "closed"}
                           <=> (c \in ParkedReaders' \/ \E s \in Pages : Holds(s, c)')
                      /\ c \in failed' => life'[c] \in {"open", "closed"} /\ c \notin ParkedReaders'
                      /\ \A s \in Pages : c \in failed' /\ Holds(s, c)' => leased'[s] /\ ~reusable'[s]
    BY DEF Places
  <2>1. CASE c \in gone BY <1>10, <1>11, <1>15, <2>1, PoolAssumption DEF Places
  <2>2. CASE c = taken BY <1>3, <1>10, <1>11, <1>15, <2>2, PoolAssumption DEF Places
  <2>3. CASE c \notin gone /\ c # taken BY <1>3, <1>10, <1>11, <1>15, <2>3 DEF Places
  <2> QED BY <2>1, <2>2, <2>3
<1>17. ASSUME NEW s \in Pages, pc'[s] \in {"seek", "read"}
       PROVE  /\ pc'[s] = pc[s] /\ reader'[s] = reader[s] /\ next'[s] = next[s]
              /\ reader[s] \in Readers /\ reader[s] \notin gone
  <2>1. s # r BY <1>3, <1>17 DEF PoolTypes
  <2>2. pc'[s] = pc[s] /\ reader'[s] = reader[s] /\ next'[s] = next[s]
    BY <1>3, <2>1 DEF PoolTypes
  <2> QED BY <1>10, <1>17, <2>2, OneReaderEach DEF Active, OwnReader
<1>18. Follows' BY <1>3, <1>11, <1>17 DEF Follows
<1> QED BY <1>9, <1>12, <1>14, <1>16, <1>18, QueueRules

\* Page r gives up its reader: those in gone are retired, and the rest is parked.
ReleasedBy(r, gone) ==
  \A c \in Readers :
    /\ c \in gone =>
         /\ c \in ParkedReaders \/ Holds(r, c)
         /\ life'[c] = "retired" /\ c \notin failed'
    /\ c \notin gone =>
         /\ life'[c] = life[c] /\ position'[c] = position[c]
         /\ paused'[c] = paused[c] /\ (c \in failed' <=> c \in failed)
    /\ c \in failed /\ Holds(r, c) => c \in gone
    /\ c \in ParkedReaders' <=> (c \in ParkedReaders \/ Holds(r, c)) /\ c \notin gone

\* What release() does with a reader: it is parked or retired, once, and parked
\* only if it never gave an error.
LEMMA Released ==
  ASSUME PoolInv, NEW r \in Pages, pc[r] \in {"read", "end"}, Release(r), UNCHANGED sweepIn
  PROVE  /\ QueueFits(parked, sweepIn)'
         /\ life' \in [Readers -> {"none", "open", "closed", "retired"}]
         /\ position' \in [Readers -> 0 .. Ends] /\ paused' \in [Readers -> BOOLEAN]
         /\ failed' \in SUBSET Readers
         /\ released' \in [Pages -> BOOLEAN] /\ released'[r]
         /\ \A s \in Pages : s # r => released'[s] = released[s]
         /\ \E gone : ReleasedBy(r, gone)
<1> USE DEF PoolInv
<1> DEFINE c == reader[r]
           t == topic[r]
           live == Live(parked)
<1>1. QueueFits(parked, sweepIn) /\ ParkedReaders = Named(parked) BY QueueRules
<1>2. c \in Readers /\ t \in Topics /\ leased[r] BY DEF Stages
<1>3. CASE released[r]
  <2>1. UNCHANGED <<parked, readerVars, failed, released>> BY <1>3 DEF Release, Releases
  <2>2. \A k \in Readers : ~Holds(r, k) BY <1>2, <1>3 DEF Holds
  <2>3. QueueFits(parked, sweepIn)' /\ ParkedReaders' = ParkedReaders
    BY <1>1, <2>1 DEF ParkedReaders
  <2>4. \A k \in Readers :
          /\ k \notin {} /\ ~Holds(r, k) /\ life'[k] = life[k] /\ position'[k] = position[k]
          /\ paused'[k] = paused[k] /\ (k \in failed' <=> k \in failed)
          /\ (k \in ParkedReaders' <=> k \in ParkedReaders)
    BY <2>1, <2>2, <2>3 DEF readerVars
  <2>5. /\ life' \in [Readers -> {"none", "open", "closed", "retired"}]
        /\ position' \in [Readers -> 0 .. Ends] /\ paused' \in [Readers -> BOOLEAN]
        /\ failed' \in SUBSET Readers
        /\ released' \in [Pages -> BOOLEAN] /\ released'[r] /\ released' = released
    BY <1>3, <2>1 DEF PoolTypes, readerVars
  <2>6. ReleasedBy(r, {}) BY <2>4 DEF ReleasedBy
  <2> QED BY <2>3, <2>5, <2>6
<1>4. CASE ~released[r]
  <2>1. \A k \in Readers : Holds(r, k) <=> k = c BY <1>4 DEF Holds
  <2>2. c \notin ParkedReaders BY <1>2, <2>1 DEF Places
  <2>3. released' = [released EXCEPT ![r] = TRUE] BY <1>4 DEF Release, Releases
  <2>4. /\ released' \in [Pages -> BOOLEAN] /\ released'[r]
        /\ \A s \in Pages : s # r => released'[s] = released[s]
    BY <2>3 DEF PoolTypes
  <2> SUFFICES \E gone :
                 /\ Forget(gone, "retired") /\ QueueFits(parked, sweepIn)'
                 /\ gone \subseteq ParkedReaders \cup {c}
                 /\ c \in failed => c \in gone
                 /\ ParkedReaders' = (ParkedReaders \cup {c}) \ gone
    BY <2>1, <2>4, Forgets DEF ReleasedBy
  <2>5. CASE ~reusable[r]
    <3>1. Forget({c}, "retired") /\ parked' = parked
      BY <1>4, <2>5 DEF Release, Releases, Reusable, Retire
    <3>2. QueueFits(parked, sweepIn)' /\ ParkedReaders' = ParkedReaders
      BY <1>1, <3>1 DEF ParkedReaders
    <3> QED BY <2>2, <3>1, <3>2
  <2>6. CASE reusable[r]
    <3>1. /\ parked' = IF Full(live, t) THEN live ELSE ParkedBehind(live, t, c)
          /\ Forget(Expired(parked) \cup IF Full(live, t) THEN {c} ELSE {}, "retired")
      BY <1>4, <2>6 DEF Release, Releases, Reusable, Park, Retire
    <3>2. c \notin failed BY <1>2, <2>1, <2>6 DEF Places
    <3>3. /\ QueueFits(live, sweepIn) /\ Expired(parked) \subseteq ParkedReaders
          /\ Named(live) = ParkedReaders \ Expired(parked)
      BY <1>1, LiveFits
    <3> HIDE DEF live, c, t
    <3>4. CASE Full(live, t)
      <4>1. parked' = live /\ Forget(Expired(parked) \cup {c}, "retired") BY <3>1, <3>4
      <4>2. ParkedReaders' = Named(live) BY <4>1, QueueRules
      <4>3. QueueFits(parked, sweepIn)' BY <3>3, <4>1
      <4> QED BY <2>2, <3>2, <3>3, <4>1, <4>2, <4>3
    <3>5. CASE ~Full(live, t)
      <4>1. parked' = ParkedBehind(live, t, c) /\ Forget(Expired(parked), "retired")
        BY <3>1, <3>5
      <4>2. /\ QueueFits(ParkedBehind(live, t, c), sweepIn)
            /\ Named(ParkedBehind(live, t, c)) = Named(live) \cup {c}
        <5>1. c \notin Named(live) /\ sweepIn \in 0 .. Ttl BY <2>2, <3>3 DEF PoolTypes
        <5> QED BY <1>2, <3>3, <3>5, <5>1, BehindFits
      <4>3. ParkedReaders' = Named(live) \cup {c} BY <4>1, <4>2, QueueRules
      <4>4. QueueFits(parked, sweepIn)' BY <4>1, <4>2
      <4> QED BY <2>2, <3>2, <3>3, <4>1, <4>3, <4>4
    <3> QED BY <3>4, <3>5
  <2> QED BY <2>5, <2>6
<1> QED BY <1>3, <1>4

\* A page that lost its reader to release() has nothing, and no other page
\* notices.
LEMMA GivenUp ==
  ASSUME PoolInv, NEW r \in Pages, NEW gone, ReleasedBy(r, gone),
         \A s \in Pages, c \in Readers : Holds(s, c)' <=> Holds(s, c) /\ s # r,
         \A s \in Pages : s # r =>
            /\ pc'[s] = pc[s] /\ reader'[s] = reader[s] /\ leased'[s] = leased[s]
            /\ reusable'[s] = reusable[s] /\ next'[s] = next[s] /\ done'[s] = done[s],
         pc'[r] \notin Active
  PROVE  Places' /\ Follows'
<1> USE DEF PoolInv
<1>1. Places'
  <2> SUFFICES ASSUME NEW c \in Readers
               PROVE  /\ \A s \in Pages, u \in Pages : Holds(s, c)' /\ Holds(u, c)' => s = u
                      /\ \A s \in Pages : Holds(s, c)' => c \notin ParkedReaders'
                      /\ life'[c] \in {"open", "closed"}
                           <=> (c \in ParkedReaders' \/ \E s \in Pages : Holds(s, c)')
                      /\ c \in failed' => life'[c] \in {"open", "closed"} /\ c \notin ParkedReaders'
                      /\ \A s \in Pages : c \in failed' /\ Holds(s, c)' => leased'[s] /\ ~reusable'[s]
    BY DEF Places
  <2>1. CASE c \in gone BY <2>1 DEF Places, ReleasedBy
  <2>2. CASE c \notin gone /\ Holds(r, c) BY <2>2 DEF Places, ReleasedBy
  <2>3. CASE c \notin gone /\ ~Holds(r, c) BY <2>3 DEF Places, ReleasedBy
  <2> QED BY <2>1, <2>2, <2>3
<1>2. ASSUME NEW s \in Pages, pc'[s] \in {"seek", "read"}
      PROVE  /\ pc'[s] = pc[s] /\ reader'[s] = reader[s] /\ next'[s] = next[s]
             /\ done'[s] = done[s] /\ reader[s] \in Readers /\ reader[s] \notin gone
  <2>1. s # r BY <1>2 DEF Active
  <2>2. pc[s] \in Active BY <1>2, <2>1 DEF Active
  <2>3. reader[s] \in Readers /\ Holds(s, reader[s]) /\ reader[s] \notin ParkedReaders
        /\ ~Holds(r, reader[s])
    BY <2>1, <2>2, OneReaderEach DEF OwnReader
  <2> QED BY <2>1, <2>3 DEF ReleasedBy
<1>3. Follows' BY <1>2 DEF Follows, ReleasedBy
<1> QED BY <1>1, <1>3

\* A page that is read gives its reader back, and still has its lease.
LEMMA CloseKeeps ==
  ASSUME PoolInv, NEW r \in Pages, Close(r)
  PROVE  PoolInv'
<1> USE DEF PoolInv
<1>1. /\ pc[r] = "read" /\ Release(r) /\ pc' = [pc EXCEPT ![r] = "end"]
      /\ UNCHANGED <<sweepIn, topic, reader, leased, reusable, next, done>>
  BY DEF Close
<1>2. /\ QueueFits(parked, sweepIn)'
      /\ life' \in [Readers -> {"none", "open", "closed", "retired"}]
      /\ position' \in [Readers -> 0 .. Ends] /\ paused' \in [Readers -> BOOLEAN]
      /\ failed' \in SUBSET Readers
      /\ released' \in [Pages -> BOOLEAN] /\ released'[r]
      /\ \A s \in Pages : s # r => released'[s] = released[s]
  BY <1>1, Released
<1>3. PICK gone : ReleasedBy(r, gone) BY <1>1, Released
<1>4. parked' \in Seq(Entries) BY <1>2 DEF QueueFits
<1>5. PoolTypes' BY <1>1, <1>2, <1>4 DEF PoolTypes
<1>6. Stages' BY <1>1, <1>2 DEF PoolTypes, Stages
<1>7. \A s \in Pages, c \in Readers : Holds(s, c)' <=> Holds(s, c) /\ s # r
  BY <1>1, <1>2 DEF PoolTypes, Stages, Holds
<1>8. /\ \A s \in Pages : s # r => pc'[s] = pc[s]
      /\ pc'[r] \notin Active
  BY <1>1 DEF PoolTypes, Active
<1>9. Places' /\ Follows' BY <1>1, <1>3, <1>7, <1>8, GivenUp
<1> QED BY <1>2, <1>5, <1>6, <1>9, QueueRules

\* A lease that is dropped gives its reader back unless it did before.
LEMMA DropKeeps ==
  ASSUME PoolInv, NEW r \in Pages, Drop(r)
  PROVE  PoolInv'
<1> USE DEF PoolInv
<1>1. pc[r] = "end" /\ Release(r) /\ Idle(r) /\ UNCHANGED sweepIn BY DEF Drop
<1>2. /\ QueueFits(parked, sweepIn)'
      /\ life' \in [Readers -> {"none", "open", "closed", "retired"}]
      /\ position' \in [Readers -> 0 .. Ends] /\ paused' \in [Readers -> BOOLEAN]
      /\ failed' \in SUBSET Readers
      /\ released' \in [Pages -> BOOLEAN] /\ released'[r]
      /\ \A s \in Pages : s # r => released'[s] = released[s]
  BY <1>1, Released
<1>3. PICK gone : ReleasedBy(r, gone) BY <1>1, Released
<1>4. parked' \in Seq(Entries) BY <1>2 DEF QueueFits
<1>5. PoolTypes'
  <2>1. /\ pc' \in [Pages -> {"idle", "build", "assign", "seek", "read", "end"}]
        /\ topic' \in [Pages -> Topics \cup {None}] /\ reader' \in [Pages -> Readers \cup {None}]
    BY <1>1 DEF PoolTypes, Idle
  <2>2. /\ leased' \in [Pages -> BOOLEAN] /\ reusable' \in [Pages -> BOOLEAN]
        /\ done' \in [Pages -> BOOLEAN]
    BY <1>1 DEF PoolTypes, Idle
  <2>3. next' \in [Pages -> 0 .. Ends] BY <1>1, Settings DEF PoolTypes, Idle
  <2> QED BY <1>1, <1>2, <1>4, <2>1, <2>2, <2>3 DEF PoolTypes
<1>6. Stages' BY <1>1, <1>2 DEF PoolTypes, Stages, Idle
<1>7. \A s \in Pages, c \in Readers : Holds(s, c)' <=> Holds(s, c) /\ s # r
  BY <1>1, <1>2, PoolAssumption DEF PoolTypes, Holds, Idle
<1>8. /\ \A s \in Pages : s # r =>
           /\ pc'[s] = pc[s] /\ reader'[s] = reader[s] /\ leased'[s] = leased[s]
           /\ reusable'[s] = reusable[s] /\ next'[s] = next[s] /\ done'[s] = done[s]
      /\ pc'[r] \notin Active
  BY <1>1 DEF PoolTypes, Active, Idle
<1>9. Places' /\ Follows' BY <1>3, <1>7, <1>8, GivenUp
<1> QED BY <1>2, <1>5, <1>6, <1>9, QueueRules

------------------------------------------------------------------------------
(* The theorems.                                                             *)

\* The first state and every step keep the invariant.
LEMMA PoolStep == (Init => PoolInv) /\ (PoolInv /\ [Next]_vars => PoolInv')
<1>1. ASSUME Init PROVE PoolInv
  <2> USE <1>1
  <2>1. PoolTypes BY Settings DEF Init, PoolTypes
  <2>2. ParkedReaders = {} /\ \A t : OfTopic(t) = {} BY DEF Init, ParkedReaders, OfTopic
  <2>3. Limits
    <3>1. Len(parked) = 0 BY DEF Init
    <3>2. \A t \in Topics : Cardinality(OfTopic(t)) = 0 BY <2>2, FS_EmptySet
    <3> QED BY <3>1, <3>2, Settings DEF Limits
  <2>4. Stages /\ Follows BY DEF Init, Stages, Follows
  <2>5. Distinct /\ Ages BY DEF Init, Distinct, Ages
  <2>6. \A r \in Pages, c \in Readers : ~Holds(r, c) BY PoolAssumption DEF Init, Holds
  <2>7. Places BY <2>2, <2>6 DEF Init, Places
  <2> QED BY <2>1, <2>3, <2>4, <2>5, <2>7 DEF PoolInv
<1>2. ASSUME PoolInv, [Next]_vars PROVE PoolInv'
  <2> USE <1>2
  <2>1. CASE Next
    <3>1. ASSUME NEW c \in Readers, Closed(c) \/ ClosesItself(c) PROVE PoolInv'
      BY <3>1, ClosedKeeps, ClosesItselfKeeps
    <3>2. ASSUME NEW r \in Pages, AssignFails(r) PROVE PoolInv'
      BY <3>2, AssignFailsKeeps, ReassignFailsKeeps
    <3>3. ASSUME NEW r \in Pages,
                 \/ BuildFails(r) \/ Assign(r) \/ Seek(r) \/ AcquireDropped(r)
                 \/ PollRecord(r) \/ Pause(r) \/ PollFails(r) \/ Close(r) \/ Drop(r)
          PROVE  PoolInv'
      BY <3>3, BuildFailsKeeps, AssignKeeps, SeekKeeps, AcquireDroppedKeeps,
         PollRecordKeeps, PauseKeeps, PollFailsKeeps, CloseKeeps, DropKeeps
    <3>4. ASSUME NEW r \in Pages,
                 \/ \E c \in Readers : Build(r, c)
                 \/ \E fails \in BOOLEAN : SeekToEnd(r, fails)
                 \/ \E at \in 0 .. Ends :
                      \/ Reassign(r, at) \/ Cancelled(r, at)
                      \/ \E t \in Topics : Acquire(r, t, at)
          PROVE  PoolInv'
      BY <3>4, BuildKeeps, SeekToEndKeeps, ReassignKeeps, CancelledKeeps, AcquireKeeps
    <3> QED BY <2>1, <3>1, <3>2, <3>3, <3>4, SweepKeeps, TickKeeps DEF Next
  <2>2. CASE UNCHANGED vars
    <3>1. UNCHANGED <<poolVars, readerVars, pageVars, failed>> BY <2>2 DEF vars
    <3>2. /\ PoolTypes' /\ Limits' /\ Stages' /\ Distinct' /\ Follows' /\ Ages'
      BY <3>1 DEF PoolInv, PoolTypes, Limits, Stages, Distinct, Follows, Ages, OfTopic,
                  poolVars, readerVars, pageVars
    <3>3. Places'
      BY <3>1 DEF PoolInv, Places, Holds, ParkedReaders, poolVars, readerVars, pageVars
    <3> QED BY <3>2, <3>3 DEF PoolInv
  <2> QED BY <2>1, <2>2
<1> QED BY <1>1, <1>2

\* The pool keeps its invariant whatever the pages, Kafka and the clock do.
THEOREM PoolIsSound == Spec => []PoolInv
BY PoolStep, PTL DEF Spec

\* The pool never parks more readers than pool_total and pool_per_topic allow,
\* and everything has its type (park() of pool.rs).
THEOREM PoolStaysInLimits == Spec => []TypeOK
<1>1. PoolInv => TypeOK
  <2> SUFFICES ASSUME PoolInv PROVE TypeOK OBVIOUS
  <2>1. \A i \in DOMAIN parked : parked[i] \in [topic : Topics, reader : Readers, age : 0 .. Old]
    <3>1. parked \in Seq(Entries) BY DEF PoolInv, PoolTypes
    <3>2. \A i \in DOMAIN parked : parked[i] \in Entries BY <3>1
    <3> QED BY <3>2 DEF Entries
  <2>2. \A r \in Pages : leased[r] => reader[r] # None
    BY PoolAssumption DEF PoolInv, PoolTypes, Stages
  <2> QED BY <2>1, <2>2 DEF PoolInv, PoolTypes, Limits, TypeOK
<1> QED BY <1>1, PoolIsSound, PTL

\* Whatever is cancelled, fails or is dropped and in whatever order: a reader is
\* with one page, or parked once, or nowhere, and no reader is handed on that
\* gave an error (ScanLease::release and ScanPool::acquire).
THEOREM ReaderHasOneOwner == Spec => []OneOwner
<1>1. PoolInv => OneOwner
  <2> SUFFICES ASSUME PoolInv, NEW c \in Readers
               PROVE  LET places == {r \in Pages : Holds(r, c)}
                                    \cup {i \in DOMAIN parked : parked[i].reader = c}
                      IN  /\ Cardinality(places) <= 1
                          /\ life[c] \in {"none", "retired"} => places = {}
                          /\ c \notin ParkedReaders \cap failed
    BY DEF OneOwner
  <2> DEFINE places == {r \in Pages : Holds(r, c)}
                       \cup {i \in DOMAIN parked : parked[i].reader = c}
  <2>1. \A x \in places, y \in places : x = y
    BY DEF PoolInv, Places, Distinct, ParkedReaders
  <2>2. Cardinality(places) <= 1
    <3> HIDE DEF places
    <3>1. CASE places = {} BY <3>1, FS_EmptySet
    <3>2. CASE places # {}
      <4>1. PICK x : x \in places BY <3>2
      <4>2. places = {x} BY <2>1, <4>1
      <4>3. Cardinality({x}) = 1 BY FS_Singleton
      <4> QED BY <4>2, <4>3
    <3> QED BY <3>1, <3>2
  <2>3. life[c] \in {"none", "retired"} => places = {}
    BY DEF PoolInv, Places, ParkedReaders
  <2>4. c \notin ParkedReaders \cap failed BY DEF PoolInv, Places
  <2> QED BY <2>2, <2>3, <2>4
<1> QED BY <1>1, PoolIsSound, PTL

\* No reader is lost: one that is open is with a page or in the pool.
THEOREM NoReaderIsLost ==
  Spec => [](\A c \in Readers :
               life[c] \in {"open", "closed"} =>
                 c \in ParkedReaders \/ \E r \in Pages : Holds(r, c))
<1>1. PoolInv => \A c \in Readers :
                   life[c] \in {"open", "closed"} =>
                     c \in ParkedReaders \/ \E r \in Pages : Holds(r, c)
  BY DEF PoolInv, Places
<1> QED BY <1>1, PoolIsSound, PTL

\* A page reads its own window from where it asked, whatever the page before it
\* left of the reader (assign() and seek of ScanLease).
THEOREM PagesReadTheirWindow == Spec => []ReadsItsWindow
<1>1. PoolInv => ReadsItsWindow BY DEF PoolInv, Follows, ReadsItsWindow
<1> QED BY <1>1, PoolIsSound, PTL

\* An idle reader is closed within two periods of pool_idle_ttl (the pool's
\* task and expire()).
THEOREM IdleReadersClose == Spec => []IdleReaderCloses
<1>1. PoolInv => IdleReaderCloses
  <2> SUFFICES ASSUME PoolInv, NEW i \in DOMAIN parked PROVE parked[i].age <= 2 * Ttl
    BY DEF IdleReaderCloses
  <2>1. parked[i] \in Entries /\ sweepIn \in 0 .. Ttl BY DEF PoolInv, PoolTypes
  <2>2. parked[i].age \in 0 .. Old BY <2>1 DEF Entries
  <2>3. parked[i].age + sweepIn <= 2 * Ttl BY DEF PoolInv, Ages
  <2> QED BY <2>1, <2>2, <2>3, Settings
<1> QED BY <1>1, PoolIsSound, PTL
=============================================================================

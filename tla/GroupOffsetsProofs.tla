-------------------------- MODULE GroupOffsetsProofs --------------------------
(***************************************************************************)
(* Proofs about GroupOffsets for every set of groups, streams and resets,  *)
(* every pair of speeds and every interest_ttl.                            *)
(***************************************************************************)
EXTENDS GroupOffsets, FiniteSetTheorems, TLAPS

------------------------------------------------------------------------------
(* The inductive invariant.                                                  *)

Ages == 0 .. Old \cup {None}

OffsetTypes ==
  /\ known \in SUBSET Groups /\ kafka \in [Groups -> Offsets]
  /\ interest \in SUBSET Groups /\ leases \in [Groups -> Nat] /\ touched \in [Groups -> Ages]
  /\ refresh \in BOOLEAN
  /\ pc \in {"start", "hot", "refresh", "due", "fetch", "publish", "record", "wait"}
  /\ topology \in SUBSET Groups /\ reread \in BOOLEAN
  /\ due \in SUBSET topology /\ refreshed \in SUBSET due /\ DOMAIN fetched \in SUBSET due
  /\ \A g \in DOMAIN fetched : fetched[g] \in Offsets \cup {None}
  /\ attempted \in [Groups -> Ages]
  /\ table \in [Groups -> Offsets \cup {None}]
  /\ published \in [Groups -> Offsets \cup {None}] /\ told \in [Groups -> Offsets \cup {None}]
  /\ held \in [Holders -> Groups \cup {None}]
  /\ reset \in [Resets -> {"idle", "test", "asked", "backoff", "done"}]

LeasesOn(g) == {h \in Holders : held[h] = g}

\* The count of leases is the number of holders, and a group that is held is of
\* interest. A reset holds a lease from its write to its answer.
Counted ==
  /\ \A g \in Groups :
       /\ IsFiniteSet(LeasesOn(g)) /\ leases[g] = Cardinality(LeasesOn(g))
       /\ leases[g] > 0 => g \in interest
  /\ \A w \in Resets : held[w] # None <=> Waiting(w)

\* The sweep has seen every lease there was when it looked.
SeenHot == pc \in {"refresh", "due"} => watched \subseteq hot

\* Between two sweeps nothing is due.
Resting == pc \in {"start", "wait"} => due = {} /\ refreshed = {} /\ DOMAIN fetched = {}

\* What was published is what the table has, except for what the sweep has just
\* read; nothing is remembered of a group that is not in the topology.
Published ==
  /\ pc \notin {"publish", "record"} => refreshed = {}
  /\ pc = "publish" => \A g \in refreshed : table[g] # None
  /\ \A g \in Groups :
       /\ pc \notin {"start", "wait"} /\ g \notin topology => published[g] = None
       /\ published[g] # None /\ ~(pc = "publish" /\ g \in refreshed) => table[g] = published[g]

\* The open pages show what was published, as long as the table has it.
Shows == \A g \in known : published[g] # None /\ published[g] = table[g] => told[g] = table[g]

OffsetInv == OffsetTypes /\ Counted /\ SeenHot /\ Resting /\ Published /\ Shows /\ LagTold

------------------------------------------------------------------------------
(* What the steps have in common.                                            *)

\* The ages and speeds are numbers.
LEMMA Speeds ==
  /\ Fast \in Nat /\ Slow \in Nat /\ Fast <= Slow /\ Ttl \in Nat /\ Old \in Nat
  /\ \A age \in Ages : Older(age) \in Ages
  /\ 0 \in Ages /\ None \in Ages
<1>1. Fast \in Nat /\ Slow \in Nat /\ Fast <= Slow /\ Ttl \in Nat /\ Old \in Nat
  BY OffsetAssumption DEF Old
<1>2. ASSUME NEW age \in Ages PROVE Older(age) \in Ages
  <2>1. CASE age = None \/ age = Old BY <2>1 DEF Older, Ages
  <2>2. CASE age # None /\ age # Old
    <3>1. age \in 0 .. Old BY <2>2 DEF Ages
    <3>2. age + 1 \in 0 .. Old BY <1>1, <2>2, <3>1
    <3> QED BY <2>2, <3>2 DEF Older, Ages
  <2> QED BY <2>1, <2>2
<1> QED BY <1>1, <1>2 DEF Ages

\* A step that touches neither a lease nor a reset keeps the count.
LEMMA CountKept ==
  ASSUME OffsetInv, UNCHANGED <<interest, leases, held, reset>>
  PROVE  Counted'
BY DEF OffsetInv, Counted, LeasesOn, Waiting

\* A step that is not the lane's, and not a change of the topology, keeps what is
\* said of the lags.
LEMMA LagKept ==
  ASSUME OffsetInv,
         UNCHANGED <<pc, topology, due, fetched, refreshed, table, published, known, told, hot, watched>>
  PROVE  SeenHot' /\ Resting' /\ Published' /\ Shows' /\ LagTold'
BY DEF OffsetInv, SeenHot, Resting, Published, Shows, LagTold

\* A lease is one more holder of its group, and of no other.
LEMMA LeaseCounts ==
  ASSUME OffsetInv, NEW h \in Holders, NEW g \in Groups, held[h] = None, Lease(h, g)
  PROVE  /\ interest' \in SUBSET Groups /\ leases' \in [Groups -> Nat]
         /\ held' \in [Holders -> Groups \cup {None}]
         /\ \A i \in Groups :
              /\ IsFiniteSet(LeasesOn(i)') /\ leases'[i] = Cardinality(LeasesOn(i)')
              /\ leases'[i] > 0 => i \in interest'
<1> USE DEF OffsetInv
<1>1. /\ held' = [held EXCEPT ![h] = g] /\ interest' = interest \cup {g}
      /\ leases' = [leases EXCEPT ![g] = leases[g] + 1]
  BY DEF OffsetTypes, Lease
<1>2. interest' \in SUBSET Groups /\ leases' \in [Groups -> Nat]
      /\ held' \in [Holders -> Groups \cup {None}]
  BY <1>1 DEF OffsetTypes
<1>3. ASSUME NEW i \in Groups
      PROVE  /\ IsFiniteSet(LeasesOn(i)') /\ leases'[i] = Cardinality(LeasesOn(i)')
             /\ leases'[i] > 0 => i \in interest'
  <2>1. CASE i = g
    <3>1. LeasesOn(i)' = LeasesOn(i) \cup {h} BY <1>1, <2>1 DEF OffsetTypes, LeasesOn
    <3>2. h \notin LeasesOn(i) BY OffsetAssumption DEF LeasesOn
    <3>3. IsFiniteSet(LeasesOn(i)) /\ leases[i] = Cardinality(LeasesOn(i)) BY DEF Counted
    <3>4. /\ IsFiniteSet(LeasesOn(i)')
          /\ Cardinality(LeasesOn(i)') = Cardinality(LeasesOn(i)) + 1
      BY <3>1, <3>2, <3>3, FS_AddElement
    <3> QED BY <1>1, <2>1, <3>3, <3>4 DEF OffsetTypes
  <2>2. CASE i # g
    <3>1. LeasesOn(i)' = LeasesOn(i)
      BY <1>1, <2>2, OffsetAssumption DEF OffsetTypes, LeasesOn
    <3> QED BY <1>1, <2>2, <3>1 DEF OffsetTypes, Counted
  <2> QED BY <2>1, <2>2
<1> QED BY <1>2, <1>3

\* Dropping it is one holder less.
LEMMA DropCounts ==
  ASSUME OffsetInv, NEW h \in Holders, held[h] # None, DropLease(h)
  PROVE  /\ interest' \in SUBSET Groups /\ leases' \in [Groups -> Nat]
         /\ held' = [held EXCEPT ![h] = None]
         /\ \A i \in Groups :
              /\ IsFiniteSet(LeasesOn(i)') /\ leases'[i] = Cardinality(LeasesOn(i)')
              /\ leases'[i] > 0 => i \in interest'
<1> USE DEF OffsetInv
<1>1. PICK g \in Groups : g = held[h] BY DEF OffsetTypes
<1>2. IsFiniteSet(LeasesOn(g)) /\ leases[g] = Cardinality(LeasesOn(g)) /\ leases[g] \in Nat
  BY <1>1 DEF OffsetTypes, Counted
<1>3. h \in LeasesOn(g) BY <1>1 DEF LeasesOn
<1>4. /\ IsFiniteSet(LeasesOn(g) \ {h})
      /\ Cardinality(LeasesOn(g) \ {h}) = leases[g] - 1 /\ leases[g] > 0
  <2>1. /\ IsFiniteSet(LeasesOn(g) \ {h})
        /\ Cardinality(LeasesOn(g) \ {h}) = Cardinality(LeasesOn(g)) - 1
    BY <1>2, <1>3, FS_RemoveElement
  <2>2. Cardinality(LeasesOn(g)) # 0 BY <1>2, <1>3, FS_EmptySet
  <2> QED BY <1>2, <2>1, <2>2
<1>5. g \in interest BY <1>1, <1>4 DEF Counted
<1> DEFINE left == IF leases[g] = 0 THEN 0 ELSE leases[g] - 1
           idle == left = 0 /\ touched[g] = None
<1>6. /\ held' = [held EXCEPT ![h] = None]
      /\ interest' = IF idle THEN interest \ {g} ELSE interest
      /\ leases' = [leases EXCEPT ![g] = left]
  BY <1>1, <1>5 DEF DropLease
<1>7. left = leases[g] - 1 /\ left \in Nat BY <1>2, <1>4
<1>8. LeasesOn(g)' = LeasesOn(g) \ {h} BY <1>1, <1>6, OffsetAssumption DEF OffsetTypes, LeasesOn
<1> HIDE DEF left, idle
<1>9. leases'[g] = left /\ leases' \in [Groups -> Nat] BY <1>1, <1>6, <1>7 DEF OffsetTypes
<1>10. ASSUME NEW i \in Groups
       PROVE  /\ IsFiniteSet(LeasesOn(i)') /\ leases'[i] = Cardinality(LeasesOn(i)')
              /\ leases'[i] > 0 => i \in interest'
  <2>1. CASE i = g
    <3>1. leases'[g] > 0 => g \in interest' BY <1>5, <1>6, <1>7, <1>9 DEF idle
    <3> QED BY <1>4, <1>7, <1>8, <1>9, <2>1, <3>1
  <2>2. CASE i # g
    <3>1. LeasesOn(i)' = LeasesOn(i)
      BY <1>1, <1>6, <2>2, OffsetAssumption DEF OffsetTypes, LeasesOn
    <3>2. leases'[i] = leases[i] /\ (i \in interest => i \in interest')
      BY <1>6, <2>2 DEF OffsetTypes
    <3> QED BY <3>1, <3>2 DEF Counted
  <2> QED BY <2>1, <2>2
<1>11. interest' \in SUBSET Groups BY <1>6 DEF OffsetTypes
<1> QED BY <1>6, <1>9, <1>10, <1>11

------------------------------------------------------------------------------
(* Whoever watches, and the world around the lane.                           *)

\* A page that is opened on a group makes it of interest.
LEMMA TouchKeeps ==
  ASSUME OffsetInv, NEW g \in Groups, Touch(g)
  PROVE  OffsetInv'
<1> USE DEF OffsetInv
<1>1. OffsetTypes' BY Speeds DEF OffsetTypes, Touch, sweepVars, laneVars, watchVars
<1>2. Counted'
  BY DEF Counted, LeasesOn, Waiting, Touch, watchVars
<1>3. SeenHot' /\ Resting' /\ Published' /\ Shows' /\ LagTold'
  BY LagKept DEF Touch, sweepVars, laneVars
<1> QED BY <1>1, <1>2, <1>3

\* A stream that opens holds one lease more.
LEMMA OpenStreamKeeps ==
  ASSUME OffsetInv, NEW s \in Streams, NEW g \in Groups, OpenStream(s, g)
  PROVE  OffsetInv'
<1> USE DEF OffsetInv
<1>0. s \in Holders /\ s \notin Resets /\ Resets \subseteq Holders
  BY OffsetAssumption DEF Holders
<1>1. held[s] = None /\ Lease(s, g) BY DEF OpenStream
<1>2. OffsetTypes'
  BY <1>0, <1>1, LeaseCounts DEF OffsetTypes, OpenStream, Lease, sweepVars, laneVars
<1>3. \A w \in Resets : held'[w] = held[w] /\ reset'[w] = reset[w]
  BY <1>0, <1>1 DEF OffsetTypes, OpenStream, Lease
<1>4. Counted' BY <1>0, <1>1, <1>3, LeaseCounts DEF Counted, Waiting
<1>5. SeenHot' /\ Resting' /\ Published' /\ Shows' /\ LagTold'
  BY LagKept DEF OpenStream, sweepVars, laneVars
<1> QED BY <1>2, <1>4, <1>5

\* A stream that closes gives its lease back.
LEMMA CloseStreamKeeps ==
  ASSUME OffsetInv, NEW s \in Streams, CloseStream(s)
  PROVE  OffsetInv'
<1> USE DEF OffsetInv
<1>0. s \in Holders /\ s \notin Resets /\ Resets \subseteq Holders
  BY OffsetAssumption DEF Holders
<1>1. held[s] # None /\ DropLease(s) BY DEF CloseStream
<1>2. OffsetTypes'
  BY <1>0, <1>1, DropCounts DEF OffsetTypes, CloseStream, DropLease, sweepVars, laneVars
<1>3. \A w \in Resets : held'[w] = held[w] /\ reset'[w] = reset[w]
  BY <1>0, <1>1 DEF OffsetTypes, CloseStream, DropLease
<1>4. Counted' BY <1>0, <1>1, <1>3, DropCounts DEF Counted, Waiting
<1>5. SeenHot' /\ Resting' /\ Published' /\ Shows' /\ LagTold'
  BY LagKept DEF CloseStream, sweepVars, laneVars
<1> QED BY <1>2, <1>4, <1>5

\* A reset takes its lease with its write.
LEMMA AlterKeeps ==
  ASSUME OffsetInv, NEW w \in Resets, NEW g \in Groups, NEW o \in Offsets, Alter(w, g, o)
  PROVE  OffsetInv'
<1> USE DEF OffsetInv
<1>0. w \in Holders /\ Resets \subseteq Holders BY DEF Holders
<1>1. held[w] = None /\ Lease(w, g) BY DEF Alter, Counted, Waiting
<1>2. OffsetTypes'
  BY <1>0, <1>1, LeaseCounts DEF OffsetTypes, Alter, Lease, sweepVars, laneVars
<1>3. \A u \in Resets : held'[u] # None <=> Waiting(u)'
  <2> TAKE u \in Resets
  <2>1. CASE u = w
    BY <1>0, <1>1, <2>1, OffsetAssumption DEF OffsetTypes, Alter, Lease, Waiting
  <2>2. CASE u # w
    BY <1>0, <1>1, <2>2 DEF OffsetTypes, Counted, Alter, Lease, Waiting
  <2> QED BY <2>1, <2>2
<1>4. Counted' BY <1>0, <1>1, <1>3, LeaseCounts DEF Counted
<1>5. SeenHot' /\ Resting' /\ Published' /\ Shows' /\ LagTold'
  BY LagKept DEF Alter, sweepVars, laneVars
<1> QED BY <1>2, <1>4, <1>5

\* Its answer gives the lease back.
LEMMA FinishKeeps ==
  ASSUME OffsetInv, NEW w \in Resets, Waiting(w), Finish(w)
  PROVE  OffsetInv'
<1> USE DEF OffsetInv
<1>0. w \in Holders /\ Resets \subseteq Holders BY DEF Holders
<1>1. held[w] # None /\ DropLease(w) BY DEF Finish, Counted
<1>2. OffsetTypes'
  BY <1>0, <1>1, DropCounts DEF OffsetTypes, Finish, DropLease, sweepVars, laneVars
<1>3. \A u \in Resets : held'[u] # None <=> Waiting(u)'
  <2> TAKE u \in Resets
  <2>1. CASE u = w BY <1>0, <1>1, <2>1 DEF OffsetTypes, Finish, DropLease, Waiting
  <2>2. CASE u # w BY <1>0, <1>1, <2>2 DEF OffsetTypes, Counted, Finish, DropLease, Waiting
  <2> QED BY <2>1, <2>2
<1>4. Counted' BY <1>0, <1>1, <1>3, DropCounts DEF Counted
<1>5. SeenHot' /\ Resting' /\ Published' /\ Shows' /\ LagTold'
  BY LagKept DEF Finish, sweepVars, laneVars
<1> QED BY <1>2, <1>4, <1>5

\* In between it keeps the lease.
LEMMA ResetKeeps ==
  ASSUME OffsetInv, NEW w \in Resets,
         Settle(w) \/ SettleTimeout(w) \/ NextReset(w)
  PROVE  OffsetInv'
<1> USE DEF OffsetInv
<1>1. CASE Waiting(w) /\ Finish(w) BY <1>1, FinishKeeps
<1>2. CASE \E now \in {"idle", "asked", "backoff", "test"} :
             /\ reset' = [reset EXCEPT ![w] = now]
             /\ Waiting(w) <=> now # "idle"
             /\ refresh' \in BOOLEAN
             /\ UNCHANGED <<known, kafka, interestVars, sweepVars, laneVars, held, told, watched>>
  <2>1. OffsetTypes' BY <1>2 DEF OffsetTypes, interestVars, sweepVars, laneVars
  <2>2. \A u \in Resets : Waiting(u)' <=> Waiting(u) BY <1>2 DEF OffsetTypes, Waiting
  <2>3. Counted' BY <1>2, <2>2 DEF Counted, LeasesOn, interestVars
  <2>4. SeenHot' /\ Resting' /\ Published' /\ Shows' /\ LagTold'
    BY <1>2, LagKept DEF sweepVars, laneVars
  <2> QED BY <2>1, <2>3, <2>4
<1>3. CASE TestShown(w) BY <1>1, <1>3 DEF TestShown, Waiting
<1>4. CASE Ask(w) BY <1>2, <1>4 DEF Ask, Waiting
<1>5. CASE SeePoll(w) BY <1>1, <1>2, <1>5 DEF OffsetTypes, SeePoll, Waiting
<1>6. CASE BackoffPasses(w) BY <1>2, <1>6 DEF OffsetTypes, BackoffPasses, Waiting
<1>7. CASE SettleTimeout(w) BY <1>1, <1>7 DEF SettleTimeout, Waiting
<1>8. CASE NextReset(w) BY <1>2, <1>8 DEF OffsetTypes, NextReset, Waiting
<1> QED BY <1>3, <1>4, <1>5, <1>6, <1>7, <1>8 DEF Settle

\* Time passes.
LEMMA TickKeeps ==
  ASSUME OffsetInv, Tick
  PROVE  OffsetInv'
<1> USE DEF OffsetInv
<1>1. OffsetTypes'
  <2>1. attempted' \in [Groups -> Ages] /\ touched' \in [Groups -> Ages]
    BY Speeds DEF OffsetTypes, Tick
  <2> QED BY <2>1 DEF OffsetTypes, Tick, sweepVars, laneVars, watchVars
<1>2. Counted' BY CountKept DEF Tick, watchVars
<1>3. SeenHot' /\ Resting' /\ Published' /\ Shows' /\ LagTold' BY LagKept DEF Tick, sweepVars, laneVars
<1> QED BY <1>1, <1>2, <1>3

\* A consumer commits.
LEMMA ConsumeKeeps ==
  ASSUME OffsetInv, NEW g \in Groups, NEW o \in Offsets, Consume(g, o)
  PROVE  OffsetInv'
<1> USE DEF OffsetInv
<1>1. OffsetTypes'
  BY DEF OffsetTypes, Consume, interestVars, sweepVars, laneVars, watchVars
<1>2. Counted' BY CountKept DEF Consume, interestVars, watchVars
<1>3. SeenHot' /\ Resting' /\ Published' /\ Shows' /\ LagTold'
  BY LagKept DEF Consume, sweepVars, laneVars
<1> QED BY <1>1, <1>2, <1>3

\* Groups come and go. One that comes is shown with the lag the table has.
LEMMA TopologyCommitKeeps ==
  ASSUME OffsetInv, NEW groups \in SUBSET Groups, TopologyCommit(groups)
  PROVE  OffsetInv'
<1> USE DEF OffsetInv
<1>0. /\ known' = groups
      /\ UNCHANGED <<kafka, interestVars, sweepVars, laneVars, refresh, watchVars, polled, watched>>
  BY DEF TopologyCommit
<1>1. ASSUME NEW g \in Groups
      PROVE  /\ g \notin groups => told'[g] = None
             /\ g \in groups \ known => told'[g] = table[g]
             /\ g \in groups \cap known => told'[g] = told[g]
  BY DEF TopologyCommit
<1>2. told' \in [Groups -> Offsets \cup {None}]
  <2>1. told' = [g \in Groups |-> told'[g]] BY DEF TopologyCommit
  <2>2. \A g \in Groups : told'[g] \in Offsets \cup {None} BY <1>1 DEF OffsetTypes
  <2> QED BY <2>1, <2>2
<1>3. OffsetTypes'
  BY <1>0, <1>2 DEF OffsetTypes, interestVars, sweepVars, laneVars, watchVars
<1>4. Counted' BY <1>0, CountKept DEF interestVars, watchVars
<1>5. SeenHot' /\ Resting' /\ Published' BY <1>0 DEF SeenHot, Resting, Published, sweepVars, laneVars
<1>6. Shows' BY <1>0, <1>1 DEF OffsetTypes, Shows, laneVars
<1>7. LagTold' BY <1>0, <1>1 DEF OffsetTypes, LagTold, sweepVars, laneVars
<1> QED BY <1>3, <1>4, <1>5, <1>6, <1>7

------------------------------------------------------------------------------
(* The sweep.                                                                *)

\* What was published of a group that left is forgotten.
LEMMA SweepStartKeeps ==
  ASSUME OffsetInv, StartSweep
  PROVE  OffsetInv'
<1> USE DEF OffsetInv
<1>1. due = {} /\ refreshed = {} /\ DOMAIN fetched = {}
  BY DEF Resting, StartSweep
<1>2. OffsetTypes'
  <2>1. attempted' \in [Groups -> Ages] /\ published' \in [Groups -> Offsets \cup {None}]
    BY Speeds DEF OffsetTypes, StartSweep
  <2> QED BY <1>1, <2>1 DEF OffsetTypes, StartSweep, interestVars, watchVars
<1>3. Counted' BY CountKept DEF StartSweep, interestVars, watchVars
<1>4. SeenHot' /\ LagTold' /\ Resting' BY DEF SeenHot, LagTold, Resting, StartSweep
<1>5. Published' BY <1>1 DEF OffsetTypes, Published, StartSweep
<1>6. Shows' BY DEF OffsetTypes, Shows, StartSweep
<1> QED BY <1>2, <1>3, <1>4, <1>5, <1>6

\* hot_groups keeps what has a lease: a group with a holder has a count.
LEMMA ReadHotKeeps ==
  ASSUME OffsetInv, ReadHot
  PROVE  OffsetInv'
<1> USE DEF OffsetInv
<1>1. /\ hot' = {g \in interest : Hot(g)} /\ interest' = hot'
      /\ leases' = [g \in Groups |-> IF g \in hot' THEN leases[g] ELSE 0]
      /\ touched' = [g \in Groups |-> IF g \in hot' THEN touched[g] ELSE None]
      /\ watched' = {held[h] : h \in Holders} \ {None}
      /\ pc = "hot" /\ pc' = "refresh"
      /\ UNCHANGED <<known, kafka, topology, reread, due, fetched, refreshed, laneVars, refresh,
                     watchVars, polled, told>>
  BY DEF ReadHot
<1>2. ASSUME NEW g \in Groups, leases[g] > 0 PROVE g \in hot'
  BY <1>1, <1>2 DEF Counted, Hot
<1>3. ASSUME NEW g \in Groups PROVE leases'[g] = leases[g]
  <2>1. CASE leases[g] = 0 BY <1>1, <2>1
  <2>2. CASE leases[g] # 0
    <3>1. leases[g] > 0 BY <2>2 DEF OffsetTypes
    <3> QED BY <1>1, <1>2, <3>1
  <2> QED BY <2>1, <2>2
<1>4. OffsetTypes'
  <2>1. leases' \in [Groups -> Nat] /\ touched' \in [Groups -> Ages]
    BY <1>1, Speeds DEF OffsetTypes
  <2> QED BY <1>1, <2>1 DEF OffsetTypes, laneVars, watchVars
<1>5. Counted' BY <1>1, <1>2, <1>3 DEF Counted, LeasesOn, Waiting, watchVars
<1>6. SeenHot'
  <2> SUFFICES ASSUME NEW h \in Holders, held[h] # None PROVE held[h] \in hot'
    BY <1>1 DEF SeenHot
  <2>1. PICK g \in Groups : g = held[h] BY DEF OffsetTypes
  <2>2. h \in LeasesOn(g) BY <2>1 DEF LeasesOn
  <2>3. IsFiniteSet(LeasesOn(g)) /\ leases[g] = Cardinality(LeasesOn(g)) /\ leases[g] \in Nat
    BY DEF OffsetTypes, Counted
  <2>4. leases[g] # 0 BY <2>2, <2>3, FS_EmptySet
  <2> QED BY <1>2, <2>1, <2>3, <2>4
<1>7. Published' /\ Shows' /\ LagTold' /\ Resting'
  BY <1>1 DEF Published, Shows, LagTold, Resting, laneVars
<1> QED BY <1>4, <1>5, <1>6, <1>7

\* The refresh a reset asked for is taken after hot was read.
LEMMA TakeRefreshKeeps ==
  ASSUME OffsetInv, TakeRefresh
  PROVE  OffsetInv'
<1> USE DEF OffsetInv
<1>1. OffsetTypes' BY DEF OffsetTypes, TakeRefresh, interestVars, laneVars, watchVars
<1>2. Counted' BY CountKept DEF TakeRefresh, interestVars, watchVars
<1>3. SeenHot' /\ Published' /\ Shows' /\ LagTold' /\ Resting'
  BY DEF SeenHot, Published, Shows, LagTold, Resting, TakeRefresh, laneVars
<1> QED BY <1>1, <1>2, <1>3

\* The groups that are due are marked before they are read.
LEMMA FindDueKeeps ==
  ASSUME OffsetInv, FindDue
  PROVE  OffsetInv'
<1> USE DEF OffsetInv
<1>1. OffsetTypes'
  <2>1. due' \in SUBSET topology BY DEF FindDue, DueGroups
  <2>2. attempted' \in [Groups -> Ages] BY Speeds DEF OffsetTypes, FindDue
  <2>3. pc' \in {"record", "fetch"} BY DEF FindDue
  <2> QED BY <2>1, <2>2, <2>3 DEF OffsetTypes, FindDue, interestVars, watchVars
<1>2. Counted' BY CountKept DEF FindDue, interestVars, watchVars
<1>3. refreshed' = {} /\ pc = "due" /\ pc' \in {"record", "fetch"}
      /\ UNCHANGED <<known, topology, table, published, told>>
  BY DEF FindDue
<1>4. SeenHot' /\ Published' /\ Shows' /\ LagTold' /\ Resting'
  BY <1>3 DEF SeenHot, Published, Shows, LagTold, Resting
<1> QED BY <1>1, <1>2, <1>4

\* Kafka answers for a group, or fails to.
LEMMA AnswerKeeps ==
  ASSUME OffsetInv, NEW g, NEW value \in Offsets \cup {None}, Answer(g, value)
  PROVE  OffsetInv'
<1> USE DEF OffsetInv
<1>1. /\ DOMAIN fetched' = DOMAIN fetched \cup {g} /\ g \in due
      /\ \A i \in DOMAIN fetched' : fetched'[i] = IF i = g THEN value ELSE fetched[i]
  BY DEF Answer
<1>2. OffsetTypes'
  <2>1. \A i \in DOMAIN fetched' : fetched'[i] \in Offsets \cup {None} BY <1>1 DEF OffsetTypes
  <2>2. DOMAIN fetched' \in SUBSET due BY <1>1 DEF OffsetTypes
  <2> QED BY <2>1, <2>2 DEF OffsetTypes, Answer, interestVars, laneVars, watchVars
<1>3. Counted' BY CountKept DEF Answer, interestVars, watchVars
<1>4. SeenHot' /\ Published' /\ Shows' /\ LagTold'
  BY DEF SeenHot, Published, Shows, LagTold, Answer, laneVars
<1>5. Resting' BY DEF Resting, Answer
<1> QED BY <1>2, <1>3, <1>4, <1>5

\* The table takes the answers, and no group loses its offsets to a failure.
LEMMA CommitTableKeeps ==
  ASSUME OffsetInv, CommitTable
  PROVE  OffsetInv'
<1> USE DEF OffsetInv
<1>1. /\ pc = "fetch" /\ pc' = "publish" /\ DOMAIN fetched = due
      /\ table' = [g \in Groups |-> NextTable(g)]
      /\ refreshed' = {g \in due : fetched[g] # None}
      /\ UNCHANGED <<known, kafka, interestVars, topology, hot, reread, due, fetched, attempted,
                     published, refresh, watchVars, polled, told, watched>>
  BY DEF CommitTable
<1>2. ASSUME NEW g \in Groups
      PROVE  /\ g \in refreshed' => table'[g] = fetched[g] /\ table'[g] # None
             /\ g \in topology \ refreshed' => table'[g] = table[g]
             /\ table'[g] \in Offsets \cup {None}
  <2>1. due \subseteq topology BY DEF OffsetTypes
  <2>2. CASE g \in refreshed'
    <3>1. table'[g] = fetched[g] /\ fetched[g] # None BY <1>1, <2>1, <2>2 DEF NextTable
    <3> QED BY <1>1, <2>2, <3>1 DEF OffsetTypes
  <2>3. CASE g \in topology \ refreshed'
    <3>1. table'[g] = table[g] BY <1>1, <2>1, <2>3 DEF NextTable
    <3> QED BY <2>3, <3>1 DEF OffsetTypes
  <2>4. CASE g \notin topology /\ g \notin refreshed'
    <3>1. table'[g] = None BY <1>1, <2>4 DEF NextTable
    <3> QED BY <2>4, <3>1
  <2> QED BY <2>2, <2>3, <2>4
<1>3. OffsetTypes'
  <2>1. table' \in [Groups -> Offsets \cup {None}] BY <1>1, <1>2
  <2>2. refreshed' \in SUBSET due BY <1>1
  <2> QED BY <1>1, <2>1, <2>2 DEF OffsetTypes, interestVars, watchVars
<1>4. Counted' BY <1>1, CountKept DEF interestVars, watchVars
<1>5. SeenHot' /\ LagTold' /\ Resting' BY <1>1 DEF SeenHot, LagTold, Resting
<1>6. refreshed' \subseteq Groups BY <1>3 DEF OffsetTypes
<1>7. Published' BY <1>1, <1>2, <1>6 DEF Published
<1>8. Shows'
  <2> SUFFICES ASSUME NEW g \in known, published[g] # None, published[g] = table'[g]
               PROVE  told[g] = table'[g]
    BY <1>1 DEF Shows
  <2>1. g \in Groups BY DEF OffsetTypes
  <2>2. table[g] = published[g] BY <1>1, <2>1 DEF Published
  <2> QED BY <2>2 DEF Shows
<1> QED BY <1>3, <1>4, <1>5, <1>7, <1>8

\* The wave tells what is new: what is left out is on the pages already.
LEMMA PublishWaveKeeps ==
  ASSUME OffsetInv, PublishWave
  PROVE  OffsetInv'
<1> USE DEF OffsetInv
<1> DEFINE news == {g \in refreshed : published[g] # table[g]}
<1>1. /\ pc = "publish" /\ pc' = "record"
      /\ published' = [g \in Groups |-> IF g \in news THEN table[g] ELSE published[g]]
      /\ told' = [g \in Groups |-> IF g \in news \cap known THEN table[g] ELSE told[g]]
      /\ UNCHANGED <<known, kafka, interestVars, topology, hot, reread, due, fetched, refreshed,
                     attempted, table, committed, refresh, watchVars, polled, watched>>
  BY DEF PublishWave
<1>2. refreshed \subseteq topology /\ topology \subseteq Groups BY DEF OffsetTypes
<1>3. OffsetTypes'
  <2>1. /\ published' \in [Groups -> Offsets \cup {None}]
        /\ told' \in [Groups -> Offsets \cup {None}]
    BY <1>1 DEF OffsetTypes
  <2> QED BY <1>1, <2>1 DEF OffsetTypes, interestVars, watchVars
<1>4. Counted' BY <1>1, CountKept DEF interestVars, watchVars
<1>5. SeenHot' /\ Resting' BY <1>1 DEF SeenHot, Resting
<1>6. Published' BY <1>1, <1>2 DEF Published
<1>7. ASSUME NEW g \in Groups
      PROVE  /\ g \in news \cap known => told'[g] = table[g]
             /\ g \notin news => told'[g] = told[g] /\ published'[g] = published[g]
  BY <1>1
<1>8. Shows' BY <1>1, <1>7 DEF OffsetTypes, Shows
<1>9. LagTold'
  <2> SUFFICES ASSUME NEW g \in refreshed \cap known PROVE told'[g] = table[g]
    BY <1>1 DEF LagTold
  <2>1. g \in Groups /\ table[g] # None BY <1>1, <1>2 DEF Published
  <2>2. CASE g \in news BY <1>7, <2>1, <2>2
  <2>3. CASE g \notin news
    <3>1. published[g] = table[g] BY <2>3
    <3> QED BY <1>7, <2>1, <2>3, <3>1 DEF Shows
  <2> QED BY <2>2, <2>3
<1> QED BY <1>3, <1>4, <1>5, <1>6, <1>8, <1>9

\* The sweep is over.
LEMMA RecordPollKeeps ==
  ASSUME OffsetInv, RecordPoll
  PROVE  OffsetInv'
<1> USE DEF OffsetInv
<1>1. OffsetTypes'
  <2>1. DOMAIN fetched' = {} /\ due' = {} /\ refreshed' = {} /\ topology' = {} /\ reread' = FALSE
    BY DEF RecordPoll
  <2> QED BY <2>1 DEF OffsetTypes, RecordPoll, interestVars, laneVars, watchVars
<1>2. Counted' BY CountKept DEF RecordPoll, interestVars, watchVars
<1>3. SeenHot' /\ Published' /\ Shows' /\ LagTold' /\ Resting'
  BY DEF OffsetTypes, SeenHot, Published, Shows, LagTold, Resting, RecordPoll, laneVars
<1> QED BY <1>1, <1>2, <1>3

\* The next one starts.
LEMMA WakeKeeps ==
  ASSUME OffsetInv, Wake
  PROVE  OffsetInv'
<1> USE DEF OffsetInv
<1>1. OffsetTypes' BY DEF OffsetTypes, Wake, interestVars, laneVars, watchVars
<1>2. Counted' BY CountKept DEF Wake, interestVars, watchVars
<1>3. SeenHot' /\ Published' /\ Shows' /\ LagTold' /\ Resting'
  BY DEF SeenHot, Published, Shows, LagTold, Resting, Wake, laneVars
<1> QED BY <1>1, <1>2, <1>3

------------------------------------------------------------------------------
(* The theorems.                                                             *)

\* The first state and every step keep the invariant.
LEMMA OffsetStep == (Init => OffsetInv) /\ (OffsetInv /\ [Next]_vars => OffsetInv')
<1>1. ASSUME Init PROVE OffsetInv
  <2> USE <1>1
  <2>1. OffsetTypes
    <3>1. known \in SUBSET Groups BY DEF Init
    <3>2. DOMAIN fetched = {} BY DEF Init
    <3>3. /\ leases \in [Groups -> Nat] /\ touched \in [Groups -> Ages]
          /\ attempted \in [Groups -> Ages] /\ held \in [Holders -> Groups \cup {None}]
          /\ reset \in [Resets -> {"idle", "test", "asked", "backoff", "done"}]
      BY Speeds DEF Init
    <3>4. /\ table \in [Groups -> Offsets \cup {None}]
          /\ published \in [Groups -> Offsets \cup {None}]
          /\ told \in [Groups -> Offsets \cup {None}]
      BY DEF Init
    <3> QED BY <3>1, <3>2, <3>3, <3>4 DEF Init, OffsetTypes
  <2>2. \A g \in Groups : LeasesOn(g) = {}
    BY OffsetAssumption DEF Init, LeasesOn
  <2>3. Resets \subseteq Holders BY DEF Holders
  <2>4. Counted
    <3>1. IsFiniteSet({}) /\ Cardinality({}) = 0 BY FS_EmptySet
    <3>2. \A g \in Groups : leases[g] = 0 BY DEF Init
    <3>3. \A w \in Resets : held[w] = None /\ ~Waiting(w) BY <2>3 DEF Init, Waiting
    <3> QED BY <2>2, <3>1, <3>2, <3>3 DEF Counted
  <2>5. SeenHot /\ Published /\ Shows /\ LagTold /\ Resting
    BY DEF Init, SeenHot, Published, Shows, LagTold, Resting
  <2> QED BY <2>1, <2>4, <2>5 DEF OffsetInv
<1>2. ASSUME OffsetInv, [Next]_vars PROVE OffsetInv'
  <2> USE <1>2
  <2>1. CASE Sweep
    <3>1. ASSUME NEW g \in due, ReadGroup(g) PROVE OffsetInv'
      <4>1. kafka[g] \in Offsets \cup {None} BY DEF OffsetInv, OffsetTypes
      <4> QED BY <3>1, <4>1, AnswerKeeps DEF ReadGroup
    <3> QED BY <2>1, <3>1, SweepStartKeeps, ReadHotKeeps, TakeRefreshKeeps, FindDueKeeps,
               CommitTableKeeps, PublishWaveKeeps, RecordPollKeeps, WakeKeeps DEF Sweep
  <2>2. ASSUME NEW g \in due, FailGroup(g) PROVE OffsetInv'
    BY <2>2, AnswerKeeps DEF FailGroup
  <2>3. ASSUME NEW g \in Groups, Touch(g) \/ \E o \in Offsets : Consume(g, o) PROVE OffsetInv'
    BY <2>3, TouchKeeps, ConsumeKeeps
  <2>4. ASSUME NEW s \in Streams, CloseStream(s) \/ \E g \in Groups : OpenStream(s, g)
        PROVE  OffsetInv'
    BY <2>4, CloseStreamKeeps, OpenStreamKeeps
  <2>5. ASSUME NEW w \in Resets,
               \/ Settle(w) \/ SettleTimeout(w) \/ NextReset(w)
               \/ \E g \in Groups, o \in Offsets : Alter(w, g, o)
        PROVE  OffsetInv'
    BY <2>5, ResetKeeps, AlterKeeps
  <2>6. ASSUME NEW groups \in SUBSET Groups, TopologyCommit(groups) PROVE OffsetInv'
    BY <2>6, TopologyCommitKeeps
  <2>7. CASE UNCHANGED vars
    <3>1. OffsetTypes'
      BY <2>7 DEF OffsetInv, OffsetTypes, vars, interestVars, sweepVars, laneVars, watchVars
    <3>2. Counted' BY <2>7, CountKept DEF vars, interestVars, watchVars
    <3>3. SeenHot' /\ Published' /\ Shows' /\ LagTold' /\ Resting'
      BY <2>7, LagKept DEF OffsetInv, Resting, vars, sweepVars, laneVars
    <3> QED BY <3>1, <3>2, <3>3 DEF OffsetInv
  <2> QED BY <2>1, <2>2, <2>3, <2>4, <2>5, <2>6, <2>7, TickKeeps DEF Next
<1> QED BY <1>1, <1>2

\* The lane and the interest registry keep their invariant whatever opens, closes,
\* fails, comes or goes in between.
THEOREM OffsetsAreSound == Spec => []OffsetInv
BY OffsetStep, PTL DEF Spec

\* Every lease on a group is in its count: InterestRegistry never forgets a group
\* that somebody still holds (InterestLease::drop and hot_groups).
THEOREM HeldIsOfInterest ==
  Spec => [](\A h \in Holders : held[h] # None => held[h] \in interest /\ Hot(held[h]))
<1>1. ASSUME OffsetInv, NEW h \in Holders, held[h] # None
      PROVE  held[h] \in interest /\ Hot(held[h])
  <2> USE DEF OffsetInv
  <2>1. PICK g \in Groups : g = held[h] BY <1>1 DEF OffsetTypes
  <2>2. h \in LeasesOn(g) BY <2>1 DEF LeasesOn
  <2>3. IsFiniteSet(LeasesOn(g)) /\ leases[g] = Cardinality(LeasesOn(g)) /\ leases[g] \in Nat
    BY <1>1 DEF OffsetTypes, Counted
  <2>4. leases[g] # 0 BY <2>2, <2>3, FS_EmptySet
  <2>5. g \in interest BY <1>1, <2>3, <2>4 DEF Counted
  <2> QED BY <2>1, <2>3, <2>4, <2>5 DEF Hot
<1> DEFINE Watched == \A h \in Holders : held[h] # None => held[h] \in interest /\ Hot(held[h])
<1>2. OffsetInv => Watched BY <1>1
<1> HIDE DEF Watched
<1>3. Spec => []Watched BY <1>2, OffsetsAreSound, PTL
<1> QED BY <1>3 DEF Watched

\* The open pages show the lag of every group the last sweep read (lag_updates).
THEOREM LagsAreTold == Spec => []LagTold
<1>1. OffsetInv => LagTold BY DEF OffsetInv
<1> QED BY <1>1, OffsetsAreSound, PTL

\* A group that somebody held when the sweep looked is read by it as soon as
\* fast_offset allows, and at once after a refresh (due_groups).
THEOREM WatchedGroupsAreRead == Spec => WatchedIsRead
<1>1. ASSUME OffsetInv, [Next]_vars
      PROVE  [pc = "due" =>
                \A g \in watched \cap topology :
                  \/ g \in due'
                  \/ ~reread /\ attempted[g] # None /\ attempted[g] < Fast]_pc
  <2> USE <1>1
  <2> SUFFICES ASSUME pc' # pc, pc = "due", NEW g \in watched \cap topology, g \notin due'
               PROVE  ~reread /\ attempted[g] # None /\ attempted[g] < Fast
    OBVIOUS
  <2>1. FindDue
    BY DEF Next, Sweep, Settle, StartSweep, ReadHot, TakeRefresh, ReadGroup, FailGroup, Answer,
           CommitTable, PublishWave, RecordPoll, Wake, Tick, Touch, Consume, CloseStream,
           OpenStream, TestShown, Ask, SeePoll, Finish, BackoffPasses, SettleTimeout, NextReset,
           Alter, TopologyCommit, vars, sweepVars
  <2>2. g \in hot /\ g \in Groups BY DEF OffsetInv, OffsetTypes, SeenHot
  <2>3. attempted[g] # None /\ ~(attempted[g] >= Threshold(g))
    BY <2>1 DEF FindDue, DueGroups
  <2>4. attempted[g] \in Nat
    <3>1. attempted[g] \in Ages BY <2>2 DEF OffsetInv, OffsetTypes
    <3> QED BY <2>3, <3>1, Speeds DEF Ages
  <2>5. Threshold(g) = IF reread THEN 0 ELSE Fast BY <2>2 DEF Threshold
  <2>6. CASE reread BY <2>3, <2>4, <2>5, <2>6
  <2>7. CASE ~reread BY <2>3, <2>4, <2>5, <2>7, Speeds
  <2> QED BY <2>6, <2>7
<1> QED BY <1>1, OffsetsAreSound, PTL DEF Spec, WatchedIsRead
=============================================================================

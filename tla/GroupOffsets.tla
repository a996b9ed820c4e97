---------------------------- MODULE GroupOffsets ----------------------------
(***************************************************************************)
(* The offsets lane and the interest that drives it                        *)
(* (kafka/ingest/offsets.rs, kafka/store/interest.rs, and the reset of     *)
(* app/context/groups.rs that waits for it).                               *)
(*                                                                         *)
(* The lane reads the committed offsets of each group at one of two        *)
(* speeds. A group somebody watches is hot: by a lease, which a stream or  *)
(* a reset holds, or by a touch of its page, which lasts interest_ttl.     *)
(* Leases and touches come and go while a sweep runs. The lane is built on *)
(* Lane.tla; the follower, the kick and the commit are single steps here.  *)
(*                                                                         *)
(* A group's committed offsets are one number, and so is its lag, which a  *)
(* wave announces when it changed. Time is counted in ticks, and an        *)
(* instant is kept as its age.                                             *)
(***************************************************************************)
EXTENDS Integers, FiniteSets

CONSTANTS
    Groups,
    Streams,        \* Update streams scoped to a group
    Resets,         \* Requests that reset a group's offsets
    Offsets,        \* Committed offsets of a group
    Fast, Slow,     \* fast_offset and slow_offset, in ticks
    Ttl,            \* interest_ttl, in ticks
    CanFail,        \* Kafka may fail to answer for a group
    Churn,          \* Groups come and go
    None

Holders == Streams \cup Resets
Old == Slow + Ttl       \* Ages stop here: every threshold has passed

ASSUME OffsetAssumption ==
    /\ Fast \in Nat /\ Slow \in Nat /\ Fast <= Slow /\ Ttl \in Nat \ {0}
    /\ Streams \cap Resets = {} /\ None \notin Groups /\ None \notin Offsets
    /\ CanFail \in BOOLEAN /\ Churn \in BOOLEAN

VARIABLES
    known,          \* Groups of the topology table
    kafka,          \* Committed offsets at the broker
    \* InterestRegistry
    interest,       \* Groups with an InterestState
    leases,         \* InterestState::leases
    touched,        \* Age of InterestState::touched_at
    \* OffsetLane and the lane's table
    pc,             \* Where the sweep is
    topology,       \* The groups of the sweep's topology
    hot,            \* The sweep's hot groups
    reread,         \* The sweep took a refresh
    due,            \* The groups the sweep reads
    fetched,        \* Answers so far; None: the read failed
    refreshed,      \* Groups with an answer
    attempted,      \* Age of attempted_at, None without
    table,          \* OffsetTable: offsets by group, None without
    committed,      \* The lane has a table
    published,      \* The fingerprint of the last update of a group
    refresh,        \* Lane::refresh
    \* Whoever watches
    held,           \* The group a holder has a lease on
    reset,          \* Where a reset is
    target,         \* What a reset wrote
    polled,         \* The reset's polls receiver has changed
    told,           \* The lag that open pages show, None if blank
    watched         \* History: groups with a lease when hot was read

interestVars == <<interest, leases, touched>>
sweepVars == <<pc, topology, hot, reread, due, fetched, refreshed>>
laneVars == <<attempted, table, committed, published>>
watchVars == <<held, reset, target>>
vars == <<known, kafka, interestVars, sweepVars, laneVars, refresh, watchVars,
          polled, told, watched>>

TypeOK ==
    /\ known \subseteq Groups /\ kafka \in [Groups -> Offsets]
    /\ interest \subseteq Groups
    /\ leases \in [Groups -> 0 .. Cardinality(Holders)]
    /\ touched \in [Groups -> 0 .. Old \cup {None}]
    /\ pc \in {"start", "hot", "refresh", "due", "fetch", "publish", "record", "wait"}
    /\ due \subseteq topology /\ refreshed \subseteq due
    /\ DOMAIN fetched \subseteq due
    /\ attempted \in [Groups -> 0 .. Old \cup {None}]
    /\ table \in [Groups -> Offsets \cup {None}]
    /\ \A g \in Groups \ interest : leases[g] = 0 /\ touched[g] = None
    /\ held \in [Holders -> Groups \cup {None}]
    /\ reset \in [Resets -> {"idle", "test", "asked", "backoff", "done"}]

Init ==
    /\ known \in IF Churn THEN SUBSET Groups ELSE {Groups}
    /\ kafka \in [Groups -> Offsets]
    /\ interest = {} /\ leases = [g \in Groups |-> 0]
    /\ touched = [g \in Groups |-> None]
    /\ pc = "start" /\ topology = {} /\ hot = {} /\ reread = FALSE /\ due = {}
    /\ fetched = <<>> /\ refreshed = {}
    /\ attempted = [g \in Groups |-> None] /\ table = [g \in Groups |-> None]
    /\ committed = FALSE /\ published = [g \in Groups |-> None]
    /\ refresh = FALSE
    /\ held = [h \in Holders |-> None] /\ reset = [w \in Resets |-> "idle"]
    /\ target = [w \in Resets |-> None] /\ polled = [w \in Resets |-> FALSE]
    /\ told = [g \in Groups |-> None] /\ watched = {}

------------------------------------------------------------------------------
(* InterestRegistry. Each operation is one step under its mutex.             *)

\* InterestState::hot
Hot(g) == leases[g] > 0 \/ (touched[g] # None /\ touched[g] < Ttl)

Lease(h, g) ==
    /\ held' = [held EXCEPT ![h] = g]
    /\ interest' = interest \cup {g}
    /\ leases' = [leases EXCEPT ![g] = @ + 1]
    /\ UNCHANGED touched

\* Mutant: the last stream to close takes the group's interest with it.
DropLeaseForgets(h) ==
    LET g == held[h]
    IN  /\ held' = [held EXCEPT ![h] = None]
        /\ interest' = interest \ {g}
        /\ leases' = [leases EXCEPT ![g] = 0]
        /\ touched' = [touched EXCEPT ![g] = None]

\* InterestLease::drop: a group nobody holds and nobody touched is forgotten.
DropLease(h) ==
    LET g == held[h]
        left == IF leases[g] = 0 THEN 0 ELSE leases[g] - 1
        idle == left = 0 /\ touched[g] = None
    IN  /\ held' = [held EXCEPT ![h] = None]
        /\ IF g \notin interest THEN UNCHANGED <<interest, leases>>
           ELSE /\ interest' = IF idle THEN interest \ {g} ELSE interest
                /\ leases' = [leases EXCEPT ![g] = left]
        /\ UNCHANGED touched

\* touch_group, by group_detail of a group that is known.
Touch(g) ==
    /\ g \in known
    /\ interest' = interest \cup {g}
    /\ touched' = [touched EXCEPT ![g] = 0]
    /\ UNCHANGED <<known, kafka, leases, sweepVars, laneVars, refresh, watchVars,
                   polled, told, watched>>

OpenStream(s, g) ==
    /\ held[s] = None
    /\ Lease(s, g)
    /\ UNCHANGED <<known, kafka, sweepVars, laneVars, refresh, reset, target, polled,
                   told, watched>>

CloseStream(s) ==
    /\ held[s] # None
    /\ DropLease(s)
    /\ UNCHANGED <<known, kafka, sweepVars, laneVars, refresh, reset, target, polled,
                   told, watched>>

------------------------------------------------------------------------------
(* A sweep of the lane.                                                      *)

\* Mutant: what was published of a group that left is remembered.
StartSweepKeeps ==
    /\ pc = "start"
    /\ pc' = "hot" /\ topology' = known
    /\ attempted' = [g \in Groups |-> IF g \in known THEN attempted[g] ELSE None]
    /\ UNCHANGED <<known, kafka, interestVars, hot, reread, due, fetched, refreshed,
                   table, committed, published, refresh, watchVars, polled, told,
                   watched>>

\* The sweep takes the topology there is, and forgets the groups that left.
StartSweep ==
    /\ pc = "start"
    /\ pc' = "hot" /\ topology' = known
    /\ attempted' = [g \in Groups |-> IF g \in known THEN attempted[g] ELSE None]
    /\ published' = [g \in Groups |-> IF g \in known THEN published[g] ELSE None]
    /\ UNCHANGED <<known, kafka, interestVars, hot, reread, due, fetched, refreshed,
                   table, committed, refresh, watchVars, polled, told, watched>>

\* hot_groups: what is no longer hot is forgotten.
ReadHot ==
    /\ pc = "hot"
    /\ pc' = "refresh"
    /\ hot' = {g \in interest : Hot(g)}
    /\ interest' = hot'
    /\ leases' = [g \in Groups |-> IF g \in hot' THEN leases[g] ELSE 0]
    /\ touched' = [g \in Groups |-> IF g \in hot' THEN touched[g] ELSE None]
    /\ watched' = {held[h] : h \in Holders} \ {None}
    /\ UNCHANGED <<known, kafka, topology, reread, due, fetched, refreshed, laneVars,
                   refresh, watchVars, polled, told>>

TakeRefresh ==
    /\ pc = "refresh"
    /\ pc' = "due"
    /\ reread' = refresh /\ refresh' = FALSE
    /\ UNCHANGED <<known, kafka, interestVars, topology, hot, due, fetched, refreshed,
                   laneVars, watchVars, polled, told, watched>>

\* Mutant: a refresh is of no use to the offsets lane.
ThresholdOfTier(g) == IF g \in hot THEN Fast ELSE Slow

Threshold(g) ==
    CASE g \notin hot -> Slow
      [] g \in hot /\ reread -> 0
      [] OTHER -> Fast

\* stale_groups: groups of the table that have left.
Dropped == {g \in Groups : table[g] # None} \ topology

DueGroups == {g \in topology : attempted[g] = None \/ attempted[g] >= Threshold(g)}

\* due_groups and mark_attempted. With nothing to do the sweep ends; the first
\* one commits a table all the same.
FindDue ==
    /\ pc = "due"
    /\ due' = DueGroups
    /\ pc' = IF due' = {} /\ Dropped = {} /\ committed THEN "record" ELSE "fetch"
    /\ attempted' = [g \in Groups |-> IF g \in due' THEN 0 ELSE attempted[g]]
    /\ fetched' = <<>> /\ refreshed' = {}
    /\ UNCHANGED <<known, kafka, interestVars, topology, hot, reread, table, committed,
                   published, refresh, watchVars, polled, told, watched>>

Answer(g, value) ==
    /\ pc = "fetch"
    /\ g \in due \ DOMAIN fetched
    /\ fetched' = [i \in DOMAIN fetched \cup {g} |->
                      IF i = g THEN value ELSE fetched[i]]
    /\ UNCHANGED <<known, kafka, interestVars, pc, topology, hot, reread, due,
                   refreshed, laneVars, refresh, watchVars, polled, told, watched>>

ReadGroup(g) == Answer(g, kafka[g])
FailGroup(g) == CanFail /\ Answer(g, None)

\* A group that was not read, or could not be, keeps the offsets it had.
NextTable(g) ==
    IF g \notin topology THEN None
    ELSE IF g \in DOMAIN fetched /\ fetched[g] # None THEN fetched[g] ELSE table[g]

CommitTable ==
    /\ pc = "fetch" /\ DOMAIN fetched = due
    /\ pc' = "publish"
    /\ table' = [g \in Groups |-> NextTable(g)]
    /\ committed' = TRUE
    /\ refreshed' = {g \in due : fetched[g] # None}
    /\ UNCHANGED <<known, kafka, interestVars, topology, hot, reread, due, fetched,
                   attempted, published, refresh, watchVars, polled, told, watched>>

\* lag_updates and the wave: a lag is announced when it is not the last one.
PublishWave ==
    /\ pc = "publish"
    /\ pc' = "record"
    /\ LET news == {g \in refreshed : published[g] # table[g]}
       IN  /\ published' = [g \in Groups |-> IF g \in news THEN table[g] ELSE published[g]]
           /\ told' = [g \in Groups |-> IF g \in news \cap known THEN table[g] ELSE told[g]]
    /\ UNCHANGED <<known, kafka, interestVars, topology, hot, reread, due, fetched,
                   refreshed, attempted, table, committed, refresh, watchVars, polled,
                   watched>>

\* record_poll, once the sweep has returned.
RecordPoll ==
    /\ pc = "record"
    /\ pc' = "wait"
    /\ topology' = {} /\ hot' = {} /\ reread' = FALSE /\ due' = {}
    /\ fetched' = <<>> /\ refreshed' = {} /\ watched' = {}
    /\ polled' = [w \in Resets |-> polled[w] \/ reset[w] = "asked"]
    /\ UNCHANGED <<known, kafka, interestVars, laneVars, refresh, watchVars, told>>

\* Lane::wait(offset_tick), or the kick of a reset.
Wake ==
    /\ pc = "wait"
    /\ pc' = "start"
    /\ UNCHANGED <<known, kafka, interestVars, topology, hot, reread, due, fetched,
                   refreshed, laneVars, refresh, watchVars, polled, told, watched>>

------------------------------------------------------------------------------
(* reset_offsets: the offsets are written, then watched until they show.     *)

Alter(w, g, o) ==
    /\ reset[w] = "idle" /\ g \in known
    /\ kafka' = [kafka EXCEPT ![g] = o]
    /\ target' = [target EXCEPT ![w] = o]
    /\ reset' = [reset EXCEPT ![w] = "test"]
    /\ Lease(w, g)
    /\ UNCHANGED <<known, sweepVars, laneVars, refresh, polled, told, watched>>

Shown(w) == table[held[w]] = target[w]

Finish(w) ==
    /\ reset' = [reset EXCEPT ![w] = "done"]
    /\ target' = [target EXCEPT ![w] = None]
    /\ DropLease(w)
    /\ UNCHANGED <<known, kafka, sweepVars, laneVars, refresh, polled, told, watched>>

\* Lane::refresh_until with the reset's predicate: a table that shows the
\* offsets ends the wait, as the timeout of settle_on does at any moment.
TestShown(w) ==
    /\ reset[w] = "test" /\ Shown(w)
    /\ Finish(w)

Ask(w) ==
    /\ reset[w] = "test" /\ ~Shown(w)
    /\ reset' = [reset EXCEPT ![w] = "asked"]
    /\ polled' = [polled EXCEPT ![w] = FALSE]
    /\ refresh' = TRUE
    /\ UNCHANGED <<known, kafka, interestVars, sweepVars, laneVars, held, target, told,
                   watched>>

SeePoll(w) ==
    /\ reset[w] = "asked" /\ polled[w]
    /\ IF Shown(w) THEN Finish(w)
       ELSE /\ reset' = [reset EXCEPT ![w] = "backoff"]
            /\ UNCHANGED <<known, kafka, interestVars, sweepVars, laneVars, refresh,
                           held, target, polled, told, watched>>

BackoffPasses(w) ==
    /\ reset[w] = "backoff"
    /\ reset' = [reset EXCEPT ![w] = "test"]
    /\ UNCHANGED <<known, kafka, interestVars, sweepVars, laneVars, refresh, held,
                   target, polled, told, watched>>

SettleTimeout(w) ==
    /\ CanFail
    /\ reset[w] \in {"test", "asked", "backoff"}
    /\ Finish(w)

NextReset(w) ==
    /\ reset[w] = "done"
    /\ reset' = [reset EXCEPT ![w] = "idle"]
    /\ UNCHANGED <<known, kafka, interestVars, sweepVars, laneVars, refresh, held,
                   target, polled, told, watched>>

------------------------------------------------------------------------------
(* Around the lane.                                                          *)

Older(age) == IF age = None \/ age = Old THEN age ELSE age + 1

Tick ==
    /\ attempted' = [g \in Groups |-> Older(attempted[g])]
    /\ touched' = [g \in Groups |-> Older(touched[g])]
    /\ UNCHANGED <<known, kafka, interest, leases, sweepVars, table, committed,
                   published, refresh, watchVars, polled, told, watched>>

\* The topology lane commits. Pages drop the groups that left, and read the ones
\* that came, with the lag there is.
TopologyCommit(groups) ==
    /\ Churn /\ groups # known
    /\ known' = groups
    /\ told' = [g \in Groups |-> CASE g \notin groups -> None
                                   [] g \in groups \ known -> table[g]
                                   [] OTHER -> told[g]]
    /\ UNCHANGED <<kafka, interestVars, sweepVars, laneVars, refresh, watchVars,
                   polled, watched>>

\* A consumer commits.
Consume(g, o) ==
    /\ CanFail /\ kafka[g] # o
    /\ kafka' = [kafka EXCEPT ![g] = o]
    /\ UNCHANGED <<known, interestVars, sweepVars, laneVars, refresh, watchVars, polled,
                   told, watched>>

Sweep ==
    \/ StartSweep \/ ReadHot \/ TakeRefresh \/ FindDue
    \/ \E g \in due : ReadGroup(g)
    \/ CommitTable \/ PublishWave \/ RecordPoll \/ Wake

Settle(w) == TestShown(w) \/ Ask(w) \/ SeePoll(w) \/ BackoffPasses(w)

Next ==
    \/ Sweep \/ Tick
    \/ \E g \in due : FailGroup(g)
    \/ \E g \in Groups : Touch(g) \/ \E o \in Offsets : Consume(g, o)
    \/ \E s \in Streams : CloseStream(s) \/ \E g \in Groups : OpenStream(s, g)
    \/ \E w \in Resets :
           \/ Settle(w) \/ SettleTimeout(w) \/ NextReset(w)
           \/ \E g \in Groups, o \in Offsets : Alter(w, g, o)
    \/ \E groups \in SUBSET Groups : TopologyCommit(groups)

Spec == Init /\ [][Next]_vars

\* The lane's task and the requests keep running. Nothing is said of time: no
\* tier may be what a reset waits for.
FairSpec ==
    /\ Spec
    /\ WF_vars(Sweep)
    /\ \A w \in Resets : WF_vars(Settle(w))

------------------------------------------------------------------------------
(* Properties.                                                               *)

\* A group somebody held a lease on when the sweep looked is read by that sweep
\* once fast_offset has passed, and at once when a reset asked for it.
WatchedIsRead ==
    [][pc = "due" =>
           \A g \in watched \cap topology :
               \/ g \in due'
               \/ ~reread /\ attempted[g] # None /\ attempted[g] < Fast]_pc

\* The pages show the lag of every group the sweep read: no update is left out
\* because it looks like the last one, also of a group that left and came back.
LagTold ==
    pc = "record" => \A g \in refreshed \cap known : told[g] = table[g]

Waiting(w) == reset[w] \in {"test", "asked", "backoff"}
Undone(w) == Waiting(w) /\ (held[w] \notin known \/ kafka[held[w]] # target[w])

\* The answer to a reset shows the offsets it wrote without waiting for a tier or
\* for SETTLE, unless the group keeps leaving, its consumers write over the reset
\* or its reads keep failing: the lease makes the group hot before the reset asks
\* for the poll that reads it.
ResetShown ==
    \A w \in Resets :
        \/ []<>~Waiting(w)
        \/ []<>Undone(w)
        \/ []<>(\E g \in DOMAIN fetched : fetched[g] = None)
=============================================================================

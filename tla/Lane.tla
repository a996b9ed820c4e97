-------------------------------- MODULE Lane --------------------------------
(***************************************************************************)
(* One lane of the cluster store (kafka/store/lane.rs) with everybody who  *)
(* touches it at the same time:                                            *)
(*                                                                         *)
(*  - its runner (kafka/ingest/runner.rs): polls the cluster, commits the  *)
(*    table it read, announces it, waits for its interval or for a kick;   *)
(*  - the writers (app/context.rs and app/context/*.rs): HTTP and MCP      *)
(*    handlers that change the cluster and then settle, that is, ask the   *)
(*    runner for polls until the lane shows their change;                  *)
(*  - the followers: runners of the lanes that read this lane's table      *)
(*    (configs and log_dirs follow topology, schema_ids follows subjects). *)
(*                                                                         *)
(* Every atomic access the code makes to the shared Lane is a step of its  *)
(* own. A table is the set of the items it holds. The tokio watch channels *)
(* are kept per receiver as "has a value it did not see", which is all     *)
(* that changed() and mark_unchanged() can tell; the version counter only  *)
(* as "is it above zero", which is all that ready() can tell; the time     *)
(* stamps only as "is there one".                                          *)
(***************************************************************************)
EXTENDS Naturals

CONSTANTS
    Items,          \* What a table holds: topics, ACLs, quotas, subjects...
    Writers,        \* Handlers that change the cluster and settle on the lane
    Followers,      \* Runners of the lanes that follow this one
    Caches,         \* The source serves part of its table from a cache
    None            \* ArcSwapOption holding no table

VARIABLES
    cluster,        \* What the Kafka cluster holds
    served,         \* What a read of the cluster returns, behind it at times
    table,          \* Lane::table
    ready,          \* Lane::version above zero
    updated,        \* LaneHealth::updated_at is some
    lastError,      \* LaneHealth::last_error is some
    permit,         \* Lane::kick holds a permit
    refresh,        \* Lane::refresh
    published,      \* What the change bus was told the lane holds
    rpc,            \* Where the runner is
    previous,       \* The table the runner loaded when its poll began
    full,           \* Its poll reads past the cache
    fetched,        \* What its poll read
    wpc,            \* Where each writer is
    change,         \* The change each writer made
    unseenPoll,     \* Its polls receiver has a value it did not see
    outcome,        \* How its settle ended
    claim,          \* History: what the change can still claim, see Claims
    fpc,            \* Where each follower is
    got,            \* The table of this lane it polls against
    unseenCommit    \* Its commits receiver has a value it did not see

clusterVars == <<cluster, served>>
laneVars == <<table, ready, updated, lastError, permit, refresh>>
runnerVars == <<rpc, previous, full, fetched>>
writerVars == <<wpc, change, outcome, claim>>
followerVars == <<fpc, got>>
vars == <<clusterVars, laneVars, published, runnerVars, writerVars, unseenPoll,
          followerVars, unseenCommit>>

Tables == SUBSET Items
Changes == [item : Items, present : BOOLEAN]

ASSUME LaneAssumption ==
    /\ Caches \in BOOLEAN
    /\ \A t \in Tables : t # None

\* The steps of `poll` and of `run` around it, in the order they happen.
RunnerSteps == {"start", "fetch", "failed", "store", "bump", "stamp",
                "announce", "publish", "record", "notify", "wait"}
\* A poll is under way and its record_poll has not told the watchers yet.
Polling == RunnerSteps \ {"wait"}

\* The steps of `refresh_until`, and of the handler around it.
Settling == {"test", "mark", "flag", "kick", "await", "judge",
             "look", "sleep"}
WriterSteps == Settling \cup {"idle", "answered"}
FollowerSteps == {"seek", "load", "parked", "poll", "wait", "remark", "judge"}

\* History of a change: somebody changed the item again; or nobody did, and a
\* table looked as changed before the change was made, or none did.
Claims == {"overtaken", "masked", "genuine"}

TypeOK ==
    /\ cluster \in Tables /\ served \in Tables
    /\ table \in {None} \cup Tables
    /\ ready \in BOOLEAN /\ updated \in BOOLEAN /\ lastError \in BOOLEAN
    /\ permit \in BOOLEAN /\ refresh \in BOOLEAN
    /\ published \in Tables
    /\ rpc \in RunnerSteps
    /\ previous \in {None} \cup Tables /\ full \in BOOLEAN /\ fetched \in Tables
    /\ wpc \in [Writers -> WriterSteps]
    /\ change \in [Writers -> {None} \cup Changes]
    /\ unseenPoll \in [Writers -> BOOLEAN]
    /\ outcome \in [Writers -> {"none", "shown", "failed", "late"}]
    /\ claim \in [Writers -> Claims]
    /\ fpc \in [Followers -> FollowerSteps]
    /\ got \in [Followers -> {None} \cup Tables]
    /\ unseenCommit \in [Followers -> BOOLEAN]

Init ==
    /\ cluster \in Tables /\ served = cluster
    /\ table = None /\ ready = FALSE /\ updated = FALSE /\ lastError = FALSE
    /\ permit = FALSE /\ refresh = FALSE
    /\ published = {}
    /\ rpc = "start" /\ previous = None /\ full = FALSE /\ fetched = {}
    /\ wpc = [w \in Writers |-> "idle"]
    /\ change = [w \in Writers |-> None]
    /\ unseenPoll = [w \in Writers |-> FALSE]
    /\ outcome = [w \in Writers |-> "none"]
    /\ claim = [w \in Writers |-> "overtaken"]
    /\ fpc = [f \in Followers |-> "seek"]
    /\ got = [f \in Followers |-> None]
    /\ unseenCommit = [f \in Followers |-> FALSE]

Contents(t) == IF t = None THEN {} ELSE t

Apply(c, t) == IF c.present THEN t \cup {c.item} ELSE t \ {c.item}

\* `done` of a settle: the created item is there, the deleted one is gone.
Done(c, t) == (c.item \in t) = c.present

\* `shows` of refresh_until: a table is loaded and `done` holds of it.
Shows(w) == table # None /\ Done(change[w], table)

\* The table, or the one about to be stored, looks as if c had been made: it is
\* from before the item changed the other way, unknown to klens.
LooksDone(c) ==
    \/ table # None /\ Done(c, table)
    \/ rpc = "store" /\ Done(c, fetched)

------------------------------------------------------------------------------
(* The Kafka cluster, which klens neither owns nor locks.                    *)

\* Whoever changes an item of the cluster ends the reign of the writers that
\* changed it before.
Overtaken(item) == [w \in Writers |->
    IF claim[w] # "overtaken" /\ change[w].item = item THEN "overtaken"
    ELSE claim[w]]

\* Another Kafka client changes the cluster.
ExternalWrite(c) ==
    /\ Apply(c, cluster) # cluster
    /\ cluster' = Apply(c, cluster)
    /\ claim' = Overtaken(c.item)
    /\ UNCHANGED <<served, laneVars, published, runnerVars, wpc, change, outcome,
                   unseenPoll, followerVars, unseenCommit>>

\* The change reaches the brokers that answer klens. Metadata spreads after the
\* controller answered, which is why settle polls more than once.
Propagate ==
    /\ served # cluster
    /\ served' = cluster
    /\ UNCHANGED <<cluster, laneVars, published, runnerVars, writerVars,
                   unseenPoll, followerVars, unseenCommit>>

------------------------------------------------------------------------------
(* The runner: `run` and `poll`.                                             *)

RunnerKeeps == <<clusterVars, writerVars, followerVars>>

\* Mutant: the refresh flag is taken and not looked at.
PollStartForgets ==
    /\ rpc = "start"
    /\ previous' = table
    /\ full' = (~Caches \/ table = None)
    /\ refresh' = (refresh /\ ~Caches)
    /\ rpc' = "fetch"
    /\ UNCHANGED <<RunnerKeeps, table, ready, updated, lastError, permit,
                   published, fetched, unseenPoll, unseenCommit>>

\* poll loads the previous table. A source with a cache takes the refresh flag
\* here, at the start of its fetch.
PollStart ==
    /\ rpc = "start"
    /\ previous' = table
    /\ full' = (refresh \/ ~Caches \/ table = None)
    /\ refresh' = (refresh /\ ~Caches)
    /\ rpc' = "fetch"
    /\ UNCHANGED <<RunnerKeeps, table, ready, updated, lastError, permit,
                   published, fetched, unseenPoll, unseenCommit>>

\* Mutant: the delta is published before its table is committed.
AfterFetchPublishes(next) ==
    /\ fetched' = next
    /\ rpc' = IF next # previous THEN "store" ELSE "record"
    /\ published' = next
    /\ UNCHANGED <<RunnerKeeps, laneVars, previous, full, unseenPoll,
                   unseenCommit>>

AfterFetch(next) ==
    /\ fetched' = next
    /\ rpc' = IF next # previous THEN "store" ELSE "record"
    /\ UNCHANGED <<RunnerKeeps, laneVars, published, previous, full, unseenPoll,
                   unseenCommit>>

\* The fetch reads the cluster. A first table commits even when it is empty:
\* no table at all differs from every table.
FetchRead ==
    /\ rpc = "fetch"
    /\ AfterFetch(served)

\* The cache answers for some items with what the previous poll read of them.
FetchCached ==
    /\ rpc = "fetch"
    /\ ~full
    /\ \E cached \in SUBSET Items :
           AfterFetch((previous \cap cached) \cup (served \ cached))

FetchError ==
    /\ rpc = "fetch"
    /\ rpc' = "failed"
    /\ UNCHANGED <<RunnerKeeps, laneVars, published, previous, full, fetched,
                   unseenPoll, unseenCommit>>

\* Lane::commit, one shared access after the other.
CommitStore ==
    /\ rpc = "store"
    /\ table' = fetched
    /\ rpc' = "bump"
    /\ UNCHANGED <<RunnerKeeps, ready, updated, lastError, permit, refresh,
                   published, previous, full, fetched, unseenPoll, unseenCommit>>

CommitBump ==
    /\ rpc = "bump"
    /\ ready' = TRUE
    /\ rpc' = "stamp"
    /\ UNCHANGED <<RunnerKeeps, table, updated, lastError, permit, refresh,
                   published, previous, full, fetched, unseenPoll, unseenCommit>>

CommitStamp ==
    /\ rpc = "stamp"
    /\ updated' = TRUE
    /\ rpc' = "announce"
    /\ UNCHANGED <<RunnerKeeps, table, ready, lastError, permit, refresh,
                   published, previous, full, fetched, unseenPoll, unseenCommit>>

CommitAnnounce ==
    /\ rpc = "announce"
    /\ unseenCommit' = [f \in Followers |-> TRUE]
    /\ rpc' = "publish"
    /\ UNCHANGED <<RunnerKeeps, laneVars, published, previous, full, fetched,
                   unseenPoll>>

\* The delta goes to the change bus. A first empty table has no delta.
PublishDelta ==
    /\ rpc = "publish"
    /\ published' = IF fetched # Contents(previous) THEN fetched ELSE published
    /\ rpc' = "record"
    /\ UNCHANGED <<RunnerKeeps, laneVars, previous, full, fetched, unseenPoll,
                   unseenCommit>>

\* Lane::record_poll: the health report, then the watchers of polls.
RecordPoll ==
    /\ rpc \in {"record", "failed"}
    /\ lastError' = (rpc = "failed")
    /\ rpc' = "notify"
    /\ UNCHANGED <<RunnerKeeps, table, ready, updated, permit, refresh,
                   published, previous, full, fetched, unseenPoll, unseenCommit>>

\* Mutant: only a poll that succeeded tells the watchers.
NotifyPollsOk ==
    /\ rpc = "notify"
    /\ unseenPoll' = [w \in Writers |-> unseenPoll[w] \/ ~lastError]
    /\ rpc' = "wait" /\ previous' = None /\ full' = FALSE /\ fetched' = {}
    /\ UNCHANGED <<RunnerKeeps, laneVars, published, unseenCommit>>

\* The poll ends and its locals with it.
NotifyPolls ==
    /\ rpc = "notify"
    /\ unseenPoll' = [w \in Writers |-> TRUE]
    /\ rpc' = "wait" /\ previous' = None /\ full' = FALSE /\ fetched' = {}
    /\ UNCHANGED <<RunnerKeeps, laneVars, published, unseenCommit>>

\* Lane::wait ends: a kick left a permit, or the interval passed.
WakeByKick ==
    /\ rpc = "wait" /\ permit
    /\ permit' = FALSE
    /\ rpc' = "start"
    /\ UNCHANGED <<RunnerKeeps, table, ready, updated, lastError, refresh,
                   published, previous, full, fetched, unseenPoll, unseenCommit>>

WakeByTimer ==
    /\ rpc = "wait"
    /\ rpc' = "start"
    /\ UNCHANGED <<RunnerKeeps, laneVars, published, previous, full, fetched,
                   unseenPoll, unseenCommit>>

RunnerStep ==
    \/ PollStart \/ FetchRead \/ FetchCached \/ FetchError
    \/ CommitStore \/ CommitBump \/ CommitStamp \/ CommitAnnounce
    \/ PublishDelta \/ RecordPoll \/ NotifyPolls \/ WakeByKick

------------------------------------------------------------------------------
(* The writers: a handler's request to the cluster, then its settle.         *)

WriterKeeps == <<clusterVars, table, ready, updated, lastError, published,
                 runnerVars, change, claim, followerVars, unseenCommit>>

\* The handler's request succeeds: it would not if it changed nothing. Deleting
\* asks the table first (writable_topic, known_group, known_subject). The settle
\* that follows begins with a receiver that has seen every poll so far.
Write(w, c) ==
    /\ wpc[w] = "idle"
    /\ c.present \/ c.item \in Contents(table)
    /\ Apply(c, cluster) # cluster
    /\ cluster' = Apply(c, cluster)
    /\ change' = [change EXCEPT ![w] = c]
    /\ claim' = [Overtaken(c.item) EXCEPT
                    ![w] = IF LooksDone(c) THEN "masked" ELSE "genuine"]
    /\ unseenPoll' = [unseenPoll EXCEPT ![w] = FALSE]
    /\ outcome' = [outcome EXCEPT ![w] = "none"]
    /\ wpc' = [wpc EXCEPT ![w] = "test"]
    /\ UNCHANGED <<served, laneVars, published, runnerVars, followerVars,
                   unseenCommit>>

Answer(w, how) ==
    /\ wpc' = [wpc EXCEPT ![w] = "answered"]
    /\ outcome' = [outcome EXCEPT ![w] = how]

Go(w, step) ==
    /\ wpc' = [wpc EXCEPT ![w] = step]
    /\ UNCHANGED outcome

\* while !shows()
Test(w) ==
    /\ wpc[w] = "test"
    /\ IF Shows(w) THEN Answer(w, "shown") ELSE Go(w, "mark")
    /\ UNCHANGED <<WriterKeeps, permit, refresh, unseenPoll>>

\* polls.mark_unchanged()
MarkUnchanged(w) ==
    /\ wpc[w] = "mark"
    /\ unseenPoll' = [unseenPoll EXCEPT ![w] = FALSE]
    /\ Go(w, "flag")
    /\ UNCHANGED <<WriterKeeps, permit, refresh>>

\* Mutant: the settle kicks without asking for a full read.
AskRefreshForgets(w) ==
    /\ wpc[w] = "flag"
    /\ Go(w, "kick")
    /\ UNCHANGED <<WriterKeeps, permit, refresh, unseenPoll>>

\* self.refresh.store(true)
AskRefresh(w) ==
    /\ wpc[w] = "flag"
    /\ refresh' = TRUE
    /\ Go(w, "kick")
    /\ UNCHANGED <<WriterKeeps, permit, unseenPoll>>

\* self.kick(): notify_one leaves one permit however often it is called.
Kick(w) ==
    /\ wpc[w] = "kick"
    /\ permit' = TRUE
    /\ Go(w, "await")
    /\ UNCHANGED <<WriterKeeps, refresh, unseenPoll>>

\* polls.changed().await
PollSeen(w) ==
    /\ wpc[w] = "await" /\ unseenPoll[w]
    /\ unseenPoll' = [unseenPoll EXCEPT ![w] = FALSE]
    /\ Go(w, "judge")
    /\ UNCHANGED <<WriterKeeps, permit, refresh>>

\* A failed poll ends the settle...
Judge(w) ==
    /\ wpc[w] = "judge"
    /\ IF lastError THEN Answer(w, "failed") ELSE Go(w, "look")
    /\ UNCHANGED <<WriterKeeps, permit, refresh, unseenPoll>>

\* Mutant: any poll that succeeded ends the settle.
LookAway(w) ==
    /\ wpc[w] = "look"
    /\ Answer(w, "shown")
    /\ UNCHANGED <<WriterKeeps, permit, refresh, unseenPoll>>

\* ... and so does a table that shows the change.
Look(w) ==
    /\ wpc[w] = "look"
    /\ IF Shows(w) THEN Answer(w, "shown") ELSE Go(w, "sleep")
    /\ UNCHANGED <<WriterKeeps, permit, refresh, unseenPoll>>

\* The backoff between two polls passes.
BackoffPasses(w) ==
    /\ wpc[w] = "sleep"
    /\ Go(w, "test")
    /\ UNCHANGED <<WriterKeeps, permit, refresh, unseenPoll>>

\* settle_on: SETTLE passes and drops refresh_until at one of its awaits.
SettleTimeout(w) ==
    /\ wpc[w] \in {"await", "sleep"}
    /\ Answer(w, "late")
    /\ UNCHANGED <<WriterKeeps, permit, refresh, unseenPoll>>

\* The handler has answered, and the next request may come.
NextRequest(w) ==
    /\ wpc[w] = "answered"
    /\ Go(w, "idle")
    /\ UNCHANGED <<WriterKeeps, permit, refresh, unseenPoll>>

SettleStep(w) ==
    \/ Test(w) \/ MarkUnchanged(w) \/ AskRefresh(w) \/ Kick(w)
    \/ PollSeen(w) \/ Judge(w) \/ Look(w) \/ BackoffPasses(w)

------------------------------------------------------------------------------
(* The followers: Follower::table, Follower::commit and `run` around them.   *)

FollowerKeeps == <<clusterVars, laneVars, published, runnerVars, writerVars,
                   unseenPoll>>

GoFollower(f, step) == fpc' = [fpc EXCEPT ![f] = step]

\* `stale` of configs and log_dirs: the newer table gained an item.
Gained(old, new) == \E i \in Items : i \in new /\ i \notin old

\* self.commits.mark_unchanged()
FollowMark(f) ==
    /\ fpc[f] = "seek"
    /\ unseenCommit' = [unseenCommit EXCEPT ![f] = FALSE]
    /\ GoFollower(f, "load")
    /\ UNCHANGED <<FollowerKeeps, got>>

\* self.lane.load(): with no table yet the follower parks until a commit.
FollowLoad(f) ==
    /\ fpc[f] = "load"
    /\ IF table = None
       THEN GoFollower(f, "parked") /\ UNCHANGED got
       ELSE GoFollower(f, "poll") /\ got' = [got EXCEPT ![f] = table]
    /\ UNCHANGED <<FollowerKeeps, unseenCommit>>

FollowUnpark(f) ==
    /\ fpc[f] = "parked" /\ unseenCommit[f]
    /\ unseenCommit' = [unseenCommit EXCEPT ![f] = FALSE]
    /\ GoFollower(f, "seek")
    /\ UNCHANGED <<FollowerKeeps, got>>

\* Mutant: the receiver is marked after the poll, over commits made meanwhile.
FollowPollMarks(f) ==
    /\ fpc[f] = "poll"
    /\ unseenCommit' = [unseenCommit EXCEPT ![f] = FALSE]
    /\ GoFollower(f, "wait")
    /\ UNCHANGED <<FollowerKeeps, got>>

\* The follower's own poll, against the table it loaded, ends.
FollowPoll(f) ==
    /\ fpc[f] = "poll"
    /\ GoFollower(f, "wait")
    /\ UNCHANGED <<FollowerKeeps, got, unseenCommit>>

\* Its own interval or kick wakes it.
FollowTimer(f) ==
    /\ fpc[f] = "wait"
    /\ GoFollower(f, "seek")
    /\ UNCHANGED <<FollowerKeeps, got, unseenCommit>>

\* upstream.commit(): changed().await, then table() from its start.
FollowCommit(f) ==
    /\ fpc[f] = "wait" /\ unseenCommit[f]
    /\ unseenCommit' = [unseenCommit EXCEPT ![f] = FALSE]
    /\ GoFollower(f, "remark")
    /\ UNCHANGED <<FollowerKeeps, got>>

FollowRemark(f) ==
    /\ fpc[f] = "remark"
    /\ unseenCommit' = [unseenCommit EXCEPT ![f] = FALSE]
    /\ GoFollower(f, "judge")
    /\ UNCHANGED <<FollowerKeeps, got>>

\* Mutant: a follower without a `stale` of its own.
FollowJudgeNever(f) ==
    /\ fpc[f] = "judge"
    /\ GoFollower(f, "wait")
    /\ UNCHANGED <<FollowerKeeps, got, unseenCommit>>

\* The load of table(), and stale() on what it returned.
FollowJudge(f) ==
    /\ fpc[f] = "judge"
    /\ GoFollower(f, IF Gained(got[f], table) THEN "seek" ELSE "wait")
    /\ UNCHANGED <<FollowerKeeps, got, unseenCommit>>

FollowerStep(f) ==
    \/ FollowMark(f) \/ FollowLoad(f) \/ FollowUnpark(f) \/ FollowPoll(f)
    \/ FollowCommit(f) \/ FollowRemark(f) \/ FollowJudge(f)

------------------------------------------------------------------------------
Next ==
    \/ \E c \in Changes : ExternalWrite(c)
    \/ Propagate
    \/ RunnerStep
    \/ WakeByTimer
    \/ \E w \in Writers : \/ \E c \in Changes : Write(w, c)
                          \/ SettleStep(w)
                          \/ SettleTimeout(w)
                          \/ NextRequest(w)
    \/ \E f \in Followers : FollowerStep(f) \/ FollowTimer(f)

Spec == Init /\ [][Next]_vars

\* Tasks that can run do run (tokio schedules every ready task), changes reach
\* the brokers in the end. Nothing is assumed of the timers of the runner and of
\* the followers, of SETTLE, of new requests or of other Kafka clients.
Fairness ==
    /\ WF_vars(Propagate)
    /\ WF_vars(RunnerStep)
    /\ \A w \in Writers : WF_vars(SettleStep(w))
    /\ \A f \in Followers : WF_vars(FollowerStep(f))

FairSpec == Spec /\ Fairness

------------------------------------------------------------------------------
(* Properties.                                                               *)

\* A lane that reports itself ready (GET /readyz, the MCP lane findings) or
\* healthy has a table to serve: commit stores before it counts and stamps.
ReadyServes == ready \/ updated => table # None

\* No settle sleeps on a poll nobody is going to make: as long as a writer
\* awaits a poll it has not seen, the kick it left is pending or a poll is under
\* way. refresh_until marks the receiver before it kicks for this reason.
ArmedWake ==
    \A w \in Writers :
        wpc[w] = "await" /\ ~unseenPoll[w] => permit \/ rpc \in Polling

\* The poll a settle waits for reads past the cache, whichever of several
\* writers asked first and whichever poll took the flag.
RefreshPromise ==
    \A w \in Writers :
        wpc[w] = "await" /\ ~unseenPoll[w] =>
            refresh \/ (rpc \in Polling \ {"start"} /\ full)

\* A change that klens answered as shown stays in the projection until somebody
\* changes the item again, although polls that began before the change may end
\* after it. The exception is a change that the table, or a poll under way,
\* already looked like (a topic deleted elsewhere and created again here).
ReadYourWrite ==
    \A w \in Writers :
        wpc[w] \in {"answered", "idle"} /\ outcome[w] = "shown"
            /\ claim[w] = "genuine"
        => table # None /\ (change[w].item \in table) = change[w].present

\* The follower has a commit left to look at, or one is about to be announced.
CommitPending(f) == unseenCommit[f] \/ rpc \in {"bump", "stamp", "announce"}

\* No follower misses a table: one that waits for its interval, with nothing
\* left to look at, has polled for every item of the current table, and one that
\* waits for a first table has none to wait for.
FollowerFresh ==
    \A f \in Followers :
        ~CommitPending(f) =>
            /\ fpc[f] \in {"poll", "wait"} => ~Gained(got[f], table)
            /\ fpc[f] = "parked" => table = None

\* A table is never taken back: once the lane has one it has one for ever, and a
\* failed poll leaves the one that is there.
TableKept ==
    [][/\ table # None => table' # None
       /\ rpc = "failed" => table' = table]_vars

\* The lane implements the table and change bus that its readers rely on.
Feed == INSTANCE SnapshotFeed WITH view <- table, told <- published
FeedImplemented == Feed!FeedSpec

\* A settle ends on kicks alone, without the interval of the lane and without
\* SETTLE, unless the change is undone or polls keep failing.
SettleEnds ==
    \A w \in Writers :
        \/ []<>(wpc[w] \notin Settling)
        \/ []<>(claim[w] = "overtaken")
        \/ []<>(rpc = "failed")

\* A follower whose table lacks an item polls again without its own interval,
\* unless the item goes away first.
FollowerCatchesUp ==
    \A f \in Followers :
        fpc[f] = "wait" /\ Gained(got[f], table)
            ~> \/ fpc[f] = "seek"
               \/ fpc[f] = "wait" /\ ~Gained(got[f], table)
=============================================================================

----------------------------- MODULE LaneProofs -----------------------------
(***************************************************************************)
(* Proofs about Lane for every set of items, writers and followers, for    *)
(* lanes with and without a cache, and about what the schema ids lane keeps *)
(* from one poll to the next.                                              *)
(***************************************************************************)
EXTENDS Lane, SchemaIds, FiniteSetTheorems, TLAPS

\* A commit is between its store and its publication.
Committing == {"bump", "stamp", "announce", "publish"}

\* What the runner's locals mean at each of its steps. A poll compares and
\* commits against the table it loaded at its start: nobody else stores.
RunnerInv ==
    /\ rpc \in {"fetch", "failed", "store"} => previous = table
    /\ rpc = "fetch" /\ ~full => previous # None
    /\ rpc = "store" => fetched # table
    /\ rpc \in Committing => table = fetched /\ published = Contents(previous)
    /\ rpc \notin Committing => published = Contents(table)

USE DEF Tables

\* The steps of the runner keep every variable of the lane within its type.
LEMMA RunnerType ==
    ASSUME TypeOK, RunnerInv, RunnerStep \/ WakeByTimer
    PROVE  TypeOK' /\ RunnerInv'
<1> USE LaneAssumption DEF TypeOK, RunnerInv, RunnerKeeps, clusterVars, laneVars,
        writerVars, followerVars, RunnerSteps, Committing, Contents
<1>1. CASE PollStart BY <1>1 DEF PollStart
<1>2. CASE FetchRead BY <1>2 DEF FetchRead, AfterFetch
<1>3. CASE FetchCached BY <1>3 DEF FetchCached, AfterFetch
<1>4. CASE FetchError BY <1>4 DEF FetchError
<1>5. CASE CommitStore BY <1>5 DEF CommitStore
<1>6. CASE CommitBump BY <1>6 DEF CommitBump
<1>7. CASE CommitStamp BY <1>7 DEF CommitStamp
<1>8. CASE CommitAnnounce BY <1>8 DEF CommitAnnounce
<1>9. CASE PublishDelta BY <1>9 DEF PublishDelta
<1>10. CASE RecordPoll BY <1>10 DEF RecordPoll
<1>11. CASE NotifyPolls BY <1>11 DEF NotifyPolls
<1>12. CASE WakeByKick BY <1>12 DEF WakeByKick
<1>13. CASE WakeByTimer BY <1>13 DEF WakeByTimer
<1> QED BY <1>1, <1>2, <1>3, <1>4, <1>5, <1>6, <1>7, <1>8, <1>9, <1>10, <1>11,
           <1>12, <1>13 DEF RunnerStep

\* The steps of the cluster, the writers and the followers do too.
LEMMA OthersType ==
    ASSUME TypeOK, RunnerInv, Next, ~(RunnerStep \/ WakeByTimer)
    PROVE  TypeOK' /\ RunnerInv'
<1> USE LaneAssumption DEF TypeOK, RunnerInv, WriterKeeps, FollowerKeeps,
        clusterVars, laneVars, runnerVars, writerVars, followerVars
<1>1. CASE Propagate BY <1>1 DEF Propagate
<1>2. ASSUME NEW c \in Changes, ExternalWrite(c) PROVE TypeOK' /\ RunnerInv'
  BY <1>2 DEF ExternalWrite, Overtaken, Apply, Changes, Claims
<1>3. ASSUME NEW w \in Writers, NEW c \in Changes, Write(w, c)
      PROVE  TypeOK' /\ RunnerInv'
  <2>1. claim' \in [Writers -> Claims] BY <1>3 DEF Write, Overtaken, Claims
  <2>2. Apply(c, cluster) \in Tables BY DEF Apply, Changes
  <2>3. wpc' \in [Writers -> WriterSteps] BY <1>3 DEF Write, WriterSteps, Settling
  <2> QED BY <1>3, <2>1, <2>2, <2>3 DEF Write, Overtaken
<1>4. ASSUME NEW w \in Writers,
             SettleStep(w) \/ SettleTimeout(w) \/ NextRequest(w)
      PROVE  TypeOK' /\ RunnerInv'
  <2> USE DEF Answer, Go, WriterSteps, Settling
  <2>1. CASE Test(w) BY <2>1 DEF Test
  <2>2. CASE MarkUnchanged(w) BY <2>2 DEF MarkUnchanged
  <2>3. CASE AskRefresh(w) BY <2>3 DEF AskRefresh
  <2>4. CASE Kick(w) BY <2>4 DEF Kick
  <2>5. CASE PollSeen(w) BY <2>5 DEF PollSeen
  <2>6. CASE Judge(w) BY <2>6 DEF Judge
  <2>7. CASE Look(w) BY <2>7 DEF Look
  <2>8. CASE BackoffPasses(w) BY <2>8 DEF BackoffPasses
  <2>9. CASE SettleTimeout(w) BY <2>9 DEF SettleTimeout
  <2>10. CASE NextRequest(w) BY <2>10 DEF NextRequest
  <2> QED BY <1>4, <2>1, <2>2, <2>3, <2>4, <2>5, <2>6, <2>7, <2>8, <2>9, <2>10
          DEF SettleStep
<1>5. ASSUME NEW f \in Followers, FollowerStep(f) \/ FollowTimer(f)
      PROVE  TypeOK' /\ RunnerInv'
  <2> USE DEF GoFollower, FollowerSteps
  <2>1. CASE FollowMark(f) BY <2>1 DEF FollowMark
  <2>2. CASE FollowLoad(f) BY <2>2 DEF FollowLoad
  <2>3. CASE FollowUnpark(f) BY <2>3 DEF FollowUnpark
  <2>4. CASE FollowPoll(f) BY <2>4 DEF FollowPoll
  <2>5. CASE FollowCommit(f) BY <2>5 DEF FollowCommit
  <2>6. CASE FollowRemark(f) BY <2>6 DEF FollowRemark
  <2>7. CASE FollowJudge(f) BY <2>7 DEF FollowJudge
  <2>8. CASE FollowTimer(f) BY <2>8 DEF FollowTimer
  <2> QED BY <1>5, <2>1, <2>2, <2>3, <2>4, <2>5, <2>6, <2>7, <2>8
          DEF FollowerStep
<1> QED BY <1>1, <1>2, <1>3, <1>4, <1>5 DEF Next

\* The type invariant: every variable of the lane, of its runner, of the settles
\* and of the followers keeps its type. The runner's locals are what makes it
\* inductive: a cached read starts from a previous table that is there.
THEOREM TypeCorrect == Spec => [](TypeOK /\ RunnerInv)
<1>1. Init => TypeOK /\ RunnerInv
  <2> SUFFICES ASSUME Init PROVE TypeOK /\ RunnerInv OBVIOUS
  <2>1. TypeOK
    BY DEF Init, TypeOK, RunnerSteps, WriterSteps, Settling, FollowerSteps, Claims
  <2>2. RunnerInv BY DEF Init, RunnerInv, Committing, Contents
  <2> QED BY <2>1, <2>2
<1>2. TypeOK /\ RunnerInv /\ [Next]_vars => TypeOK' /\ RunnerInv'
  <2>1. CASE Next BY <2>1, RunnerType, OthersType
  <2>2. CASE UNCHANGED vars
    BY <2>2 DEF vars, clusterVars, laneVars, runnerVars, writerVars, followerVars,
       TypeOK, RunnerInv
  <2> QED BY <2>1, <2>2
<1> QED BY <1>1, <1>2, PTL DEF Spec

------------------------------------------------------------------------------
(* No lost wakeup.                                                           *)

\* The flag a settle raised is still up, or the poll that took it is under way,
\* from before the kick on: the kick is what RefreshPromise alone forgets.
FlagInv ==
    \A w \in Writers :
        wpc[w] \in {"kick", "await"} /\ ~unseenPoll[w] =>
            refresh \/ (rpc \in Polling \ {"start"} /\ full)

WakeInv == ReadyServes /\ ArmedWake /\ FlagInv

\* Every step keeps the wakeups: a writer that awaits has a kick or a poll to
\* wake it, and that poll will read past the cache.
LEMMA WakeStep ==
    ASSUME TypeOK, RunnerInv, WakeInv, [Next]_vars
    PROVE  WakeInv'
<1> USE LaneAssumption DEF TypeOK, RunnerInv, WakeInv, ReadyServes, ArmedWake,
        FlagInv, Polling, RunnerSteps, Committing
<1>1. CASE RunnerStep \/ WakeByTimer
  <2> USE DEF RunnerKeeps, clusterVars, laneVars, writerVars, followerVars
  <2>1. CASE PollStart BY <2>1 DEF PollStart
  <2>2. CASE FetchRead \/ FetchCached \/ FetchError
    BY <2>2 DEF FetchRead, FetchCached, FetchError, AfterFetch
  <2>3. CASE CommitStore \/ CommitBump \/ CommitStamp \/ CommitAnnounce
    BY <2>3 DEF CommitStore, CommitBump, CommitStamp, CommitAnnounce
  <2>4. CASE PublishDelta \/ RecordPoll BY <2>4 DEF PublishDelta, RecordPoll
  <2>5. CASE NotifyPolls BY <2>5 DEF NotifyPolls
  <2>6. CASE WakeByKick \/ WakeByTimer BY <2>6 DEF WakeByKick, WakeByTimer
  <2> QED BY <1>1, <2>1, <2>2, <2>3, <2>4, <2>5, <2>6 DEF RunnerStep
<1>2. ASSUME NEW w \in Writers, NEW c \in Changes, Write(w, c) PROVE WakeInv'
  BY <1>2 DEF Write, laneVars, runnerVars
<1>3. ASSUME NEW w \in Writers,
             SettleStep(w) \/ SettleTimeout(w) \/ NextRequest(w)
      PROVE  WakeInv'
  <2> USE DEF Answer, Go, WriterKeeps, runnerVars
  <2>1. CASE Test(w) \/ MarkUnchanged(w) BY <2>1 DEF Test, MarkUnchanged
  <2>2. CASE AskRefresh(w) BY <2>2 DEF AskRefresh
  <2>3. CASE Kick(w) BY <2>3 DEF Kick
  <2>4. CASE PollSeen(w) BY <2>4 DEF PollSeen
  <2>5. CASE Judge(w) \/ Look(w) BY <2>5 DEF Judge, Look
  <2>6. CASE BackoffPasses(w) \/ SettleTimeout(w) \/ NextRequest(w)
    BY <2>6 DEF BackoffPasses, SettleTimeout, NextRequest
  <2> QED BY <1>3, <2>1, <2>2, <2>3, <2>4, <2>5, <2>6 DEF SettleStep
<1>4. ASSUME UNCHANGED <<laneVars, rpc, full, wpc, unseenPoll>> PROVE WakeInv'
  BY <1>4 DEF laneVars
<1>5. ASSUME NEW c \in Changes, ExternalWrite(c) PROVE WakeInv'
  BY <1>4, <1>5 DEF ExternalWrite, runnerVars
<1>6. CASE Propagate BY <1>4, <1>6 DEF Propagate, runnerVars, writerVars
<1>7. ASSUME NEW f \in Followers, FollowerStep(f) \/ FollowTimer(f) PROVE WakeInv'
  BY <1>4, <1>7 DEF FollowerStep, FollowMark, FollowLoad, FollowUnpark, FollowPoll,
     FollowCommit, FollowRemark, FollowJudge, FollowTimer, FollowerKeeps,
     runnerVars, writerVars
<1>8. CASE UNCHANGED vars BY <1>4, <1>8 DEF vars, runnerVars, writerVars
<1> QED BY <1>1, <1>2, <1>3, <1>5, <1>6, <1>7, <1>8 DEF Next

\* refresh_until never awaits a poll nobody is going to make: a pending kick or a
\* poll under way ends every await, however many writers settle at once.
THEOREM NoLostWakeup == Spec => []ArmedWake
<1>1. Init => WakeInv BY DEF Init, WakeInv, ReadyServes, ArmedWake, FlagInv
<1>2. WakeInv => ArmedWake BY DEF WakeInv
<1> QED BY <1>1, <1>2, TypeCorrect, WakeStep, PTL DEF Spec

\* The poll that ends a settle's await reads past the cache.
THEOREM RefreshKept == Spec => []RefreshPromise
<1>1. Init => WakeInv BY DEF Init, WakeInv, ReadyServes, ArmedWake, FlagInv
<1>2. WakeInv => RefreshPromise BY DEF WakeInv, FlagInv, RefreshPromise
<1> QED BY <1>1, <1>2, TypeCorrect, WakeStep, PTL DEF Spec

\* A lane that calls itself ready or healthy has a table.
THEOREM ReadyHasTable == Spec => []ReadyServes
<1>1. Init => WakeInv BY DEF Init, WakeInv, ReadyServes, ArmedWake, FlagInv
<1>2. WakeInv => ReadyServes BY DEF WakeInv
<1> QED BY <1>1, <1>2, TypeCorrect, WakeStep, PTL DEF Spec

------------------------------------------------------------------------------
(* No missed commit.                                                         *)

\* Every step keeps the followers fresh: whatever replaces the table leaves each
\* follower a commit to look at.
LEMMA FollowStep ==
    ASSUME TypeOK, RunnerInv, FollowerFresh, [Next]_vars
    PROVE  FollowerFresh'
<1> USE LaneAssumption DEF TypeOK, RunnerInv, FollowerFresh, CommitPending, Gained,
        RunnerSteps, Committing
<1>1. ASSUME UNCHANGED <<table, rpc, unseenCommit, fpc, got>> PROVE FollowerFresh'
  BY <1>1
<1>2. CASE RunnerStep \/ WakeByTimer
  <2> USE DEF RunnerKeeps, clusterVars, laneVars, writerVars, followerVars
  <2>1. CASE PollStart \/ FetchRead \/ FetchCached \/ FetchError
    BY <2>1 DEF PollStart, FetchRead, FetchCached, FetchError, AfterFetch
  <2>2. CASE CommitStore BY <2>2 DEF CommitStore
  <2>3. CASE CommitBump \/ CommitStamp BY <2>3 DEF CommitBump, CommitStamp
  <2>4. CASE CommitAnnounce BY <2>4 DEF CommitAnnounce
  <2>5. CASE PublishDelta \/ RecordPoll \/ NotifyPolls
    BY <2>5 DEF PublishDelta, RecordPoll, NotifyPolls
  <2>6. CASE WakeByKick \/ WakeByTimer BY <2>6 DEF WakeByKick, WakeByTimer
  <2> QED BY <1>2, <2>1, <2>2, <2>3, <2>4, <2>5, <2>6 DEF RunnerStep
<1>3. ASSUME NEW f \in Followers, FollowerStep(f) \/ FollowTimer(f)
      PROVE  FollowerFresh'
  <2> USE DEF GoFollower, FollowerKeeps, laneVars, runnerVars
  <2>1. CASE FollowMark(f) BY <2>1 DEF FollowMark
  <2>2. CASE FollowLoad(f) BY <2>2 DEF FollowLoad
  <2>3. CASE FollowUnpark(f) BY <2>3 DEF FollowUnpark
  <2>4. CASE FollowPoll(f) \/ FollowTimer(f) BY <2>4 DEF FollowPoll, FollowTimer
  <2>5. CASE FollowCommit(f) \/ FollowRemark(f)
    BY <2>5 DEF FollowCommit, FollowRemark
  <2>6. CASE FollowJudge(f) BY <2>6 DEF FollowJudge
  <2> QED BY <1>3, <2>1, <2>2, <2>3, <2>4, <2>5, <2>6 DEF FollowerStep
<1>4. ASSUME NEW w \in Writers, NEW c \in Changes, Write(w, c)
      PROVE  FollowerFresh'
  BY <1>1, <1>4 DEF Write, laneVars, runnerVars, followerVars
<1>5. ASSUME NEW w \in Writers,
             SettleStep(w) \/ SettleTimeout(w) \/ NextRequest(w)
      PROVE  FollowerFresh'
  BY <1>1, <1>5 DEF SettleStep, Test, MarkUnchanged, AskRefresh, Kick, PollSeen,
     Judge, Look, BackoffPasses, SettleTimeout, NextRequest, WriterKeeps,
     runnerVars, followerVars
<1>6. ASSUME NEW c \in Changes, ExternalWrite(c) PROVE FollowerFresh'
  BY <1>1, <1>6 DEF ExternalWrite, laneVars, runnerVars, followerVars
<1>7. CASE Propagate
  BY <1>1, <1>7 DEF Propagate, laneVars, runnerVars, followerVars
<1>8. CASE UNCHANGED vars
  BY <1>1, <1>8 DEF vars, laneVars, runnerVars, followerVars
<1> QED BY <1>2, <1>3, <1>4, <1>5, <1>6, <1>7, <1>8 DEF Next

\* A follower that waits has polled for every item of the table, or a commit it
\* has not looked at will wake it: marking before loading loses no commit.
THEOREM NoMissedCommit == Spec => []FollowerFresh
<1>1. Init => FollowerFresh BY DEF Init, FollowerFresh
<1> QED BY <1>1, TypeCorrect, FollowStep, PTL DEF Spec

------------------------------------------------------------------------------
(* Read your write.                                                          *)

\* The writer's change is the last one of its item, and nothing that klens holds
\* looked like it beforehand.
Genuine(w) == claim[w] = "genuine"

\* The cluster holds the change; a table that shows it, committed or about to be,
\* was read after it; and from then on every table shows it.
WriteInv ==
    \A w \in Writers :
        /\ claim[w] # "overtaken" => change[w] \in Changes /\ Done(change[w], cluster)
        /\ Genuine(w) =>
             /\ Shows(w) => Done(change[w], served)
             /\ rpc = "store" /\ Done(change[w], fetched) => Done(change[w], served)
             /\ rpc = "store" /\ Shows(w) => Done(change[w], fetched)
             /\ wpc[w] \in {"answered", "idle"} /\ outcome[w] = "shown" => Shows(w)

\* Every step keeps what was shown: a table that shows a genuine change was read
\* after the change, and so is every table after it.
LEMMA WriteStep ==
    ASSUME TypeOK, RunnerInv, WriteInv, [Next]_vars
    PROVE  WriteInv'
<1> USE LaneAssumption DEF TypeOK, RunnerInv, WriteInv, Genuine, Shows, Done,
        Changes, RunnerSteps, Committing
<1>1. ASSUME UNCHANGED <<cluster, served, table, rpc, fetched, writerVars>>
      PROVE  WriteInv'
  BY <1>1 DEF writerVars
<1>2. CASE RunnerStep \/ WakeByTimer
  <2> USE DEF RunnerKeeps, clusterVars, laneVars, writerVars, followerVars
  <2>1. CASE FetchRead BY <2>1 DEF FetchRead, AfterFetch
  <2>2. CASE FetchCached BY <2>2 DEF FetchCached, AfterFetch
  <2>3. CASE CommitStore BY <2>3 DEF CommitStore
  <2>4. CASE PollStart \/ FetchError \/ CommitBump \/ CommitStamp
    BY <2>4 DEF PollStart, FetchError, CommitBump, CommitStamp
  <2>5. CASE CommitAnnounce \/ PublishDelta \/ RecordPoll \/ NotifyPolls
    BY <2>5 DEF CommitAnnounce, PublishDelta, RecordPoll, NotifyPolls
  <2>6. CASE WakeByKick \/ WakeByTimer BY <2>6 DEF WakeByKick, WakeByTimer
  <2> QED BY <1>2, <2>1, <2>2, <2>3, <2>4, <2>5, <2>6 DEF RunnerStep
<1>3. CASE Propagate
  BY <1>3 DEF Propagate, laneVars, runnerVars, writerVars
<1> DEFINE WI(v) ==
        /\ claim[v] # "overtaken" => change[v] \in Changes /\ Done(change[v], cluster)
        /\ Genuine(v) =>
             /\ Shows(v) => Done(change[v], served)
             /\ rpc = "store" /\ Done(change[v], fetched) => Done(change[v], served)
             /\ rpc = "store" /\ Shows(v) => Done(change[v], fetched)
             /\ wpc[v] \in {"answered", "idle"} /\ outcome[v] = "shown" => Shows(v)
<1>a. ASSUME NEW c \in Changes, NEW v \in Writers, cluster' = Apply(c, cluster),
             Overtaken(c.item)[v] # "overtaken"
      PROVE  /\ Overtaken(c.item)[v] = claim[v] /\ change[v] \in Changes
             /\ Done(change[v], cluster')
  <2>1. claim[v] # "overtaken" /\ change[v].item # c.item
    BY <1>a DEF Overtaken
  <2>2. change[v] \in Changes /\ Done(change[v], cluster) BY <2>1
  <2> QED BY <1>a, <2>1, <2>2 DEF Apply, Overtaken
<1>4. ASSUME NEW c \in Changes, ExternalWrite(c) PROVE WriteInv'
  <2> SUFFICES ASSUME NEW v \in Writers PROVE WI(v)' BY DEF WriteInv
  <2>1. CASE claim'[v] = "overtaken" BY <2>1
  <2>2. CASE claim'[v] # "overtaken"
    <3>1. /\ claim'[v] = claim[v] /\ change[v] \in Changes
          /\ Done(change[v], cluster')
      BY <1>a, <1>4, <2>2 DEF ExternalWrite
    <3> QED BY <1>4, <3>1 DEF ExternalWrite, laneVars, runnerVars
  <2> QED BY <2>1, <2>2
<1>5. ASSUME NEW w \in Writers, NEW c \in Changes, Write(w, c) PROVE WriteInv'
  <2> SUFFICES ASSUME NEW v \in Writers PROVE WI(v)' BY DEF WriteInv
  <2> USE <1>5 DEF Write, laneVars, runnerVars
  <2>1. CASE v = w
    <3>1. change'[v] = c /\ (Genuine(v)' => ~LooksDone(c)) /\ outcome'[v] = "none"
      BY <2>1 DEF Overtaken
    <3>2. Done(c, cluster') BY DEF Apply
    <3> QED BY <3>1, <3>2 DEF LooksDone
  <2>2. CASE v # w /\ claim'[v] = "overtaken" BY <2>2
  <2>3. CASE v # w /\ claim'[v] # "overtaken"
    <3>1. /\ change'[v] = change[v] /\ claim'[v] = Overtaken(c.item)[v]
          /\ wpc'[v] = wpc[v] /\ outcome'[v] = outcome[v]
      BY <2>3
    <3>2. /\ claim'[v] = claim[v] /\ change[v] \in Changes
          /\ Done(change[v], cluster')
      BY <1>a, <2>3, <3>1
    <3> QED BY <3>1, <3>2
  <2> QED BY <2>1, <2>2, <2>3
<1>6. ASSUME NEW w \in Writers,
             SettleStep(w) \/ SettleTimeout(w) \/ NextRequest(w)
      PROVE  WriteInv'
  <2> USE DEF Answer, Go, WriterKeeps, clusterVars, runnerVars
  <2>1. CASE Test(w) BY <2>1 DEF Test
  <2>2. CASE MarkUnchanged(w) \/ AskRefresh(w) \/ Kick(w) \/ PollSeen(w)
    BY <2>2 DEF MarkUnchanged, AskRefresh, Kick, PollSeen
  <2>3. CASE Judge(w) BY <2>3 DEF Judge
  <2>4. CASE Look(w) BY <2>4 DEF Look
  <2>5. CASE BackoffPasses(w) \/ SettleTimeout(w) \/ NextRequest(w)
    BY <2>5 DEF BackoffPasses, SettleTimeout, NextRequest
  <2> QED BY <1>6, <2>1, <2>2, <2>3, <2>4, <2>5 DEF SettleStep
<1>7. ASSUME NEW f \in Followers, FollowerStep(f) \/ FollowTimer(f)
      PROVE  WriteInv'
  BY <1>1, <1>7 DEF FollowerStep, FollowMark, FollowLoad, FollowUnpark, FollowPoll,
     FollowCommit, FollowRemark, FollowJudge, FollowTimer, FollowerKeeps,
     clusterVars, laneVars, runnerVars
<1>8. CASE UNCHANGED vars
  BY <1>1, <1>8 DEF vars, clusterVars, laneVars, runnerVars
<1> QED BY <1>2, <1>3, <1>4, <1>5, <1>6, <1>7, <1>8 DEF Next

\* What klens answered as shown stays shown until the item changes again.
THEOREM WritesStayVisible == Spec => []ReadYourWrite
<1>1. Init => WriteInv BY DEF Init, WriteInv, Genuine
<1>2. WriteInv => ReadYourWrite
  BY DEF WriteInv, ReadYourWrite, Genuine, Shows, Done
<1> QED BY <1>1, <1>2, TypeCorrect, WriteStep, PTL DEF Spec

------------------------------------------------------------------------------
(* The lane implements SnapshotFeed.                                         *)

\* Every step of the lane is a commit, a publication or nothing to its readers.
LEMMA FeedStep ==
    ASSUME TypeOK, RunnerInv, [Next]_vars
    PROVE  [Feed!FeedNext]_(Feed!feedVars)
<1> USE LaneAssumption DEF TypeOK, RunnerInv, Committing, RunnerSteps, Contents,
        Feed!FeedNext, Feed!feedVars, Feed!Commit, Feed!Publish, Feed!Contents,
        Feed!Tables
<1>1. ASSUME UNCHANGED <<table, published>>
      PROVE  [Feed!FeedNext]_(Feed!feedVars)
  BY <1>1
<1>2. CASE RunnerStep \/ WakeByTimer
  <2> USE DEF laneVars
  <2>1. CASE CommitStore BY <2>1 DEF CommitStore
  <2>2. CASE PublishDelta BY <2>2 DEF PublishDelta
  <2>3. CASE PollStart \/ FetchRead \/ FetchCached \/ FetchError
    BY <1>1, <2>3 DEF PollStart, FetchRead, FetchCached, FetchError, AfterFetch
  <2>4. CASE CommitBump \/ CommitStamp \/ CommitAnnounce
    BY <1>1, <2>4 DEF CommitBump, CommitStamp, CommitAnnounce
  <2>5. CASE RecordPoll \/ NotifyPolls \/ WakeByKick \/ WakeByTimer
    BY <1>1, <2>5 DEF RecordPoll, NotifyPolls, WakeByKick, WakeByTimer
  <2> QED BY <1>2, <2>1, <2>2, <2>3, <2>4, <2>5 DEF RunnerStep
<1>3. ASSUME NEW w \in Writers, NEW c \in Changes, Write(w, c)
      PROVE  UNCHANGED <<table, published>>
  BY <1>3 DEF Write, laneVars
<1>4. ASSUME NEW w \in Writers,
             SettleStep(w) \/ SettleTimeout(w) \/ NextRequest(w)
      PROVE  UNCHANGED <<table, published>>
  BY <1>4 DEF SettleStep, Test, MarkUnchanged, AskRefresh, Kick, PollSeen, Judge,
     Look, BackoffPasses, SettleTimeout, NextRequest, WriterKeeps
<1>5. ASSUME NEW f \in Followers, FollowerStep(f) \/ FollowTimer(f)
      PROVE  UNCHANGED <<table, published>>
  BY <1>5 DEF FollowerStep, FollowMark, FollowLoad, FollowUnpark, FollowPoll,
     FollowCommit, FollowRemark, FollowJudge, FollowTimer, FollowerKeeps, laneVars
<1>6. ASSUME NEW c \in Changes, ExternalWrite(c)
      PROVE  UNCHANGED <<table, published>>
  BY <1>6 DEF ExternalWrite, laneVars
<1>7. CASE Propagate \/ UNCHANGED vars
  BY <1>1, <1>7 DEF Propagate, vars, laneVars
<1> QED BY <1>1, <1>2, <1>3, <1>4, <1>5, <1>6, <1>7 DEF Next

\* Readers of the lane see one table that is replaced whole, and hear of each
\* table after they can load it.
THEOREM LaneImplementsFeed == Spec => FeedImplemented
<1>1. Init => Feed!FeedInit BY DEF Init, Feed!FeedInit
<1> QED BY <1>1, TypeCorrect, FeedStep, PTL
        DEF Spec, FeedImplemented, Feed!FeedSpec

\* A lane that has a table never loses it, and a failed poll leaves it alone.
THEOREM TableNeverDropped == Spec => TableKept
<1>1. ASSUME TypeOK, RunnerInv, [Next]_vars
      PROVE  [/\ table # None => table' # None
              /\ rpc = "failed" => table' = table]_vars
  <2>1. \/ UNCHANGED table
        \/ rpc = "store" /\ table' = fetched
    <3>1. CASE RunnerStep \/ WakeByTimer
      BY <3>1 DEF RunnerStep, PollStart, FetchRead, FetchCached, FetchError,
         AfterFetch, CommitStore, CommitBump, CommitStamp, CommitAnnounce,
         PublishDelta, RecordPoll, NotifyPolls, WakeByKick, WakeByTimer, laneVars
    <3>2. ASSUME NEW w \in Writers, NEW c \in Changes, Write(w, c)
          PROVE  UNCHANGED table
      BY <3>2 DEF Write, laneVars
    <3>3. ASSUME NEW w \in Writers,
                 SettleStep(w) \/ SettleTimeout(w) \/ NextRequest(w)
          PROVE  UNCHANGED table
      BY <3>3 DEF SettleStep, Test, MarkUnchanged, AskRefresh, Kick, PollSeen,
         Judge, Look, BackoffPasses, SettleTimeout, NextRequest, WriterKeeps
    <3>4. ASSUME NEW f \in Followers, FollowerStep(f) \/ FollowTimer(f)
          PROVE  UNCHANGED table
      BY <3>4 DEF FollowerStep, FollowMark, FollowLoad, FollowUnpark, FollowPoll,
         FollowCommit, FollowRemark, FollowJudge, FollowTimer, FollowerKeeps,
         laneVars
    <3>5. CASE Propagate \/ (\E c \in Changes : ExternalWrite(c)) \/ UNCHANGED vars
      BY <3>5 DEF Propagate, ExternalWrite, vars, laneVars
    <3> QED BY <1>1, <3>1, <3>2, <3>3, <3>4, <3>5 DEF Next
  <2> QED BY <1>1, <2>1, LaneAssumption DEF TypeOK
<1> QED BY <1>1, TypeCorrect, PTL DEF Spec, TableKept
-----------------------------------------------------------------------------
(* SchemaIds.  A table that klens keeps is of this life, or what is not was    *)
(* kept on the word of a version that has its id of a former life; or all of   *)
(* it is of former lives.                                                      *)

\* Within one life a number stands for one schema.
Own(v, id) == v \in DOMAIN given /\ id = given[v]

Current(table0) == \A v \in DOMAIN table0 : v \in 1..MaxVersion /\ Own(v, table0[v])
Kept(table0) ==
  \A v \in DOMAIN table0 : v \in 1..MaxVersion /\ (Own(v, table0[v]) \/ Unnoticed(v, table0[v]))
Former(table0) == \A v \in DOMAIN table0 : v \in 1..MaxVersion /\ <<v, table0[v]>> \in earlier

\* What a subject row says of its latest version is of this life.
OfThisLife(info) ==
  /\ info.versions \subseteq DOMAIN given /\ \A v \in info.versions : v <= info.latest
  /\ Own(info.latest, info.latestId)

RegistryInv ==
  /\ given \in Seq(Nat) /\ Len(given) <= MaxVersion /\ nextId \in Nat /\ life \in Nat
  /\ Current(registered)

LanesInv ==
  /\ sweep # Absent =>
       /\ sweep.life = life /\ sweep.latest \in DOMAIN given
       /\ sweep.versions \subseteq DOMAIN given /\ \A v \in sweep.versions : v <= sweep.latest
  /\ subject # Absent =>
       /\ subject.life \in Nat /\ subject.life <= life
       /\ subject.life = life => OfThisLife(subject)
  /\ idFetch # Absent =>
       /\ idFetch = [info |-> idFetch.info, step |-> idFetch.step, table |-> idFetch.table,
                     wanted |-> idFetch.wanted]
       /\ OfThisLife(idFetch.info) /\ Kept(idFetch.table)
       /\ idFetch.wanted \subseteq idFetch.info.versions
  /\ ids # Absent => Kept(ids) \/ Former(ids)

IdsInv == mixed \in BOOLEAN /\ RegistryInv /\ (~mixed => LanesInv)

LEMMA GreatestVersion ==
  ASSUME NEW N \in Nat, NEW S \in SUBSET (1..N), S # {}
  PROVE  Max(S) \in S /\ \A j \in S : j <= Max(S)
<1> DEFINE tails == {i..N : i \in S}
           smaller == StrictSubsetOrdering(Nat)
<1>1. tails \subseteq FiniteSubsetsOf(Nat)
  <2>1. ASSUME NEW i \in S PROVE i..N \in SUBSET Nat /\ IsFiniteSet(i..N)
    BY FS_Interval
  <2> QED BY <2>1 DEF FiniteSubsetsOf
<1>2. tails # {} OBVIOUS
<1>3. IsWellFoundedOn(smaller, FiniteSubsetsOf(Nat))
  BY FS_StrictSubsetOrderingWellFounded
<1>4. PICK tail \in tails : \A other \in tails : <<other, tail>> \notin smaller
  <2> HIDE DEF tails, smaller
  <2> QED BY <1>1, <1>2, <1>3, WFMin
<1>5. PICK i \in S : tail = i..N OBVIOUS
<1>6. ASSUME NEW j \in S, j > i PROVE FALSE
  <2>1. j..N \subseteq i..N /\ i \in i..N /\ i \notin j..N BY <1>6
  <2>2. <<j..N, i..N>> \in smaller BY <2>1, <1>6 DEF StrictSubsetOrdering
  <2> QED BY <2>2, <1>4, <1>5, j..N \in tails
<1>7. i \in S /\ \A j \in S : i >= j BY <1>6
<1>8. Max(S) \in S /\ \A y \in S : Max(S) >= y BY <1>7, Zenon DEF Max
<1> QED BY <1>8

LEMMA IdsInitially == ASSUME SchemaInit PROVE IdsInv
<1>1. DOMAIN registered = {} BY DEF SchemaInit
<1>2. given = <<>> /\ nextId = 1 /\ life = 1 /\ mixed = FALSE /\ MaxVersion \in Nat
  BY IdsAssumption DEF SchemaInit
<1>3. RegistryInv BY <1>1, <1>2 DEF RegistryInv, Current
<1>4. LanesInv BY DEF SchemaInit, LanesInv
<1> QED BY <1>2, <1>3, <1>4 DEF IdsInv

\* What the predicates above say outlives a step that adds to the registry.
LEMMA RegistryGrows ==
  ASSUME earlier' = earlier, DOMAIN given \subseteq DOMAIN given',
         \A v \in DOMAIN given : given'[v] = given[v]
  PROVE  /\ \A v, id : Own(v, id) => Own(v, id)'
         /\ \A v, id : Unnoticed(v, id) => Unnoticed(v, id)'
BY DEF Own, Unnoticed

\* A new version changes nothing of what was held.
LEMMA RegisterKeeps == ASSUME IdsInv, RegisterVersion PROVE IdsInv'
<1> USE IdsAssumption
<1>1. PICK id \in 1..nextId :
        /\ registered' = Added(registered, Len(given) + 1, id)
        /\ given' = Append(given, id)
        /\ nextId' = IF id = nextId THEN nextId + 1 ELSE nextId
  BY DEF RegisterVersion
<1>2. /\ UNCHANGED <<life, earlier, sweep, subject, idFetch, ids, mixed>>
      /\ Len(given) < MaxVersion /\ given \in Seq(Nat) /\ nextId \in Nat /\ life \in Nat
      /\ Current(registered) /\ mixed \in BOOLEAN
  BY DEF RegisterVersion, IdsInv, RegistryInv
<1>3. /\ given' \in Seq(Nat) /\ Len(given') = Len(given) + 1 /\ nextId' \in Nat
      /\ DOMAIN given = 1..Len(given) /\ DOMAIN given' = 1..(Len(given) + 1)
      /\ \A v \in DOMAIN given : given'[v] = given[v]
      /\ given'[Len(given) + 1] = id
  BY <1>1, <1>2
<1>4. DOMAIN given \subseteq DOMAIN given' BY <1>2, <1>3
<1>5. /\ \A v, i : Own(v, i) => Own(v, i)'
      /\ \A v, i : Unnoticed(v, i) => Unnoticed(v, i)'
  BY <1>2, <1>3, <1>4, RegistryGrows
<1>6. Current(registered)'
  <2>1. \A w \in DOMAIN registered' :
          \/ w \in DOMAIN registered /\ registered'[w] = registered[w]
          \/ w = Len(given) + 1 /\ registered'[w] = id
    BY <1>1 DEF Added
  <2>2. Len(given) + 1 \in 1..MaxVersion /\ Len(given) + 1 \in DOMAIN given' BY <1>2, <1>3
  <2>3. ASSUME NEW w \in DOMAIN registered' PROVE w \in 1..MaxVersion /\ Own(w, registered[w])'
    <3>1. CASE w \in DOMAIN registered /\ registered'[w] = registered[w]
      <4>1. w \in 1..MaxVersion /\ w \in DOMAIN given /\ registered[w] = given[w]
        BY <1>2, <3>1 DEF Current, Own
      <4> QED BY <1>3, <1>4, <3>1, <4>1 DEF Own
    <3>2. CASE w = Len(given) + 1 /\ registered'[w] = id BY <1>3, <2>2, <3>2 DEF Own
    <3> QED BY <2>1, <3>1, <3>2
  <2> QED BY <2>3 DEF Current
<1>7. RegistryInv'
  <2>1. Len(given') <= MaxVersion BY <1>2, <1>3
  <2> QED BY <1>2, <1>3, <1>6, <2>1 DEF RegistryInv
<1>8. ASSUME ~mixed PROVE LanesInv'
  <2>1. LanesInv BY <1>8 DEF IdsInv
  <2>2. \A t : Kept(t) =>
          \A v \in DOMAIN t : v \in 1..MaxVersion /\ (Own(v, t[v])' \/ Unnoticed(v, t[v])')
    BY <1>5 DEF Kept
  <2>3. \A info : OfThisLife(info) =>
          /\ info.versions \subseteq DOMAIN given' /\ \A v \in info.versions : v <= info.latest
          /\ Own(info.latest, info.latestId)'
    BY <1>4, <1>5 DEF OfThisLife
  <2>4. (sweep # Absent =>
          /\ sweep.life = life /\ sweep.latest \in DOMAIN given
          /\ sweep.versions \subseteq DOMAIN given /\ \A v \in sweep.versions : v <= sweep.latest)'
    BY <1>2, <1>4, <2>1 DEF LanesInv
  <2>5. (subject # Absent =>
          /\ subject.life \in Nat /\ subject.life <= life
          /\ subject.life = life => OfThisLife(subject))'
    BY <1>2, <2>1, <2>3 DEF LanesInv, OfThisLife
  <2>6. (idFetch # Absent =>
          /\ idFetch = [info |-> idFetch.info, step |-> idFetch.step, table |-> idFetch.table,
                        wanted |-> idFetch.wanted]
          /\ OfThisLife(idFetch.info) /\ Kept(idFetch.table)
          /\ idFetch.wanted \subseteq idFetch.info.versions)'
    BY <1>2, <2>1, <2>2, <2>3 DEF LanesInv, OfThisLife, Kept
  <2>7. (ids # Absent => Kept(ids) \/ Former(ids))'
    BY <1>2, <2>1, <2>2 DEF LanesInv, Kept, Former
  <2> QED BY <2>4, <2>5, <2>6, <2>7 DEF LanesInv
<1> QED BY <1>2, <1>7, <1>8 DEF IdsInv

\* What was held becomes what a former life has left.
LEMMA PurgeKeeps == ASSUME IdsInv, PurgeSubject PROVE IdsInv'
<1> USE IdsAssumption
<1>1. /\ given' = <<>> /\ nextId' = nextId /\ nextId \in Nat
      /\ life \in Nat /\ life' = life + 1 /\ registered' = Restrict(registered, {})
      /\ earlier' = earlier \union {<<v, given[v]>> : v \in DOMAIN given}
      /\ mixed' = (mixed \/ sweep # Absent \/ idFetch # Absent)
      /\ UNCHANGED <<sweep, subject, idFetch, ids>>
  BY DEF PurgeSubject, IdsInv, RegistryInv, registry
<1>2. DOMAIN registered' = {} BY <1>1 DEF Restrict
<1>3. RegistryInv' BY <1>1, <1>2 DEF RegistryInv, Current
<1>4. ASSUME ~mixed' PROVE LanesInv'
  <2>1. LanesInv /\ sweep = Absent /\ idFetch = Absent BY <1>1, <1>4 DEF IdsInv
  <2>2. ASSUME ids # Absent PROVE Former(ids)'
    <3>1. Kept(ids) \/ Former(ids) BY <2>1, <2>2 DEF LanesInv
    <3>2. \A v \in DOMAIN ids : v \in 1..MaxVersion /\ <<v, ids[v]>> \in earlier'
      BY <1>1, <3>1 DEF Kept, Former, Own, Unnoticed
    <3> QED BY <1>1, <3>2 DEF Former
  <2>3. subject # Absent => subject.life \in Nat /\ subject.life < life' BY <1>1, <2>1 DEF LanesInv
  <2> QED BY <1>1, <2>1, <2>2, <2>3 DEF LanesInv
<1>5. mixed' \in BOOLEAN BY <1>1
<1> QED BY <1>3, <1>4, <1>5 DEF IdsInv

\* The predicates look at what was given, now and earlier.
LEMMA RegistryFrame ==
  ASSUME UNCHANGED <<given, earlier>>
  PROVE  /\ \A t : Current(t) <=> (\A v \in DOMAIN t : v \in 1..MaxVersion /\ Own(v, t[v])')
         /\ \A t : Kept(t) <=>
              (\A v \in DOMAIN t : v \in 1..MaxVersion /\ (Own(v, t[v])' \/ Unnoticed(v, t[v])'))
         /\ \A t : Former(t) <=> (\A v \in DOMAIN t : v \in 1..MaxVersion /\ <<v, t[v]>> \in earlier')
         /\ \A info : OfThisLife(info) <=>
              /\ info.versions \subseteq DOMAIN given' /\ \A v \in info.versions : v <= info.latest
              /\ Own(info.latest, info.latestId)'
<1>1. \A v, id : Own(v, id)' <=> Own(v, id) BY DEF Own
<1>2. \A v, id : Unnoticed(v, id)' <=> Unnoticed(v, id) BY DEF Unnoticed
<1> QED BY <1>1, <1>2 DEF Current, Kept, Former, OfThisLife

LEMMA DeleteKeeps ==
  ASSUME IdsInv, NEW v \in DOMAIN registered, DeleteVersion(v) PROVE IdsInv'
<1>1. UNCHANGED <<given, nextId, life, earlier, sweep, subject, idFetch, ids, mixed>>
      /\ registered' = Restrict(registered, DOMAIN registered \ {v})
  BY DEF DeleteVersion
<1>2. Current(registered)'
  <2>1. \A w \in DOMAIN registered' : w \in DOMAIN registered /\ registered'[w] = registered[w]
    BY <1>1 DEF Restrict
  <2> QED BY <1>1, <2>1 DEF Current, Own, IdsInv, RegistryInv
<1>3. RegistryInv' BY <1>1, <1>2 DEF RegistryInv, IdsInv
<1>4. LanesInv => LanesInv'
  BY <1>1, RegistryFrame DEF LanesInv, OfThisLife, Kept, Former
<1> QED BY <1>1, <1>3, <1>4 DEF IdsInv

\* A step of a lane leaves the registry alone.
LEMMA LaneStep ==
  ASSUME IdsInv, UNCHANGED registry, mixed' \in BOOLEAN, ~mixed' => ~mixed,
         ~mixed /\ ~mixed' /\ LanesInv => LanesInv'
  PROVE  IdsInv'
<1>1. UNCHANGED <<registered, given, nextId, life, earlier>> BY DEF registry
<1>2. RegistryInv' BY <1>1 DEF RegistryInv, IdsInv, Current, Own
<1> QED BY <1>2 DEF IdsInv

LEMMA SweepKeeps ==
  ASSUME IdsInv, ReadVersions \/ ReadLatest \/ SubjectGone PROVE IdsInv'
<1> USE IdsAssumption DEF LanesInv
<1>1. RegistryInv /\ mixed \in BOOLEAN BY DEF IdsInv
<1>2. UNCHANGED registry /\ UNCHANGED <<given, earlier, life>> /\ UNCHANGED <<idFetch, ids>>
  BY DEF ReadVersions, ReadLatest, SubjectGone, registry
<1>3. \A v \in DOMAIN registered : v \in 1..MaxVersion /\ Own(v, registered[v]) /\ v \in DOMAIN given
  BY <1>1 DEF RegistryInv, Current, Own
<1>4. CASE ReadVersions
  <2>1. /\ DOMAIN registered # {} /\ UNCHANGED <<subject, mixed>>
        /\ sweep' = [versions |-> DOMAIN registered, latest |-> Max(DOMAIN registered), life |-> life]
    BY <1>4 DEF ReadVersions
  <2>2. Max(DOMAIN registered) \in DOMAIN registered
        /\ \A v \in DOMAIN registered : v <= Max(DOMAIN registered)
    <3>1. DOMAIN registered \in SUBSET (1..MaxVersion) /\ MaxVersion \in Nat BY <1>3
    <3> QED BY <2>1, <3>1, GreatestVersion
  <2>3. LanesInv => LanesInv'
    BY <1>2, <1>3, <2>1, <2>2, RegistryFrame DEF OfThisLife, Kept, Former
  <2> QED BY <1>1, <1>2, <2>1, <2>3, LaneStep
<1>5. CASE ReadLatest
  <2> DEFINE known == subject # Absent /\ subject.latest = sweep.latest
  <2>1. /\ sweep # Absent /\ sweep' = Absent
        /\ \/ /\ known \/ sweep.latest \in DOMAIN registered
              /\ subject' = [versions |-> sweep.versions, latest |-> sweep.latest, life |-> sweep.life,
                             latestId |-> IF known THEN subject.latestId ELSE registered[sweep.latest]]
              /\ mixed' = (mixed \/ (known /\ subject.life # sweep.life))
           \/ ~known /\ subject' = Absent /\ UNCHANGED mixed
    BY <1>5 DEF ReadLatest
  <2>2. mixed' \in BOOLEAN /\ (~mixed' => ~mixed)
    <3>1. mixed' = (mixed \/ (known /\ subject.life # sweep.life)) \/ mixed' = mixed BY <2>1
    <3> HIDE DEF known
    <3> QED BY <1>1, <3>1
  <2>3. ASSUME ~mixed, ~mixed', LanesInv PROVE LanesInv'
    <3>1. /\ sweep.life = life /\ life \in Nat /\ sweep.latest \in DOMAIN given
          /\ sweep.versions \subseteq DOMAIN given /\ \A v \in sweep.versions : v <= sweep.latest
      BY <1>1, <2>1, <2>3 DEF RegistryInv
    <3>2. subject' # Absent => subject'.life = life /\ OfThisLife(subject')
      <4>1. ASSUME subject' # Absent
            PROVE  /\ subject'.versions = sweep.versions /\ subject'.latest = sweep.latest
                   /\ subject'.life = life /\ Own(sweep.latest, subject'.latestId)
        <5>1. CASE known
          <6>1. subject' = [versions |-> sweep.versions, latest |-> sweep.latest,
                            life |-> sweep.life, latestId |-> subject.latestId]
                /\ (known /\ subject.life # sweep.life => mixed')
            BY <2>1, <5>1
          <6>2. subject.life = life BY <2>3, <3>1, <5>1, <6>1
          <6>3. Own(sweep.latest, subject.latestId) BY <2>3, <5>1, <6>2 DEF OfThisLife
          <6> QED BY <3>1, <6>1, <6>3
        <5>2. CASE ~known
          <6>1. /\ sweep.latest \in DOMAIN registered
                /\ subject' = [versions |-> sweep.versions, latest |-> sweep.latest,
                               life |-> sweep.life, latestId |-> registered[sweep.latest]]
            BY <2>1, <4>1, <5>2
          <6> QED BY <1>3, <3>1, <6>1
        <5> QED BY <5>1, <5>2
      <4> QED BY <3>1, <4>1 DEF OfThisLife
    <3> QED BY <1>2, <2>1, <2>3, <3>1, <3>2, RegistryFrame DEF OfThisLife, Kept, Former
  <2> QED BY <1>2, <2>2, <2>3, LaneStep
<1>6. CASE SubjectGone
  <2>1. subject' = Absent /\ UNCHANGED <<sweep, mixed>> BY <1>6 DEF SubjectGone
  <2>2. LanesInv => LanesInv'
    BY <1>2, <2>1, RegistryFrame DEF OfThisLife, Kept, Former
  <2> QED BY <1>1, <1>2, <2>1, <2>2, LaneStep
<1> QED BY <1>4, <1>5, <1>6

\* Ids are kept only when one of them was seen to be of this life: if the table
\* is all of former lives, that version has its id of a former life.
LEMMA HeldIsKept ==
  ASSUME RegistryInv, OfThisLife(idFetch.info), ids # Absent => Kept(ids) \/ Former(ids),
         NEW found \in IF ids = Absent \/ ids = <<>> THEN {Absent} ELSE VersionId(Max(DOMAIN ids))
  PROVE  Kept(HeldIds(Check(found)))
<1> USE IdsAssumption
<1> DEFINE info == idFetch.info
           trusted == IF Holds(info.latest) THEN ids[info.latest] = info.latestId ELSE Check(found)
           held == HeldIds(Check(found))
<1>1. held = [v \in {info.latest} \union {v \in info.versions : Holds(v) /\ trusted} |->
                IF v = info.latest THEN info.latestId ELSE ids[v]]
  BY DEF HeldIds
<1>2. /\ info.versions \subseteq DOMAIN given /\ \A v \in info.versions : v <= info.latest
      /\ Own(info.latest, info.latestId)
  BY DEF OfThisLife
<1>3. DOMAIN given \subseteq 1..MaxVersion /\ MaxVersion \in Nat /\ Len(given) \in Nat
      /\ DOMAIN given = 1..Len(given)
  BY DEF RegistryInv
<1> HIDE DEF info
<1>4. ASSUME NEW v \in info.versions, v # info.latest, ids # Absent, v \in DOMAIN ids, trusted
      PROVE  Own(v, ids[v]) \/ Unnoticed(v, ids[v])
  <2>1. SUFFICES ASSUME Former(ids) PROVE Own(v, ids[v]) \/ Unnoticed(v, ids[v])
    BY <1>4 DEF Kept
  <2>2. <<v, ids[v]>> \in earlier /\ v \in Int BY <1>2, <1>3, <1>4, <2>1 DEF Former
  <2>3. CASE Holds(info.latest)
    <3>1. info.latest \in DOMAIN ids /\ ids[info.latest] = info.latestId
      BY <1>4, <2>3 DEF Holds
    <3>2. <<info.latest, given[info.latest]>> \in earlier /\ info.latest \in DOMAIN given
      BY <1>2, <2>1, <3>1 DEF Former, Own
    <3>3. info.latest > v BY <1>2, <1>3, <1>4, <3>2
    <3> QED BY <2>2, <3>2, <3>3 DEF Unnoticed
  <2>4. CASE ~Holds(info.latest)
    <3> DEFINE m == Max(DOMAIN ids)
    <3>1. found # Absent /\ ids[m] = found BY <1>4, <2>4 DEF Check
    <3>2. found \in VersionId(m) BY <3>1, <1>4
    <3>3. DOMAIN ids \in SUBSET (1..MaxVersion) /\ DOMAIN ids # {} BY <1>4, <2>1 DEF Former
    <3>4. m \in DOMAIN ids /\ v <= m /\ m \in Int
      <4>1. m \in DOMAIN ids /\ \A j \in DOMAIN ids : j <= m BY <1>3, <3>3, GreatestVersion
      <4> HIDE DEF m
      <4> QED BY <1>4, <3>3, <4>1
    <3> HIDE DEF m
    <3>5. m \in DOMAIN registered /\ found = registered[m] BY <3>1, <3>2 DEF VersionId
    <3>6. m \in DOMAIN given /\ ids[m] = given[m]
      BY <3>1, <3>5 DEF RegistryInv, Current, Own
    <3>7. CASE v = m BY <3>6, <3>7 DEF Own
    <3>8. CASE v # m
      <4>1. m > v BY <2>2, <3>4, <3>8
      <4>2. <<m, given[m]>> \in earlier BY <2>1, <3>4, <3>6 DEF Former
      <4> QED BY <2>2, <3>6, <4>1, <4>2 DEF Unnoticed
    <3> QED BY <3>7, <3>8
  <2> QED BY <2>3, <2>4
<1> HIDE DEF trusted, held
<1>5. ASSUME NEW v \in DOMAIN held
      PROVE  v \in 1..MaxVersion /\ (Own(v, held[v]) \/ Unnoticed(v, held[v]))
  <2>1. CASE v = info.latest
    <3>1. held[v] = info.latestId BY <1>1, <1>5, <2>1
    <3> QED BY <1>2, <1>3, <2>1, <3>1 DEF Own
  <2>2. CASE v # info.latest
    <3>1. v \in info.versions /\ Holds(v) /\ trusted /\ held[v] = ids[v] BY <1>1, <1>5, <2>2
    <3>2. ids # Absent /\ v \in DOMAIN ids BY <3>1 DEF Holds
    <3> QED BY <1>2, <1>3, <1>4, <2>2, <3>1, <3>2
  <2> QED BY <2>1, <2>2
<1> QED BY <1>5 DEF Kept, held

LEMMA IdsLaneKeeps ==
  ASSUME IdsInv, StartIds \/ CheckHeld \/ (\E v \in 1..MaxVersion : ReadId(v)) \/ CommitIds \/ IdsGone
  PROVE  IdsInv'
<1> USE IdsAssumption DEF LanesInv
<1>1. RegistryInv /\ mixed \in BOOLEAN BY DEF IdsInv
<1>2. UNCHANGED registry /\ UNCHANGED <<given, earlier, life>> /\ UNCHANGED <<sweep, subject>>
  BY DEF StartIds, CheckHeld, ReadId, CommitIds, IdsGone, registry
<1>3. \A v \in DOMAIN registered : v \in 1..MaxVersion /\ Own(v, registered[v])
  BY <1>1 DEF RegistryInv, Current
<1>4. CASE StartIds
  <2>1. /\ subject # Absent /\ ids' = ids /\ mixed' = (mixed \/ subject.life # life)
        /\ idFetch' = [info |-> subject, step |-> "check",
                       table |-> Restrict(registered, {}), wanted |-> {}]
    BY <1>4 DEF StartIds
  <2>2. mixed' \in BOOLEAN /\ (~mixed' => ~mixed /\ subject.life = life) BY <1>1, <2>1
  <2>3. DOMAIN Restrict(registered, {}) = {} BY DEF Restrict
  <2>4. ASSUME ~mixed, ~mixed', LanesInv PROVE LanesInv'
    <3>1. OfThisLife(subject) BY <2>1, <2>2, <2>4
    <3> QED BY <1>2, <2>1, <2>3, <2>4, <3>1, RegistryFrame DEF OfThisLife, Kept, Former
  <2> QED BY <1>2, <2>2, <2>4, LaneStep
<1>5. CASE CheckHeld
  <2>1. PICK found \in IF ids = Absent \/ ids = <<>> THEN {Absent} ELSE VersionId(Max(DOMAIN ids)) :
          idFetch' = [idFetch EXCEPT !.step = "read", !.table = HeldIds(Check(found)),
                        !.wanted = idFetch.info.versions \ DOMAIN HeldIds(Check(found))]
    BY <1>5 DEF CheckHeld
  <2>2. idFetch # Absent /\ ids' = ids /\ mixed' = mixed BY <1>5 DEF CheckHeld
  <2>3. ASSUME ~mixed, LanesInv PROVE LanesInv'
    <3> DEFINE held == HeldIds(Check(found))
    <3>1. idFetch = [info |-> idFetch.info, step |-> idFetch.step, table |-> idFetch.table,
                     wanted |-> idFetch.wanted] /\ OfThisLife(idFetch.info)
      BY <2>2, <2>3
    <3>2. Kept(held) BY <1>1, <2>3, <3>1, HeldIsKept
    <3> HIDE DEF held
    <3>3. idFetch'.info = idFetch.info /\ idFetch'.step = "read" /\ idFetch'.table = held
          /\ idFetch'.wanted = idFetch.info.versions \ DOMAIN held
          /\ idFetch' = [info |-> idFetch'.info, step |-> idFetch'.step, table |-> idFetch'.table,
                         wanted |-> idFetch'.wanted]
      BY <2>1, <3>1 DEF held
    <3> QED BY <1>2, <2>2, <2>3, <3>1, <3>2, <3>3, RegistryFrame DEF OfThisLife, Kept, Former
  <2> QED BY <1>1, <1>2, <2>2, <2>3, LaneStep
<1>6. CASE \E v \in 1..MaxVersion : ReadId(v)
  <2>4. PICK v \in 1..MaxVersion : ReadId(v) BY <1>6
  <2>1. PICK found \in VersionId(v) :
          /\ idFetch # Absent /\ v \in idFetch.wanted
          /\ idFetch' = [idFetch EXCEPT !.wanted = @ \ {v},
                           !.table = IF found = Absent THEN @ ELSE Added(@, v, found)]
    BY <2>4 DEF ReadId
  <2>2. ids' = ids /\ mixed' = mixed BY <1>6 DEF ReadId
  <2>3. ASSUME ~mixed, LanesInv PROVE LanesInv'
    <3> DEFINE more == IF found = Absent THEN idFetch.table ELSE Added(idFetch.table, v, found)
    <3>1. /\ idFetch = [info |-> idFetch.info, step |-> idFetch.step, table |-> idFetch.table,
                        wanted |-> idFetch.wanted]
          /\ OfThisLife(idFetch.info) /\ Kept(idFetch.table)
          /\ idFetch.wanted \subseteq idFetch.info.versions
      BY <2>1, <2>3
    <3>2. Kept(more)
      <4>1. CASE found = Absent BY <3>1, <4>1
      <4>2. CASE found # Absent
        <5>1. v \in DOMAIN registered /\ Own(v, found) BY <1>3, <2>1, <4>2 DEF VersionId
        <5>2. \A w \in DOMAIN Added(idFetch.table, v, found) :
                \/ w = v /\ Added(idFetch.table, v, found)[w] = found
                \/ w \in DOMAIN idFetch.table /\ Added(idFetch.table, v, found)[w] = idFetch.table[w]
          BY DEF Added
        <5> QED BY <1>3, <3>1, <4>2, <5>1, <5>2 DEF Kept
      <4> QED BY <4>1, <4>2
    <3> HIDE DEF more
    <3>3. idFetch'.info = idFetch.info /\ idFetch'.table = more
          /\ idFetch'.wanted = idFetch.wanted \ {v}
          /\ idFetch' = [info |-> idFetch'.info, step |-> idFetch'.step, table |-> idFetch'.table,
                         wanted |-> idFetch'.wanted]
      BY <2>1, <3>1 DEF more
    <3> QED BY <1>2, <2>1, <2>2, <2>3, <3>1, <3>2, <3>3, RegistryFrame DEF OfThisLife, Kept, Former
  <2> QED BY <1>1, <1>2, <2>2, <2>3, LaneStep
<1>7. CASE CommitIds
  <2>1. idFetch # Absent /\ ids' = idFetch.table /\ idFetch' = Absent /\ mixed' = mixed
    BY <1>7 DEF CommitIds
  <2>2. LanesInv => LanesInv'
    BY <1>2, <2>1, RegistryFrame DEF OfThisLife, Kept, Former
  <2> QED BY <1>1, <1>2, <2>1, <2>2, LaneStep
<1>8. CASE IdsGone
  <2>1. ids' = Absent /\ UNCHANGED <<idFetch, mixed>> BY <1>8 DEF IdsGone
  <2>2. LanesInv => LanesInv'
    BY <1>2, <2>1, RegistryFrame DEF OfThisLife, Kept, Former
  <2> QED BY <1>1, <1>2, <2>1, <2>2, LaneStep
<1> QED BY <1>4, <1>5, <1>6, <1>7, <1>8

LEMMA IdsInductive == SchemaSpec => []IdsInv
<1>1. ASSUME IdsInv, [SchemaNext]_schemaVars PROVE IdsInv'
  <2>1. CASE UNCHANGED schemaVars
    <3>1. UNCHANGED registry /\ UNCHANGED <<given, earlier, life, sweep, subject, idFetch, ids, mixed>>
      BY <2>1 DEF schemaVars, registry
    <3>2. LanesInv => LanesInv'
      BY <3>1, RegistryFrame DEF LanesInv, OfThisLife, Kept, Former
    <3> QED BY <1>1, <3>1, <3>2, LaneStep DEF IdsInv
  <2> QED BY <1>1, <2>1, RegisterKeeps, DeleteKeeps, PurgeKeeps, SweepKeeps, IdsLaneKeeps
      DEF SchemaNext
<1> QED BY <1>1, IdsInitially, PTL DEF SchemaSpec

\* Whichever subjects were deleted for good and registered anew, with schemas
\* that the registry knows or not, and however the two lanes interleave: an id
\* that is kept from one poll to the next, on the word of one that was confirmed,
\* is that of the version now, or was kept with one that is the same in both lives.
THEOREM KeptIdsAreOfThisLife == SchemaSpec => IdsOfThisLife
<1> DEFINE Shown == ids' # ids /\ idFetch # Absent /\ idFetch' = Absent /\ ~mixed' =>
                     LET row == SubjectRow(idFetch.info, ids') IN
                     \A v \in DOMAIN row \intersect DOMAIN registered :
                       row[v] \in {Absent, registered[v]} \/ Unnoticed(v, row[v])
<1>1. ASSUME IdsInv, [SchemaNext]_schemaVars PROVE [Shown]_schemaVars
  <2>1. SUFFICES ASSUME SchemaNext, ids' # ids, idFetch # Absent, idFetch' = Absent, ~mixed',
                        NEW v \in idFetch.info.versions, v \in DOMAIN registered
                 PROVE  LET id == SubjectRow(idFetch.info, ids')[v] IN
                        id \in {Absent, registered[v]} \/ Unnoticed(v, id)
    BY <1>1 DEF SubjectRow, schemaVars
  <2>2. ids' = idFetch.table /\ mixed' = mixed
    BY <2>1 DEF SchemaNext, RegisterVersion, DeleteVersion, PurgeSubject, ReadVersions, ReadLatest,
       SubjectGone, StartIds, CheckHeld, ReadId, CommitIds, IdsGone
  <2>3. OfThisLife(idFetch.info) /\ Kept(idFetch.table) /\ Current(registered)
    BY <1>1, <2>1, <2>2 DEF IdsInv, LanesInv, RegistryInv
  <2>4. registered[v] = given[v] BY <2>1, <2>3 DEF Current, Own
  <2> QED BY <2>1, <2>2, <2>3, <2>4 DEF SubjectRow, OfThisLife, Kept, Own
<1> QED BY <1>1, IdsInductive, PTL DEF SchemaSpec, IdsOfThisLife
=============================================================================

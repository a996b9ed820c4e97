---------------------------- MODULE MCFollowers ----------------------------
(* Two that follow what changes, each by itself: the runner of a lane that  *)
(* follows another lane's table, and a page that follows the end of a       *)
(* topic. They share no state, so a behaviour is of one or of the other.    *)
EXTENDS Lane, LiveTail

VARIABLE of

\* A filter that looks at some raw bytes and at some payloads.
Filtered == [hit : BOOLEAN, raw : BOOLEAN]

LaneOnly(step) == of = "lane" /\ step /\ UNCHANGED <<of, allVars>>
TailOnly(step) == of = "tail" /\ step /\ UNCHANGED <<of, vars>>

SumInit ==
    /\ of \in {"lane", "tail"}
    /\ of = "tail" => cluster = {}
    /\ of = "lane" => others = 0
    /\ Init /\ TailInit

SumNext == LaneOnly(Next) \/ TailOnly(TailNext)

\* The fairness of FairSpec and of FairTail.
SumSpec ==
    /\ SumInit /\ [][SumNext]_<<of, vars, allVars>>
    /\ WF_<<of, vars, allVars>>(LaneOnly(Propagate))
    /\ WF_<<of, vars, allVars>>(LaneOnly(RunnerStep))
    /\ \A f \in Followers : WF_<<of, vars, allVars>>(LaneOnly(FollowerStep(f)))
    /\ WF_<<of, vars, allVars>>(TailOnly(Serve))
    /\ WF_<<of, vars, allVars>>(TailOnly(Deliver))
=============================================================================

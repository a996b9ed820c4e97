---------------------------- MODULE SnapshotFeed ----------------------------
(***************************************************************************)
(* What a lane of the cluster store promises to everybody who is not its   *)
(* runner: one table that readers load whole, and a change bus that tells  *)
(* of every table after it can be loaded, never before.                    *)
(*                                                                         *)
(* Lane.tla implements this specification (the refinement is checked by    *)
(* TLC and proved in LaneProofs.tla), and UpdateStream.tla builds the      *)
(* browser's update stream on top of it.                                   *)
(***************************************************************************)
CONSTANTS
    Items,          \* What a table holds: topics, groups, ACLs, quotas...
    None            \* The empty ArcSwapOption of a lane with no table yet

VARIABLES
    view,           \* The table that Lane::load returns
    told            \* The contents the change bus has announced so far

feedVars == <<view, told>>

Tables == SUBSET Items

\* A reader of a lane without a table projects no rows.
Contents(t) == IF t = None THEN {} ELSE t

FeedTypeOK ==
    /\ view \in {None} \cup Tables
    /\ told \in Tables

FeedInit ==
    /\ view = None
    /\ told = {}

\* A poll that read something new replaces the table. The previous change has
\* been announced by then: one runner commits, and it announces as it goes.
Commit(t) ==
    /\ told = Contents(view)
    /\ t # view
    /\ view' = t
    /\ UNCHANGED told

\* The change is announced, and whoever reacts to it loads the new table.
Publish ==
    /\ told # Contents(view)
    /\ told' = Contents(view)
    /\ UNCHANGED view

FeedNext == (\E t \in Tables : Commit(t)) \/ Publish

FeedSpec == FeedInit /\ [][FeedNext]_feedVars
=============================================================================

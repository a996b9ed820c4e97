----------------------------- MODULE GroupAdmin -----------------------------
(***************************************************************************)
(* Consumer groups as the writes on them see them: how klens reads a group, *)
(* and where a reset places its offsets.  A group here is                   *)
(* [state, log, committed]: log has the partitions of the one topic it      *)
(* consumes, each [low, high, late], where late is the first offset at or   *)
(* after the instant that a reset may name (high, when there is none yet).  *)
(***************************************************************************)
EXTENDS Integers, FiniteSetsExt, Bodies

GroupStates == {"Stable", "Idle", "Empty", "Gone"}  \* Idle: holds other topics

\* GroupState::has_members: a state klens cannot read counts as running.
HasMembers(state) == state \notin {"Empty", "Dead"}

\* split_empty_groups: a state that was not listed has to be described.
NeedsDescription(listed) == listed = "unlisted" \/ HasMembers(listed)

\* snapshots_from_descriptions: only an answer says that a group is gone.
FromDescription(state, described) ==
  IF described = "failed" THEN "Unknown" ELSE state

\* What one poll may read: the listing of an older broker has no states.
GroupReads(k) ==
  IF k.state = "Gone" THEN {"Gone"}
  ELSE {IF NeedsDescription(listed) THEN FromDescription(k.state, described)
        ELSE "Empty" :
          listed \in {k.state, "unlisted"}, described \in {"ok", "failed"}}

-----------------------------------------------------------------------------
(* Reset planning *)

Targets == {"Earliest", "Latest", "Timestamp"}
           \union {"offset:0", "offset:9", "shift:-1", "shift:9"}
Number == [t \in {"offset:0", "offset:9", "shift:-1", "shift:9"} |->
             CASE t = "offset:0" -> 0 [] t = "shift:-1" -> -1 [] OTHER -> 9]
Shifts == {"shift:-1", "shift:9"}
NoOffset == -1

\* ResetTarget::place as written by the caller.
PlaceUnclamped(to, from, mark, atTime) ==
  CASE to = "Earliest" -> mark.low
    [] to = "Latest" -> mark.high
    [] to = "Timestamp" -> IF atTime = NoOffset THEN mark.high ELSE atTime
    [] to \in Shifts -> from + Number[to]
    [] OTHER -> Number[to]

\* ResetTarget::place: clamped into the log that the watermarks tell.
Place(to, from, mark, atTime) ==
  LET offset == PlaceUnclamped(to, from, mark, atTime) IN
  Max({mark.low, Min({offset, mark.high})})

\* time_offsets of one partition: -1 when no record is that recent.  A lookup
\* that fails with the same code is no such answer.
TimeOffset(mark) == IF mark.late = mark.high THEN NoOffset ELSE mark.late

\* The partitions of a reset: the ones that were named, those of the topic, or
\* every partition with a commit.
Wanted(r, known, committed) ==
  IF r.topic = "none" THEN {p \in DOMAIN committed : committed[p] # NoOffset}
  ELSE IF r.partitions = {} THEN known ELSE r.partitions

\* plan_reset once everything was read.
Unplaced(r, wanted, committed) ==
  r.to \in Shifts /\ \E p \in wanted : committed[p] = NoOffset
Moves(r, wanted, committed, marks, atTimes) ==
  [p \in wanted |-> Place(r.to, committed[p], marks[p], atTimes[p])]

-----------------------------------------------------------------------------
(* The requests: a reset, the deletion of the commits of the topic, and the *)
(* deletion of the group.                                                   *)

ResetBodies ==
  [op : {"reset_offsets"}, topic : {"named", "none"}, partitions : {{}, {1}, {3}},
   to : Targets, dry_run : BOOLEAN]
DeleteGroupBodies == [op : {"delete_groups"}]
DeleteOffsetsBodies == [op : {"delete_offsets"}]

\* ResetOffsets::into_reset: partitions are of a topic.
IntoReset(r) == IF r.topic = "none" /\ r.partitions # {} THEN Invalid ELSE r

\* The group in the topology and in the offsets.
GroupTable(k) ==
  [state |-> k.state, parts |-> DOMAIN k.log, offsets |-> k.committed]

\* A poll of the topology, of the offsets, or of both.
GroupPolls(k, seen) ==
  {[read EXCEPT !.offsets = offsets] :
     offsets \in {seen.offsets, k.committed},
     read \in {seen} \union {[GroupTable(k) EXCEPT !.state = state] : state \in GroupReads(k)}}

KnownGroup(table) == IF table.state = "Gone" THEN "unknown_group" ELSE "no"

\* stopped_group.
StoppedGroup(table) ==
  IF KnownGroup(table) # "no" THEN KnownGroup(table)
  ELSE IF HasMembers(table.state) THEN "active_group" ELSE "no"

\* A reset that is not only planned needs a stopped group; then the topic is
\* looked up, if one is named.
ResetTo(r, table, named) ==
  LET group == IF r.dry_run THEN KnownGroup(table) ELSE StoppedGroup(table) IN
  IF group # "no" THEN group
  ELSE IF r.topic = "none" THEN "no" ELSE named

\* A group whose state is unknown lists no members, so it consumes nothing.
UnconsumedTopic(table) ==
  IF KnownGroup(table) # "no" THEN KnownGroup(table)
  ELSE IF table.state = "Stable" THEN "consumed_topic" ELSE "no"

\* Commits of klens make a group that is gone again.
AlterGroupOffsets(k, moves, items) ==
  [k EXCEPT !.state = IF @ = "Gone" THEN "Empty" ELSE @,
            !.committed = [p \in DOMAIN @ |-> IF p \in items THEN moves[p] ELSE @[p]]]
DeleteGroupOffsets(k, items) ==
  [k EXCEPT !.committed = [p \in DOMAIN @ |-> IF p \in items THEN NoOffset ELSE @[p]]]
DeleteGroup(k) ==
  [k EXCEPT !.state = "Gone", !.committed = [p \in DOMAIN @ |-> NoOffset]]

\* What Kafka refuses of them.
RefusesGroup(r, k) ==
  CASE r.op = "reset_offsets" -> k.state \in {"Stable", "Idle"}
    [] r.op = "delete_groups" -> k.state # "Empty"
    [] r.op = "delete_offsets" -> k.state \in {"Stable", "Gone"}

ResetShown(moves, table) == \A p \in DOMAIN moves : table.offsets[p] = moves[p]
DeleteOffsetsShown(table) == \A p \in DOMAIN table.offsets : table.offsets[p] = NoOffset
DeleteGroupShown(table) == table.state = "Gone"
=============================================================================

---------------------------- MODULE ClusterWrites ----------------------------
(***************************************************************************)
(* The handlers that change a cluster: topics, configs, records, ACLs,     *)
(* client quotas, SCRAM credentials, consumer groups and schemas.  Each one *)
(* checks the caller, validates its body, looks at the tables klens has,   *)
(* sends its request, and waits for a table to show the change.  What      *)
(* Kafka stores is in the form of the wire; Table reads it back the way    *)
(* the lanes do.  One area of the cluster is live in a behaviour; other    *)
(* clients change it too.                                                  *)
(***************************************************************************)
EXTENDS Access, Errors, TopicAdmin, PrincipalAdmin, GroupAdmin, SchemaAdmin

CONSTANTS MaxRequests, MaxOthers,
          Accesses    \* what the callers may be granted

ASSUME WritesAssumption == {MaxRequests, MaxOthers} \subseteq Nat

VARIABLES area,       \* the part of the cluster that is live
          cluster,
          topic,      \* the one whose configs, records or commits they are
          listed,     \* its partitions in the topology lane, if it is there
          readable,   \* may klens describe the area?
          kafka,      \* what the cluster stores
          seen,       \* the table of the lane
          access,     \* the caller's
          request, stage, answer,
          plan,       \* what the handler has read or been answered so far
          taken,      \* history: the items Kafka took
          disturbed,  \* history: did another client change it since?
          asked, others

progress == <<request, stage, answer, plan>>
history == <<taken, disturbed, asked>>
vars == <<area, cluster, topic, listed, readable, kafka, seen, access, progress, history,
          others>>

None == [op |-> "none"]

-----------------------------------------------------------------------------
(* One handler for all of them: what differs is in the modules of the areas. *)

Table(k) ==
  CASE area = "topics" -> TopicTable(k)
    [] area = "configs" -> ConfigTable(k)
    [] area = "acls" -> AclTable(k, readable)
    [] area = "quotas" -> QuotaTable(k, readable)
    [] area = "scram" -> ScramTable(k, readable)
    [] area = "groups" -> GroupTable(k)
    [] area = "subjects" -> SubjectTable(k, NoSubject)
    [] OTHER -> k

\* What a poll may read.
Reads ==
  CASE area = "groups" -> GroupPolls(kafka, seen)
    [] area = "subjects" -> SubjectReads(kafka, seen)
    [] OTHER -> {Table(kafka)}

Stored ==
  CASE area = "topics" -> {[t \in Topics |-> IF t \in InternalTopics THEN 1 ELSE 0]}
    [] area = "configs" ->
         {[name \in ConfigNames |-> [l \in Levels |-> IF l = "static" THEN "v1" ELSE Unset]]}
    [] area = "records" -> {[p \in 1..2 |-> [low |-> 0, high |-> MaxOffset - 1]]}
    [] area = "acls" -> {{}, {NewerAcl} \union {StoredAcl(acl) : acl \in Acls}}
    [] area = "quotas" ->
         {[e \in {{<<"user", "u">>}, {<<"user", "u">>, <<"client-id", "c">>}} |-> NoValues]}
    [] area = "scram" -> {[m \in Mechanisms |-> 0]}
    [] area = "groups" ->
         [state : GroupStates \ {"Gone"},
          log : {[p \in 1..2 |-> [low |-> 0, high |-> 1, late |-> 1]]},
          committed : {[p \in 1..2 |-> NoOffset], <<1, NoOffset>>}]
    [] area = "subjects" ->
         {[versions |-> <<[schema |-> "x", is |-> "live"]>>, level |-> NoLevel]}
    [] area = "encode" -> References

\* The bodies callers send, valid and not.
Requests ==
  CASE area = "topics" -> CreateTopicBodies \union DeleteTopicBodies \union AddPartitionsBodies
    [] area = "configs" -> TopicConfigBodies \union BrokerConfigBodies
    [] area = "records" -> DeleteRecordsBodies \union ProduceBodies
    [] area = "acls" -> CreateAclsBodies \union DeleteAclBodies
    [] area = "quotas" -> QuotaBodies
    [] area = "scram" -> SetScramBodies \union DeleteScramBodies
    [] area = "groups" -> ResetBodies \union DeleteGroupBodies \union DeleteOffsetsBodies
    [] area = "subjects" -> RegisterBodies \union DeleteSchemaBodies \union CompatibilityBodies
    [] area = "encode" -> [op : {"produce"}, partitions : {{}}]

\* The body of a request, parsed after the caller was checked.
Parsed(r) ==
  CASE r.op = "create_topics" -> IntoTopic(r)
    [] area = "configs" -> IntoEdit(r)
    [] r.op = "delete_records" -> Before(r)
    [] r.op = "create_acls" -> IntoAcls(r)
    [] area = "quotas" -> IntoQuota(r)
    [] r.op = "set_scram_credentials" -> IntoCredential(r)
    [] r.op = "reset_offsets" -> IntoReset(r)
    [] OTHER -> r

\* The topic as the topology lane tells it, with the partitions it has there.
Topology(parts) ==
  [t \in {u \in {topic} : parts # {}} |->
     [partitions |-> parts, internal |-> t \in InternalTopics]]

\* What a handler looks up before it sends anything.
Known(r) ==
  CASE r.op \in {"delete_topics", "add_partitions"} -> WritableTopic(r.topic, seen)
    [] area = "records" -> WritablePartitions(topic, r.partitions, Topology(listed))
    [] r.op = "alter_topic_configs" -> WritableTopic(topic, Topology(listed))
    [] r.op = "alter_broker_configs" -> KnownBroker(r.scope)
    [] area = "acls" -> Sendable(r)
    [] r.op = "reset_offsets" -> ResetTo(r, seen, WritablePartitions(topic, r.partitions,
                                                                Topology(seen.parts)))
    [] r.op = "delete_groups" -> StoppedGroup(seen)
    [] r.op = "delete_offsets" -> UnconsumedTopic(seen)
    [] r.op = "delete_schemas" -> KnownVersion(r, seen)
    [] r.op = "set_compatibility" -> KnownSubject(seen)
    [] OTHER -> "no"

\* The units of a request that Kafka answers for one by one.
Items(r) ==
  CASE r.op = "create_acls" -> r.rows
    [] r.op = "delete_records" -> r.partitions
    [] r.op = "reset_offsets" -> IF r.dry_run THEN {} ELSE DOMAIN plan.moves
    [] r.op = "delete_offsets" -> plan
    [] r.op = "delete_schemas" -> {"soft"} \union IF r.permanent THEN {"hard"} ELSE {}
    [] OTHER -> {r.op}

\* What the cluster makes of the items that it takes.
Take(r, k, items) ==
  CASE r.op = "create_topics" -> CreateTopic(r, k)
    [] r.op = "delete_topics" -> DeleteTopic(r, k)
    [] r.op = "add_partitions" -> AddPartitions(r, k)
    [] area = "configs" -> AlterConfigs(r, k)
    [] r.op = "delete_records" -> DeleteRecords(r, k, items)
    [] r.op = "create_acls" -> CreateAcls(k, items)
    [] r.op = "delete_acls" -> DeleteAcl(k, r)
    [] area = "quotas" -> AlterQuota(r, k)
    [] r.op = "set_scram_credentials" -> SetScram(r, k)
    [] r.op = "delete_scram_credentials" -> DeleteScram(r, k)
    [] r.op = "reset_offsets" -> AlterGroupOffsets(k, plan.moves, items)
    [] r.op = "delete_offsets" -> DeleteGroupOffsets(k, items)
    [] r.op = "delete_groups" -> DeleteGroup(k)
    [] r.op = "register_schemas" -> Register(k, r.schema)
    [] r.op = "set_compatibility" -> SetCompatibility(r, k)

\* What Kafka itself refuses.
Refuses(r, item) ==
  CASE area = "topics" -> RefusesTopic(r, kafka)
    [] r.op = "delete_records" -> item \notin DOMAIN kafka \/ r.before > kafka[item].high
    [] area = "scram" -> RefusesScram(r, kafka)
    [] area = "groups" -> RefusesGroup(r, kafka)
    [] OTHER -> FALSE

\* The predicate that ends the settle of a handler.
Shows(r, table) ==
  CASE r.op = "create_topics" -> CreateTopicShown(r, table)
    [] r.op = "delete_topics" -> DeleteTopicShown(r, table)
    [] r.op = "add_partitions" -> AddPartitionsShown(r, table)
    [] r.op = "alter_topic_configs" -> TopicConfigsShown(r, table)
    [] r.op = "alter_broker_configs" -> BrokerConfigsShown(r, table)
    [] r.op = "delete_records" -> DeleteRecordsShown(plan, table)
    [] r.op = "create_acls" -> CreateAclsShown(r, table)
    [] r.op = "delete_acls" -> DeleteAclShown(r, table)
    [] area = "quotas" -> QuotaShown(r, table)
    [] r.op = "set_scram_credentials" -> SetScramShown(r, table)
    [] r.op = "delete_scram_credentials" -> DeleteScramShown(r, table)
    [] r.op = "reset_offsets" -> ResetShown(plan.moves, table)
    [] r.op = "delete_offsets" -> DeleteOffsetsShown(table)
    [] r.op = "delete_groups" -> DeleteGroupShown(table)
    [] r.op = "register_schemas" -> RegisterShown(plan, table)
    [] r.op = "delete_schemas" -> DeleteSchemaShown(r, table)
    [] r.op = "set_compatibility" -> SetCompatibilityShown(r, table)

Init ==
  /\ area \in {"topics", "configs", "records", "acls", "quotas", "scram", "groups",
               "subjects", "encode"}
  /\ readable \in (IF area \in {"acls", "quotas", "scram"} THEN BOOLEAN ELSE {TRUE})
  /\ kafka \in Stored /\ seen = Table(kafka)
  /\ topic \in IF area \in {"configs", "records", "groups"} THEN Topics ELSE {"none"}
  /\ listed \in CASE area = "configs" -> {{}, {1}}
                   [] area = "records" -> {{}, {1}, 1..3}
                   [] OTHER -> {{}}
  /\ access \in Accesses /\ cluster \in Configured
  /\ request = None /\ stage = "idle" /\ answer = "none" /\ plan = <<>>
  /\ taken = {} /\ disturbed = FALSE /\ asked = 0 /\ others = 0

Finish(how) == stage' = "idle" /\ answer' = how

\* The handler up to its first await: cluster and capability, then the body,
\* then the tables.
Submit(raw) ==
  LET refusal == RefusedWrite(access, cluster, raw.op)
      r == Parsed(raw) IN
  /\ stage = "idle" /\ asked < MaxRequests
  /\ asked' = asked + 1 /\ request' = raw /\ plan' = <<>> /\ taken' = {}
  /\ \/ refusal # "no" /\ Finish(refusal)
     \/ refusal = "no" /\ r = Invalid /\ Finish("unprocessable")
     \/ /\ refusal = "no" /\ r # Invalid /\ Known(r) # "no"
        /\ Finish(Known(r))
  /\ UNCHANGED <<area, cluster, topic, listed, readable, kafka, seen, access,
                 disturbed, others>>

\* Without partitions, a reset of the topic or a deletion is for those that the
\* topology lists.
Resolved(r) ==
  IF r.op \notin {"reset_offsets", "delete_records"} THEN r
  ELSE IF r.partitions # {} THEN r
  ELSE IF r.op = "delete_records" THEN [r EXCEPT !.partitions = listed]
  ELSE IF r.topic = "none" THEN r ELSE [r EXCEPT !.partitions = seen.parts]

Admitted(raw) ==
  LET r == Parsed(raw) IN
  /\ stage = "idle" /\ asked < MaxRequests
  /\ RefusedWrite(access, cluster, raw.op) = "no"
  /\ r # Invalid /\ Known(r) = "no"
  /\ asked' = asked + 1 /\ answer' = "none" /\ taken' = {}
  /\ request' = Resolved(r)
  /\ stage' = IF r.op \in {"reset_offsets", "delete_offsets"} THEN "plan"
              ELSE IF area = "encode" THEN "fetch" ELSE "send"
  /\ plan' = IF area = "encode" THEN NoWalk(kafka) ELSE <<>>
  /\ disturbed' = FALSE
  /\ UNCHANGED <<area, cluster, topic, listed, readable, kafka, seen, access, others>>

\* The error of the first item is taken for the answer of all.
FirstItem(items, failed) == items \subseteq failed

\* refused, by try_for_each: the request fails if one of its items does.
AnyFailed(items, failed) == failed # {}

\* refused, produce_refusal, RegistryClient::refusal.
Refusal == IF area = "subjects" THEN "registry_refused" ELSE "refused"

\* A request that was not answered in time.
Lost == IF area = "subjects" THEN "schema_registry" ELSE "timeout"

\* Kafka takes some of the items and refuses the others, for reasons of its
\* own too; the rest of the request is not undone.  Or it does not answer in
\* time, whatever it took.
Send(failed) ==
  LET items == Items(request) IN
  /\ stage = "send" /\ request.op \notin {"produce", "delete_schemas"}
  /\ failed \subseteq items
  /\ {item \in items : Refuses(request, item)} \subseteq failed
  /\ kafka' = IF items = failed THEN kafka ELSE Take(request, kafka, items \ failed)
  /\ taken' = items \ failed
  /\ plan' = IF request.op # "delete_records" THEN plan
             ELSE [p \in items \ failed |-> kafka'[p].low]
  /\ \/ AnyFailed(items, failed) /\ Finish(Refusal)
     \/ Finish(Lost)
     \/ /\ ~AnyFailed(items, failed)
        /\ stage' = IF request.op = "register_schemas" THEN "lookup" ELSE "settle"
        /\ answer' = "none"
  /\ UNCHANGED <<area, cluster, topic, listed, readable, seen, access, request,
                 disturbed, asked, others>>

Keep(more) ==
  more /\ UNCHANGED <<area, cluster, topic, listed, readable, seen, access, request,
                      disturbed, asked, others>>
KeepKafka(more) == Keep(more /\ UNCHANGED <<kafka, taken>>)

\* plan_reset and delete_offsets read the commits of the group first.
ReadCommitted ==
  LET wanted == Wanted(request, request.partitions, kafka.committed)
      held == {p \in DOMAIN kafka.committed : kafka.committed[p] # NoOffset} IN
  /\ stage = "plan"
  /\ KeepKafka(
       IF request.op = "delete_offsets"
       THEN /\ plan' = held
            /\ IF held = {} THEN Finish("ok") ELSE stage' = "send" /\ answer' = answer
       ELSE /\ plan' = [wanted |-> wanted, committed |-> kafka.committed]
            /\ stage' = "marks" /\ answer' = answer)

\* What a plan comes to: an error, an answer, or the request.
Planned(marks, atTimes) ==
  LET moves == Moves(request, plan.wanted, plan.committed, marks, atTimes) IN
  IF Unplaced(request, plan.wanted, plan.committed)
  THEN Finish("no_committed_offset") /\ UNCHANGED plan
  ELSE /\ plan' = [moves |-> moves, marks |-> marks]
       /\ IF request.dry_run \/ DOMAIN moves = {} THEN Finish("ok")
          ELSE stage' = "send" /\ answer' = answer

\* complete_watermarks; a partition that is gone by now has none.
ReadMarks ==
  /\ stage = "marks"
  /\ KeepKafka(
       IF ~(plan.wanted \subseteq DOMAIN kafka.log)
       THEN Finish("unknown_partition") /\ UNCHANGED plan
       ELSE IF request.to = "Timestamp"
       THEN /\ plan' = [wanted |-> plan.wanted, committed |-> plan.committed,
                        marks |-> kafka.log]
            /\ stage' = "times" /\ answer' = answer
       ELSE Planned(kafka.log, [p \in plan.wanted |-> NoOffset]))

\* offsets_for_times, later than the watermarks.
ReadTimes ==
  /\ stage = "times"
  /\ KeepKafka(
       Planned(plan.marks,
               [p \in plan.wanted |->
                  IF p \in DOMAIN kafka.log THEN TimeOffset(kafka.log[p]) ELSE NoOffset]))

\* A read that fails, or fails for one of its partitions, fails the request.
ReadFails ==
  /\ stage \in {"plan", "marks", "times", "fetch", "lookup"}
  /\ KeepKafka(Finish(IF area \in {"subjects", "encode"} THEN "schema_registry" ELSE "admin")
               /\ UNCHANGED plan)

\* RegistryClient::delete: softly first, as the registry asks; what was
\* deleted softly before can still be deleted for good.  The registry may
\* refuse, or not answer, whatever it took.
SoftDelete ==
  LET named == NamedVersions(kafka, request) \cap LiveVersions(kafka)
      soft == NamedVersions(kafka, request) \cap Having(kafka, "soft") IN
  /\ stage = "send" /\ request.op = "delete_schemas"
  /\ Keep(/\ UNCHANGED plan
          /\ \/ /\ named # {} \/ (soft # {} /\ request.permanent)
                /\ kafka' = Mark(kafka, named, "live", "soft") /\ taken' = {"soft"}
                /\ \/ /\ answer' = answer
                      /\ stage' = IF request.permanent THEN "hard" ELSE "settle"
                   \/ Finish(Lost)
             \/ /\ UNCHANGED <<kafka, taken>>
                /\ \/ named = {} /\ (soft = {} \/ ~request.permanent)
                      /\ Finish("unknown_subject")
                   \/ Finish(Refusal) \/ Finish(Lost))

HardDelete ==
  LET soft == NamedVersions(kafka, request) \cap Having(kafka, "soft") IN
  /\ stage = "hard"
  /\ Keep(/\ UNCHANGED plan
          /\ \/ /\ soft # {} /\ kafka' = Mark(kafka, soft, "soft", "hard")
                /\ taken' = taken \union {"hard"}
                /\ \/ stage' = "settle" /\ answer' = answer
                   \/ Finish(Lost)
             \/ /\ UNCHANGED <<kafka, taken>>
                /\ \/ soft = {} /\ Finish("unknown_subject")
                   \/ soft # {} /\ Finish(Refusal)
                   \/ Finish(Lost))

\* register asks for the version of what it registered.
LookUp ==
  LET found == Lookup(kafka, request.schema) IN
  /\ stage = "lookup"
  /\ KeepKafka(IF found = {} THEN Finish("schema_registry") /\ UNCHANGED plan
               ELSE plan' = Max(found) /\ stage' = "settle" /\ answer' = answer)

\* encode reads the schemas its schema refers to, in waves, and orders them;
\* what is encoded with them is produced like any other record.
FetchWave ==
  /\ stage = "fetch"
  /\ KeepKafka(/\ answer' = answer
               /\ IF plan.pending \ plan.fetched = {} THEN plan' = plan /\ stage' = "order"
                  ELSE plan' = Wave(plan, kafka) /\ stage' = stage)

OrderStep ==
  /\ stage = "order"
  /\ KeepKafka(/\ answer' = answer
               /\ IF plan.visits = <<>> THEN plan' = plan /\ stage' = "encoded"
                  ELSE plan' = Visit(plan, kafka) /\ stage' = stage)

\* produce: a partition of the caller's, or one the producer picks; no settle.
Produce(p) ==
  /\ stage = "send" /\ request.op = "produce"
  /\ p \in IF request.partitions = {} THEN DOMAIN kafka ELSE request.partitions
  /\ kafka[p].high < MaxOffset
  /\ kafka' = [kafka EXCEPT ![p].high = @ + 1]
  /\ taken' = Items(request)
  /\ Finish("ok")
  /\ UNCHANGED <<area, cluster, topic, listed, readable, seen, access, request, plan,
                 disturbed, asked, others>>

ProduceFails ==
  /\ stage = "send" /\ request.op = "produce"
  /\ Finish("refused") \/ Finish("timeout")
  /\ UNCHANGED <<area, cluster, topic, listed, readable, kafka, seen, access, request,
                 plan, history, others>>

\* The lane polls; a settle ends when its table shows the change, or in time.
Poll ==
  /\ seen' \in Reads
  /\ UNCHANGED <<area, cluster, topic, listed, readable, kafka, access, progress,
                 history, others>>

\* The topology lane polls, which a settle of another lane does not wait for.
PollTopology ==
  /\ listed' = CASE area = "configs" -> {1} [] area = "records" -> DOMAIN kafka
                 [] OTHER -> {}
  /\ UNCHANGED <<area, cluster, topic, readable, kafka, seen, access, progress, history,
                 others>>

Settled ==
  /\ stage = "settle" /\ Shows(request, seen)
  /\ Finish("ok")
  /\ UNCHANGED <<area, cluster, topic, listed, readable, kafka, seen, access, request,
                 plan, history, others>>

SettleTimesOut ==
  /\ stage = "settle" /\ ~Shows(request, seen)
  /\ Finish("ok")
  /\ UNCHANGED <<area, cluster, topic, listed, readable, kafka, seen, access, request,
                 plan, history, others>>

\* A record at the end of a partition, of the instant or later if more is 1; and a
\* retention that leaves nothing.
Grown(k, p, more) ==
  [k EXCEPT !.log[p] = [low |-> @.low, high |-> @.high + 1, late |-> @.late + more]]
Expired(k, p) == [k EXCEPT !.log[p] = [low |-> @.high, high |-> @.high, late |-> @.high]]

\* Consumers that commit, come and go, producers, retention and a deleted topic.
GroupChanges(k) ==
  {[k EXCEPT !.state = state] : state \in GroupStates}
  \union {[k EXCEPT !.committed[p] = k.log[p].high] : p \in DOMAIN k.log}
  \union (UNION {{Grown(k, p, 0), Grown(k, p, 1)} :
                   p \in {p \in DOMAIN k.log : /\ k.log[p].high < MaxOffset
                                               /\ k.log[p].late = k.log[p].high}})
  \union {Expired(k, p) : p \in DOMAIN k.log}
  \union {[k EXCEPT !.log = <<>>]}

\* What other clients make of the area: versions that come and go for a subject;
\* and the requests that klens sends as well.
OthersMake ==
  CASE area = "groups" -> GroupChanges(kafka)
    [] area = "subjects" ->
         {Register(kafka, schema) : schema \in Schemas}
         \union {Mark(kafka, {v}, from, IF from = "live" THEN "soft" ELSE "hard") :
                   v \in DOMAIN kafka.versions, from \in {"live", "soft"}}
    [] area = "encode" -> {}
    [] OTHER ->
         LET made(r) == Take(r, kafka, Items(r))
             sent == {Parsed(r) : r \in Requests} \ {Invalid} IN
         {made(r) : r \in {r \in sent : /\ r.op # "produce"
                                        /\ \/ Known(r) = "no"
                                           \/ area \in {"topics", "configs", "records"}
                                        /\ \A item \in Items(r) : ~Refuses(r, item)}}

OtherClient ==
  /\ others < MaxOthers /\ kafka' \in OthersMake
  /\ disturbed' = TRUE /\ others' = others + 1
  /\ UNCHANGED <<area, cluster, topic, listed, readable, seen, access, progress, taken,
                 asked>>

Next ==
  \/ \E r \in Requests : Submit(r) \/ Admitted(r)
  \/ ReadCommitted \/ ReadMarks \/ ReadTimes \/ ReadFails
  \/ SoftDelete \/ HardDelete \/ LookUp \/ FetchWave \/ OrderStep
  \/ OtherClient
  \/ stage = "send" /\ \E failed \in SUBSET Items(request) : Send(failed)
  \/ \E p \in 1..2 : Produce(p)
  \/ ProduceFails \/ Poll \/ PollTopology \/ Settled \/ SettleTimesOut

Spec == Init /\ [][Next]_vars

-----------------------------------------------------------------------------
\* A settle can end: as long as nobody else changes the cluster, a table read
\* back from it shows what was asked for, whatever the wire made of it (but a
\* registry takes a level for a subject that was gone before it was asked).
SettleCanEnd ==
  /\ stage = "settle" /\ ~disturbed /\ readable
  /\ request.op = "set_compatibility" => LiveVersions(kafka) # {}
  => Shows(request, Table(kafka))

\* What klens sends changes what the caller named and nothing else of the
\* cluster: no filter takes more rows than the one that was named, no default
\* is written where a level was meant, no other partition or version moves.
Untouched ==
  CASE area = "topics" -> \A t \in Topics \ {request.topic} : kafka'[t] = kafka[t]
    [] area = "configs" ->
         \A name \in ConfigNames : \A l \in Levels :
           l # request.scope \/ name \notin DOMAIN request.set \union request.reset
             => kafka'[name][l] = kafka[name][l]
    [] area = "records" ->
         \A p \in DOMAIN kafka :
           request.partitions = {} \/ p \in request.partitions \/ kafka'[p] = kafka[p]
    [] area = "acls" ->
         \A row \in (kafka \ kafka') \union (kafka' \ kafka) :
           row \in {[acl EXCEPT !.pattern = 3] : acl \in request.rows}
    [] area = "quotas" ->
         \A e \in DOMAIN kafka : e # Range(request.entity) => kafka'[e] = kafka[e]
    [] area = "scram" ->
         \A m \in DOMAIN kafka : m # request.mechanism => kafka'[m] = kafka[m]
    [] area = "groups" ->
         /\ kafka'.log = kafka.log
         /\ request.op = "reset_offsets" /\ request.topic # "none" =>
              \A p \in DOMAIN kafka.committed \ request.partitions :
                kafka'.committed[p] = kafka.committed[p]
    [] area = "subjects" ->
         /\ \A v \in DOMAIN kafka.versions \ Having(kafka, "hard") :
              request.op # "delete_schemas" \/ request.version \notin {0, v} =>
                v \in DOMAIN kafka'.versions /\ kafka'.versions[v] = kafka.versions[v]
         /\ request.op # "set_compatibility" => kafka'.level = kafka.level
    [] area = "encode" -> FALSE

OnlyWhatWasNamed == [][kafka' # kafka /\ others' = others => Untouched]_vars

\* An answer of success means that Kafka took every item of the request: one
\* that it refused is told, although the others were taken.  And an answer that
\* puts it down to the request (a 4xx), but for what Kafka or the registry
\* refused itself, means that nothing of it was taken: the caller can correct
\* it and ask again.  (A version that another client has just deleted for good
\* is told as unknown although klens deleted it softly before.)
OkMeansTaken ==
  /\ answer = "ok" => taken = Items(request)
  /\ /\ answer \in ApiErrors /\ Status(answer) \in 400..499
     /\ answer \notin {"refused", "registry_refused"} /\ ~disturbed
     => taken = {}

\* The topics that exist and that a request is to change, with their configs,
\* their records and the commits of a group in them.
NamedTopics(r) ==
  IF r.op \in {"delete_topics", "add_partitions"} THEN {r.topic}
  ELSE IF r.op = "alter_topic_configs" \/ area = "records" THEN {topic}
  ELSE IF r.op = "reset_offsets" THEN IF r.topic = "none" THEN {} ELSE {topic}
  ELSE {}

\* Whatever klens changes, at the end of however many reads, belongs to a caller
\* with the privilege on that cluster, which is not read-only, and is nothing of
\* an internal topic, however old the table that the topic was looked up in.
ChangesAreAdmitted ==
  [][kafka' # kafka /\ others' = others =>
       /\ cluster \in WritableClusters
       /\ Allows(access, cluster, request.op)
       /\ NamedTopics(request) \cap InternalTopics = {}]_vars

\* A reset commits offsets of the log that it read, whatever the caller asked
\* for and whatever moved meanwhile; one to an instant leaves no record of that
\* instant or later behind it.
ResetInLog ==
  request.op = "reset_offsets" /\ plan # <<>> /\ "moves" \in DOMAIN plan =>
    \A p \in DOMAIN plan.moves :
      /\ plan.moves[p] \in plan.marks[p].low..plan.marks[p].high
      /\ request.to = "Timestamp" /\ p \in DOMAIN kafka.log =>
           \A o \in kafka.log[p].low..(plan.moves[p] - 1) : o < kafka.log[p].late

\* A codec gets every schema that is referred to, once, and after the ones it
\* refers to itself (unless they refer to each other in a circle).
ReferencesFirst ==
  stage = "encoded" =>
    LET at(s) == {i \in DOMAIN plan.ordered : plan.ordered[i] = s} IN
    /\ \A s \in Reachable(kafka, RootSchema) : Cardinality(at(s)) = 1
    /\ Acyclic(kafka) =>
         \A i \in DOMAIN plan.ordered : \A s \in Range(kafka[plan.ordered[i]]) :
           \E j \in at(s) : j < i
=============================================================================

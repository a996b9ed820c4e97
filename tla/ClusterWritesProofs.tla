------------------------- MODULE ClusterWritesProofs -------------------------
(***************************************************************************)
(* Proofs about ClusterWrites for every policy, every set of topics and    *)
(* brokers, every graph of references between schemas, and every number of *)
(* requests and of changes by other clients.                               *)
(***************************************************************************)
EXTENDS ClusterWrites, FiniteSetTheorems, WellFoundedInduction, TLAPS

Areas == {"topics", "configs", "records", "acls", "quotas", "scram", "groups",
          "subjects", "encode"}
Stages == {"idle", "plan", "marks", "times", "send", "hard", "lookup", "fetch", "order",
           "encoded", "settle"}

\* The handlers of an area.
Ops(a) ==
  CASE a = "topics" -> {"create_topics", "delete_topics", "add_partitions"}
    [] a = "configs" -> {"alter_topic_configs", "alter_broker_configs"}
    [] a = "records" -> {"delete_records", "produce"}
    [] a = "acls" -> {"create_acls", "delete_acls"}
    [] a = "quotas" -> {"alter_quotas"}
    [] a = "scram" -> {"set_scram_credentials", "delete_scram_credentials"}
    [] a = "groups" -> {"reset_offsets", "delete_groups", "delete_offsets"}
    [] a = "subjects" -> {"register_schemas", "delete_schemas", "set_compatibility"}
    [] a = "encode" -> {"produce"}

\* What is kept of the areas whose shape the handlers rely on.
AclRows == [name : {"a", "*"}, pattern : {2, 3}, operation : {"Read", "newer"}]
Spans == {m \in [low : Nat, high : Nat, late : Nat] : m.low <= m.late /\ m.late <= m.high}
Logs == UNION {[parts -> Spans] : parts \in SUBSET (1..2)}
Commits == [1..2 -> Int]
GroupData == [state : GroupStates, log : Logs, committed : Commits]
Versions == Seq([schema : Schemas, is : {"live", "soft", "hard"}])
SubjectData == [versions : Versions, level : CompatibilityLevels \union {NoLevel}]
Resets == [op : {"reset_offsets"}, topic : {"named", "none"}, partitions : SUBSET (1..2),
           to : Targets, dry_run : BOOLEAN]

------------------------------------------------------------------------------
(* The inductive invariant.                                                  *)

Places ==
  /\ area \in Areas /\ stage \in Stages /\ others \in Nat
  /\ request.op \in Ops(area) \union {"none"}

\* What the cluster stores, and what klens has read of it, keeps its shape.
KafkaFits(k) ==
  /\ area = "topics" => DOMAIN k = Topics
  /\ area = "records" => DOMAIN k = 1..2
  /\ area = "acls" => k \subseteq AclRows
  /\ area = "groups" => k \in GroupData
  /\ area = "subjects" => k \in SubjectData

SeenFits(table) ==
  /\ area = "topics" => \A t \in DOMAIN table : table[t].internal <=> t \in InternalTopics
  /\ area = "records" => DOMAIN table = 1..2
  /\ area = "groups" => table \in [state : GroupStates \union {"Unknown"},
                                   parts : SUBSET (1..2), offsets : Commits]

Shapes == KafkaFits(kafka) /\ SeenFits(seen)

\* A request that was let in: the caller may send it, and its body has been checked
\* against the tables klens had.
Fits(r) ==
  /\ r.op \in Ops(area)
  /\ NamedTopics(r) \cap InternalTopics = {}
  /\ area = "acls" => r.rows \subseteq {acl \in Acls : acl.pattern = "Literal"}
  /\ r.op = "reset_offsets" => r \in Resets
  /\ r.op = "delete_schemas" => r \in DeleteSchemaBodies
  /\ r.op = "register_schemas" => r \in RegisterBodies
  /\ r.op = "set_compatibility" => r \in CompatibilityBodies

Underway ==
  stage # "idle" =>
    /\ RefusedWrite(access, cluster, request.op) = "no" /\ Fits(request)
    /\ stage = "plan" => request.op \in {"reset_offsets", "delete_offsets"}
    /\ stage \in {"marks", "times"} => request.op = "reset_offsets"
    /\ stage = "lookup" => request.op = "register_schemas"
    /\ stage = "hard" => request.op = "delete_schemas" /\ request.permanent
    /\ area = "encode" => stage \in {"fetch", "order", "encoded"}
    /\ stage \in {"fetch", "order", "encoded"} => area = "encode"

\* What Kafka has taken of a request, by how far its handler is.
Taken ==
  /\ stage \in {"plan", "marks", "times", "send", "fetch", "order", "encoded"} => taken = {}
  /\ stage = "hard" =>
       /\ taken = {"soft"}
       /\ ~disturbed => NamedVersions(kafka, request) \cap Having(kafka, "soft") # {}
  /\ stage \in {"lookup", "settle"} => taken = Items(request)
  /\ stage # "idle" => answer = "none"

\* A reset has read nothing yet, or the commits, or the commits and the watermarks, or
\* it is placed. The log has only moved on since it was read.
Moving(marks, p) ==
  p \in DOMAIN kafka.log => /\ marks[p].low <= kafka.log[p].low
                            /\ marks[p].high <= kafka.log[p].high
Placed(marks, moves, p) ==
  /\ moves[p] \in marks[p].low..marks[p].high
  /\ request.to = "Timestamp" /\ p \in DOMAIN kafka.log => moves[p] <= kafka.log[p].late

NamedOnly(parts) == request.topic # "none" => parts \subseteq request.partitions

PlanRead == plan \in [wanted : SUBSET (1..2), committed : Commits] /\ NamedOnly(plan.wanted)
PlanMarked ==
  /\ plan \in [wanted : SUBSET (1..2), committed : Commits, marks : Logs]
  /\ NamedOnly(plan.wanted) /\ request.to = "Timestamp"
  /\ plan.wanted \subseteq DOMAIN plan.marks
  /\ \A p \in plan.wanted : Moving(plan.marks, p)
PlanMade ==
  /\ plan \in [moves : UNION {[parts -> Int] : parts \in SUBSET (1..2)}, marks : Logs]
  /\ NamedOnly(DOMAIN plan.moves) /\ DOMAIN plan.moves \subseteq DOMAIN plan.marks
  /\ \A p \in DOMAIN plan.moves : Placed(plan.marks, plan.moves, p)

Planning ==
  request.op = "reset_offsets" =>
    /\ plan = <<>> \/ PlanRead \/ PlanMarked \/ PlanMade
    /\ stage = "marks" => PlanRead
    /\ stage = "times" => PlanMarked
    /\ stage \in {"send", "settle"} => PlanMade

WritesInv == Places /\ Shapes /\ Underway /\ Taken /\ OkMeansTaken /\ Planning

------------------------------------------------------------------------------
(* Requests.                                                                 *)

\* Filling in the iterations of a credential leaves its operation.
LEMMA EditKeepsOp ==
  ASSUME NEW O, NEW M, NEW I, NEW W,
         NEW r \in [op : O, mechanism : M, iterations : I, password : W]
  PROVE  \A n : [r EXCEPT !.iterations = n].op = r.op
OBVIOUS

\* An area has its own handlers, and a parser keeps the operation.
LEMMA RequestOps ==
  ASSUME Places, NEW raw \in Requests
  PROVE  raw.op \in Ops(area) /\ (Parsed(raw) # Invalid => Parsed(raw).op = raw.op)
<1>1. CASE area = "topics"
  <2>1. raw \in CreateTopicBodies \union DeleteTopicBodies \union AddPartitionsBodies
    BY <1>1 DEF Requests
  <2>2. raw.op \in Ops(area)
    BY <1>1, <2>1 DEF Ops, CreateTopicBodies, DeleteTopicBodies, AddPartitionsBodies
  <2>3. Parsed(raw) \in {raw, Invalid} BY <1>1, <2>2 DEF Ops, Parsed, IntoTopic
  <2> QED BY <2>2, <2>3
<1>2. CASE area = "configs"
  <2>1. raw \in TopicConfigBodies \union BrokerConfigBodies BY <1>2 DEF Requests
  <2>2. raw.op \in Ops(area)
    BY <1>2, <2>1 DEF Ops, TopicConfigBodies, BrokerConfigBodies, EditBody
  <2>3. Parsed(raw) \in {raw, Invalid} BY <1>2, <2>2 DEF Ops, Parsed, IntoEdit
  <2> QED BY <2>2, <2>3
<1>3. CASE area = "records"
  <2>1. raw \in DeleteRecordsBodies \union ProduceBodies BY <1>3 DEF Requests
  <2>2. raw.op \in Ops(area) BY <1>3, <2>1 DEF Ops, DeleteRecordsBodies, ProduceBodies
  <2>3. Parsed(raw) \in {raw, Invalid} BY <1>3, <2>2 DEF Ops, Parsed, Before
  <2> QED BY <2>2, <2>3
<1>4. CASE area = "acls"
  <2>1. raw \in CreateAclsBodies \union DeleteAclBodies BY <1>4 DEF Requests
  <2>2. raw.op \in Ops(area) BY <1>4, <2>1 DEF Ops, CreateAclsBodies, DeleteAclBodies
  <2>3. Parsed(raw) \in {raw, Invalid} BY <1>4, <2>2 DEF Ops, Parsed, IntoAcls
  <2> QED BY <2>2, <2>3
<1>5. CASE area = "quotas"
  <2>1. raw \in QuotaBodies BY <1>5 DEF Requests
  <2>2. raw.op = "alter_quotas" BY <2>1 DEF QuotaBodies
  <2>3. Parsed(raw) = IntoQuota(raw) BY <1>5, <2>2 DEF Parsed
  <2>4. [raw EXCEPT !.entity = SortByKey(Range(raw.entity))].op = raw.op
    BY <2>1 DEF QuotaBodies
  <2>5. IntoQuota(raw) # Invalid => IntoQuota(raw).op = raw.op BY <2>4 DEF IntoQuota
  <2> QED BY <1>5, <2>2, <2>3, <2>5 DEF Ops
<1>6. CASE area = "scram"
  <2>1. raw \in SetScramBodies \union DeleteScramBodies BY <1>6 DEF Requests
  <2>2. /\ raw \in SetScramBodies => raw.op = "set_scram_credentials"
        /\ raw \in DeleteScramBodies => raw.op = "delete_scram_credentials"
    <3>1. ASSUME raw \in SetScramBodies PROVE raw.op = "set_scram_credentials"
      BY <3>1 DEF SetScramBodies
    <3>2. ASSUME raw \in DeleteScramBodies PROVE raw.op = "delete_scram_credentials"
      BY <3>2 DEF DeleteScramBodies
    <3> QED BY <3>1, <3>2
  <2>3. CASE raw.op = "set_scram_credentials"
    <3>1. raw \in SetScramBodies BY <2>1, <2>2, <2>3
    <3>2. \A n : [raw EXCEPT !.iterations = n].op = raw.op
      BY <3>1, EditKeepsOp DEF SetScramBodies
    <3>3. Parsed(raw) = IntoCredential(raw) BY <1>6, <2>3 DEF Parsed
    <3>4. IntoCredential(raw) # Invalid => IntoCredential(raw).op = raw.op
      BY <3>2 DEF IntoCredential
    <3> QED BY <1>6, <2>3, <3>3, <3>4 DEF Ops
  <2>4. CASE raw.op # "set_scram_credentials"
    BY <1>6, <2>1, <2>2, <2>4 DEF Ops, Parsed
  <2> QED BY <2>3, <2>4
<1>7. CASE area = "groups"
  <2>1. raw \in ResetBodies \union DeleteGroupBodies \union DeleteOffsetsBodies
    BY <1>7 DEF Requests
  <2>2. raw.op \in Ops(area)
    BY <1>7, <2>1 DEF Ops, ResetBodies, DeleteGroupBodies, DeleteOffsetsBodies
  <2>3. Parsed(raw) \in {raw, Invalid} BY <1>7, <2>2 DEF Ops, Parsed, IntoReset
  <2> QED BY <2>2, <2>3
<1>8. CASE area = "subjects"
  <2>1. raw \in RegisterBodies \union DeleteSchemaBodies \union CompatibilityBodies
    BY <1>8 DEF Requests
  <2>2. raw.op \in Ops(area)
    BY <1>8, <2>1 DEF Ops, RegisterBodies, DeleteSchemaBodies, CompatibilityBodies
  <2>3. Parsed(raw) = raw BY <1>8, <2>2 DEF Ops, Parsed
  <2> QED BY <2>2, <2>3
<1>9. CASE area = "encode"
  <2>1. raw.op = "produce" BY <1>9 DEF Requests
  <2>2. Parsed(raw) = raw BY <1>9, <2>1 DEF Parsed
  <2> QED BY <1>9, <2>1, <2>2 DEF Ops
<1> QED BY <1>1, <1>2, <1>3, <1>4, <1>5, <1>6, <1>7, <1>8, <1>9 DEF Places, Areas

\* A topic that the topology lets a write through for is not an internal one, and has
\* the partitions that were named.
LEMMA ListedFits ==
  ASSUME NEW parts
  PROVE  /\ WritableTopic(topic, Topology(parts)) = "no" => topic \notin InternalTopics
         /\ \A named : WritablePartitions(topic, named, Topology(parts)) = "no" =>
              topic \notin InternalTopics /\ named \subseteq parts
BY DEF WritablePartitions, WritableTopic, Topology

\* A body that is parsed and known to the tables is one its handler can send: never
\* one for an internal topic, and never an ACL that the wire cannot carry.
LEMMA KnownFits ==
  ASSUME Places, Shapes, NEW raw \in Requests, Parsed(raw) # Invalid,
         Known(Parsed(raw)) = "no"
  PROVE  LET r == Parsed(raw) IN
         /\ r.op \in Ops(area)
         /\ NamedTopics(r) \cap InternalTopics = {}
         /\ area = "acls" => r.rows \subseteq {acl \in Acls : acl.pattern = "Literal"}
         /\ r.op = "reset_offsets" =>
              /\ r \in [op : {"reset_offsets"}, topic : {"named", "none"}, dry_run : BOOLEAN,
                        to : Targets, partitions : {{}, {1}, {3}}]
              /\ area = "groups" /\ r.partitions \subseteq seen.parts
         /\ r.op = "delete_schemas" => r \in DeleteSchemaBodies
         /\ r.op = "register_schemas" => r \in RegisterBodies
         /\ r.op = "set_compatibility" => r \in CompatibilityBodies
<1> DEFINE r == Parsed(raw)
<1>1. r.op = raw.op /\ r.op \in Ops(area) BY RequestOps
<1>2. CASE area = "topics"
  <2>1. r.op \in {"create_topics", "delete_topics", "add_partitions"} BY <1>1, <1>2 DEF Ops
  <2>2. ASSUME r.op # "create_topics" PROVE r.topic \notin InternalTopics
    <3>1. Known(r) = WritableTopic(r.topic, seen) BY <1>2, <2>1, <2>2 DEF Known
    <3>2. r.topic \in DOMAIN seen /\ ~seen[r.topic].internal BY <3>1 DEF WritableTopic
    <3> QED BY <1>2, <3>2 DEF Shapes, SeenFits
  <2>3. NamedTopics(r) \subseteq IF r.op = "create_topics" THEN {} ELSE {r.topic}
    BY <1>2, <2>1 DEF NamedTopics
  <2>4. NamedTopics(r) \cap InternalTopics = {} BY <2>2, <2>3
  <2> QED BY <1>1, <1>2, <2>1, <2>4
<1>3. CASE area = "acls"
  <2>1. r.op \in {"create_acls", "delete_acls"} BY <1>1, <1>3 DEF Ops
  <2>2. raw \in CreateAclsBodies \union DeleteAclBodies BY <1>3 DEF Requests
  <2>3. raw.rows \subseteq Acls BY <2>2 DEF CreateAclsBodies, DeleteAclBodies
  <2>4. r = raw BY <1>1, <1>3, <2>1 DEF Parsed, IntoAcls
  <2>5. Known(r) = Sendable(r) BY <1>3, <2>1 DEF Known
  <2>6. \A acl \in r.rows : ToKrafka(acl.pattern) # "error" BY <2>5 DEF Sendable
  <2>7. \A acl \in r.rows : acl \in Acls /\ acl.pattern = "Literal"
    BY <2>3, <2>4, <2>6 DEF ToKrafka
  <2>8. NamedTopics(r) = {} BY <1>3, <2>1 DEF NamedTopics
  <2> QED BY <1>1, <1>3, <2>1, <2>7, <2>8
<1>4. CASE area = "groups"
  <2>1. r.op \in {"reset_offsets", "delete_groups", "delete_offsets"} BY <1>1, <1>4 DEF Ops
  <2>2. ASSUME r.op = "reset_offsets"
        PROVE  /\ NamedTopics(r) \cap InternalTopics = {}
               /\ r \in [op : {"reset_offsets"}, topic : {"named", "none"}, dry_run : BOOLEAN,
                         to : Targets, partitions : {{}, {1}, {3}}]
               /\ r.partitions \subseteq seen.parts
    <3>1. raw \in ResetBodies \union DeleteGroupBodies \union DeleteOffsetsBodies
      BY <1>4 DEF Requests
    <3>2. raw \in ResetBodies
      BY <1>1, <2>2, <3>1 DEF DeleteGroupBodies, DeleteOffsetsBodies
    <3>3. r = raw BY <1>1, <1>4, <2>2 DEF Parsed, IntoReset
    <3>4. Known(r) = ResetTo(r, seen, WritablePartitions(topic, r.partitions,
                                                         Topology(seen.parts)))
      BY <1>4, <2>2 DEF Known
    <3>5. CASE r.topic = "none"
      <4>1. r.partitions = {} BY <3>5, <1>1, <1>4, <2>2, <3>3 DEF Parsed, IntoReset, Invalid
      <4>2. NamedTopics(r) = {} BY <1>4, <2>2, <3>5 DEF NamedTopics
      <4> QED BY <3>2, <3>3, <4>1, <4>2 DEF ResetBodies
    <3>6. CASE r.topic # "none"
      <4>1. WritablePartitions(topic, r.partitions, Topology(seen.parts)) = "no"
        BY <3>4, <3>6 DEF ResetTo
      <4>2. topic \notin InternalTopics /\ r.partitions \subseteq seen.parts
        BY <4>1, ListedFits
      <4>3. NamedTopics(r) = {topic} BY <1>4, <2>2, <3>6 DEF NamedTopics
      <4> QED BY <3>2, <3>3, <4>2, <4>3 DEF ResetBodies
    <3> QED BY <3>5, <3>6
  <2>3. r.op # "reset_offsets" => NamedTopics(r) = {} BY <1>4, <2>1 DEF NamedTopics
  <2>4. NamedTopics(r) \cap InternalTopics = {} BY <2>2, <2>3
  <2> QED BY <1>1, <1>4, <2>1, <2>2, <2>4
<1>5. CASE area = "subjects"
  <2>1. r.op \in {"register_schemas", "delete_schemas", "set_compatibility"}
    BY <1>1, <1>5 DEF Ops
  <2>2. raw \in RegisterBodies \union DeleteSchemaBodies \union CompatibilityBodies
    BY <1>5 DEF Requests
  <2>3. r = raw BY <1>1, <1>5, <2>1 DEF Parsed
  <2>4. NamedTopics(r) = {} BY <1>5, <2>1 DEF NamedTopics
  <2> QED BY <1>1, <1>5, <2>1, <2>2, <2>3, <2>4
          DEF RegisterBodies, DeleteSchemaBodies, CompatibilityBodies
<1>6. CASE area \in {"configs", "records", "quotas", "scram", "encode"}
  <2>1. r.op \notin {"reset_offsets", "delete_schemas", "register_schemas",
                     "set_compatibility", "delete_topics", "add_partitions"}
    BY <1>1, <1>6 DEF Ops
  <2>2. ASSUME area = "records" PROVE NamedTopics(r) \cap InternalTopics = {}
    <3>1. r.op \in {"delete_records", "produce"} BY <1>1, <2>2 DEF Ops
    <3>2. Known(r) = WritablePartitions(topic, r.partitions, Topology(listed))
      BY <2>2, <3>1 DEF Known
    <3>3. topic \notin InternalTopics BY <3>2, ListedFits
    <3>4. NamedTopics(r) = {topic} BY <2>1, <2>2 DEF NamedTopics
    <3> QED BY <3>3, <3>4
  <2>3. ASSUME area # "records", r.op = "alter_topic_configs"
        PROVE  NamedTopics(r) \cap InternalTopics = {}
    <3>1. Known(r) = WritableTopic(topic, Topology(listed))
      BY <1>6, <2>1, <2>3 DEF Known
    <3>2. topic \notin InternalTopics BY <3>1, ListedFits
    <3>3. NamedTopics(r) = {topic} BY <2>1, <2>3 DEF NamedTopics
    <3> QED BY <3>2, <3>3
  <2>4. ASSUME area # "records", r.op # "alter_topic_configs"
        PROVE  NamedTopics(r) \cap InternalTopics = {}
    BY <2>1, <2>4 DEF NamedTopics
  <2>5. NamedTopics(r) \cap InternalTopics = {} BY <2>2, <2>3, <2>4
  <2> QED BY <1>1, <1>6, <2>1, <2>5
<1>7. area \in {"topics", "acls", "groups", "subjects", "configs", "records", "quotas",
                "scram", "encode"}
  BY DEF Places, Areas
<1> QED BY <1>2, <1>3, <1>4, <1>5, <1>6, <1>7

\* The items of a request stay what they are, as long as its plan does.
LEMMA ItemsStay ==
  ASSUME request' = request,
         plan' = plan \/ request.op \notin {"reset_offsets", "delete_offsets"}
  PROVE  Items(request)' = Items(request)
<1>1. CASE request.op = "create_acls" BY <1>1 DEF Items
<1>2. CASE request.op = "delete_records" BY <1>2 DEF Items
<1>3. CASE request.op = "reset_offsets" BY <1>3 DEF Items
<1>4. CASE request.op = "delete_offsets" BY <1>4 DEF Items
<1>5. CASE request.op = "delete_schemas" BY <1>5 DEF Items
<1>6. CASE request.op \notin {"create_acls", "delete_records", "reset_offsets",
                             "delete_offsets", "delete_schemas"}
  BY <1>6 DEF Items
<1> QED BY <1>1, <1>2, <1>3, <1>4, <1>5, <1>6

\* An answer that the caller can correct: none of those that a read, a wait or Kafka
\* itself gives.
LEMMA AnswerKinds ==
  /\ \A a \in {"none", "ok"} : a \notin ApiErrors
  /\ \A a \in {"timeout", "admin", "schema_registry"} : Status(a) \notin 400..499
<1>1. \A a \in {"none", "ok"} : a \notin ApiErrors
  BY DEF ApiErrors, KafkaErrors, QueryErrors, Unknowns, Refusals, Conflicts, Failures,
         AccessErrors
<1>2. Status("timeout") = 504
  <2>1. KafkaStatus("timeout") = 504
    BY DEF KafkaStatus, Unknowns, QueryErrors, Refusals, Conflicts, Failures
  <2> QED BY <2>1 DEF Status, KafkaErrors
<1>3. \A a \in {"admin", "schema_registry"} : Status(a) = 502
  <2>1. \A a \in {"admin", "schema_registry"} : KafkaStatus(a) = 502
    BY DEF KafkaStatus, Unknowns, QueryErrors, Refusals, Conflicts, Failures
  <2> QED BY <2>1 DEF Status, KafkaErrors, Failures
<1> QED BY <1>1, <1>2, <1>3

------------------------------------------------------------------------------
(* What a step leaves alone.                                                 *)

\* A request in the middle of its handler, or one that has no answer yet, is not
\* answered with success.
LEMMA Unanswered ==
  ASSUME answer' \in {"none", "timeout", "admin", "schema_registry", "refused",
                      "registry_refused"}
  PROVE  OkMeansTaken'
<1>1. answer' # "ok" OBVIOUS
<1>2. CASE answer' \in {"refused", "registry_refused"} BY <1>1, <1>2 DEF OkMeansTaken
<1>3. CASE answer' \in {"timeout", "admin", "schema_registry"}
  <2>1. Status(answer') \notin 400..499 BY <1>3, AnswerKinds
  <2> QED BY <1>1, <2>1 DEF OkMeansTaken
<1>4. CASE answer' = "none"
  <2>1. answer' \notin ApiErrors BY <1>4, AnswerKinds
  <2> QED BY <1>1, <2>1 DEF OkMeansTaken
<1> QED BY <1>2, <1>3, <1>4

\* The log of a group only moves on, or goes.
Onward ==
  request.op = "reset_offsets" =>
    \A p \in DOMAIN kafka'.log :
      /\ p \in DOMAIN kafka.log
      /\ kafka.log[p].low <= kafka'.log[p].low /\ kafka.log[p].high <= kafka'.log[p].high
      /\ kafka.log[p].late <= kafka'.log[p].late

\* What the watermarks of a partition tell.
LEMMA LogSpans ==
  ASSUME NEW log \in Logs, NEW p \in DOMAIN log
  PROVE  /\ p \in 1..2 /\ log[p] \in Spans
         /\ log[p].low \in Nat /\ log[p].high \in Nat /\ log[p].late \in Nat
         /\ log[p].low <= log[p].late /\ log[p].late <= log[p].high
<1>1. PICK parts \in SUBSET (1..2) : log \in [parts -> Spans] BY DEF Logs
<1>2. p \in 1..2 /\ log[p] \in Spans BY <1>1
<1> QED BY <1>2 DEF Spans

\* A plan that was read or made stays true while the log moves on.
LEMMA PlansStay ==
  ASSUME WritesInv, Shapes', UNCHANGED <<area, request, plan>>, Onward,
         request.op = "reset_offsets" =>
           stage' = stage \/ stage' = "idle" \/ (stage = "send" /\ stage' = "settle")
  PROVE  Planning'
<1>1. SUFFICES ASSUME request.op = "reset_offsets" PROVE Planning' BY DEF Planning
<1>2. area = "groups" /\ area' = "groups"
  BY <1>1 DEF WritesInv, Places, Ops, Areas
<1>3. kafka.log \in Logs /\ kafka'.log \in Logs
  BY <1>2 DEF WritesInv, Shapes, KafkaFits, GroupData
<1>4. PlanRead => PlanRead' BY DEF PlanRead, NamedOnly
<1>5. ASSUME PlanMarked PROVE PlanMarked'
  <2>1. ASSUME NEW p \in plan.wanted, p \in DOMAIN kafka'.log
        PROVE  /\ plan.marks[p].low <= kafka'.log[p].low
               /\ plan.marks[p].high <= kafka'.log[p].high
    <3>1. /\ p \in DOMAIN kafka.log
          /\ kafka.log[p].low <= kafka'.log[p].low /\ kafka.log[p].high <= kafka'.log[p].high
      BY <1>1, <2>1 DEF Onward
    <3>2. /\ plan.marks[p].low <= kafka.log[p].low
          /\ plan.marks[p].high <= kafka.log[p].high
          /\ p \in DOMAIN plan.marks /\ plan.marks \in Logs
      BY <1>5, <2>1, <3>1 DEF PlanMarked, Moving
    <3>3. /\ plan.marks[p].low \in Nat /\ plan.marks[p].high \in Nat
          /\ kafka.log[p].low \in Nat /\ kafka.log[p].high \in Nat
          /\ kafka'.log[p].low \in Nat /\ kafka'.log[p].high \in Nat
      BY <1>3, <2>1, <3>1, <3>2, LogSpans
    <3> QED BY <3>1, <3>2, <3>3
  <2> QED BY <1>5, <2>1 DEF PlanMarked, Moving, NamedOnly
<1>6. ASSUME PlanMade PROVE PlanMade'
  <2>1. ASSUME NEW p \in DOMAIN plan.moves, request.to = "Timestamp", p \in DOMAIN kafka'.log
        PROVE  plan.moves[p] <= kafka'.log[p].late
    <3>1. p \in DOMAIN kafka.log /\ kafka.log[p].late <= kafka'.log[p].late
      BY <1>1, <2>1 DEF Onward
    <3>2. plan.moves[p] <= kafka.log[p].late /\ plan.moves[p] \in Int
      BY <1>6, <2>1, <3>1 DEF PlanMade, Placed
    <3>3. kafka.log[p].late \in Nat /\ kafka'.log[p].late \in Nat
      BY <1>3, <2>1, <3>1, LogSpans
    <3> QED BY <3>1, <3>2, <3>3
  <2> QED BY <1>6, <2>1 DEF PlanMade, Placed, NamedOnly
<1>7. Planning BY DEF WritesInv
<1>8. /\ plan' = <<>> \/ PlanRead' \/ PlanMarked' \/ PlanMade'
      /\ stage = "marks" => PlanRead'
      /\ stage = "times" => PlanMarked'
      /\ stage \in {"send", "settle"} => PlanMade'
  BY <1>1, <1>4, <1>5, <1>6, <1>7 DEF Planning
<1>9. CASE stage' = stage BY <1>1, <1>8, <1>9 DEF Planning
<1>10. CASE stage' = "idle" BY <1>1, <1>8, <1>10 DEF Planning
<1>11. CASE stage = "send" /\ stage' = "settle" BY <1>1, <1>8, <1>11 DEF Planning
<1> QED BY <1>1, <1>9, <1>10, <1>11

------------------------------------------------------------------------------
(* What the cluster makes of a request.                                      *)

\* A row that klens sends is stored as a literal one.
LEMMA LiteralRow ==
  ASSUME NEW acl \in Acls, acl.pattern = "Literal"
  PROVE  StoredAcl(acl) = [acl EXCEPT !.pattern = 3] /\ StoredAcl(acl) \in AclRows
BY DEF StoredAcl, ToKrafka, KrafkaCode, Acls, AclRows

\* A schema that is registered keeps every version there is.
LEMMA RegisterFits ==
  ASSUME NEW k \in SubjectData, NEW schema \in Schemas
  PROVE  /\ Register(k, schema) \in SubjectData /\ Register(k, schema).level = k.level
         /\ \A v \in DOMAIN k.versions :
              /\ v \in DOMAIN Register(k, schema).versions
              /\ Register(k, schema).versions[v] = k.versions[v]
<1> DEFINE new == [schema |-> schema, is |-> "live"]
           more == Append(k.versions, new)
<1>1. k.versions \in Versions BY DEF SubjectData
<1>2. new \in [schema : Schemas, is : {"live", "soft", "hard"}] OBVIOUS
<1>3. /\ more \in Versions
      /\ \A v \in DOMAIN k.versions : v \in DOMAIN more /\ more[v] = k.versions[v]
  BY <1>1, <1>2 DEF Versions
<1> HIDE DEF more
<1>4. /\ [k EXCEPT !.versions = more] \in SubjectData
      /\ [k EXCEPT !.versions = more].level = k.level
      /\ [k EXCEPT !.versions = more].versions = more
  BY <1>3 DEF SubjectData
<1>5. Register(k, schema) \in {k, [k EXCEPT !.versions = more]} BY DEF Register, more
<1> QED BY <1>3, <1>4, <1>5

\* Versions that are marked keep their place, unless none is left.
LEMMA MarkFits ==
  ASSUME NEW k \in SubjectData, NEW versions, NEW from, NEW to \in {"soft", "hard"}
  PROVE  /\ Mark(k, versions, from, to) \in SubjectData
         /\ Mark(k, versions, from, to).level = k.level
         /\ \A v \in DOMAIN k.versions :
              v \notin versions /\ k.versions[v].is # "hard" =>
                /\ v \in DOMAIN Mark(k, versions, from, to).versions
                /\ Mark(k, versions, from, to).versions[v] = k.versions[v]
         /\ \A v \in DOMAIN k.versions :
              (IF v \in versions /\ k.versions[v].is = from THEN to
               ELSE k.versions[v].is) = "soft" =>
                /\ DOMAIN Mark(k, versions, from, to).versions = DOMAIN k.versions
                /\ Mark(k, versions, from, to).versions[v].is = "soft"
<1> DEFINE S == [schema : Schemas, is : {"live", "soft", "hard"}]
           marked == [v \in DOMAIN k.versions |->
                        IF v \in versions /\ k.versions[v].is = from
                        THEN [k.versions[v] EXCEPT !.is = to] ELSE k.versions[v]]
<1>0. PICK q \in Seq(S) : q = k.versions BY DEF SubjectData, Versions
<1> HIDE DEF S
<1>1. /\ k.versions \in Seq(S) /\ DOMAIN k.versions = 1..Len(k.versions)
      /\ Len(k.versions) \in Nat
      /\ \A v \in DOMAIN k.versions : k.versions[v] \in S
  <2>1. DOMAIN q = 1..Len(q) /\ Len(q) \in Nat /\ \A v \in DOMAIN q : q[v] \in S
    OBVIOUS
  <2> QED BY <1>0, <2>1
<1>2. \A v \in DOMAIN k.versions :
        /\ marked[v] \in S
        /\ marked[v].is = IF v \in versions /\ k.versions[v].is = from THEN to
                          ELSE k.versions[v].is
        /\ v \notin versions => marked[v] = k.versions[v]
  <2>1. SUFFICES ASSUME NEW v \in DOMAIN k.versions
                 PROVE  /\ marked[v] \in S
                        /\ marked[v].is = IF v \in versions /\ k.versions[v].is = from THEN to
                                          ELSE k.versions[v].is
                        /\ v \notin versions => marked[v] = k.versions[v]
    OBVIOUS
  <2>2. k.versions[v] \in S BY <1>1
  <2>3. CASE v \in versions /\ k.versions[v].is = from
    <3>1. marked[v] = [k.versions[v] EXCEPT !.is = to] BY <2>3
    <3> QED BY <2>2, <2>3, <3>1 DEF S
  <2>4. CASE ~(v \in versions /\ k.versions[v].is = from)
    <3>1. marked[v] = k.versions[v] BY <2>4
    <3> QED BY <2>2, <2>4, <3>1 DEF S
  <2> QED BY <2>3, <2>4
<1>3. marked \in Seq(S) /\ DOMAIN marked = DOMAIN k.versions
  <2>1. marked \in [1..Len(k.versions) -> S] BY <1>1, <1>2
  <2> HIDE DEF marked
  <2> QED BY <1>1, <2>1
<1>4. Mark(k, versions, from, to) =
        [k EXCEPT !.versions = IF \A v \in DOMAIN marked : marked[v].is = "hard" THEN <<>>
                               ELSE marked]
  BY DEF Mark
<1> HIDE DEF marked
<1>5. PICK vs \in Versions :
        vs = IF \A v \in DOMAIN marked : marked[v].is = "hard" THEN <<>> ELSE marked
  <2>1. <<>> \in Versions /\ marked \in Versions BY <1>3 DEF Versions, S
  <2> QED BY <2>1
<1>6. Mark(k, versions, from, to) = [k EXCEPT !.versions = vs] BY <1>4, <1>5
<1>7. /\ Mark(k, versions, from, to) \in SubjectData
      /\ Mark(k, versions, from, to).level = k.level
      /\ Mark(k, versions, from, to).versions = vs
  BY <1>6 DEF SubjectData
<1>8. ASSUME NEW v \in DOMAIN k.versions, marked[v].is # "hard" PROVE vs = marked
  BY <1>3, <1>5, <1>8
<1> QED BY <1>2, <1>3, <1>7, <1>8

\* What is asked for keeps the shape of the cluster.
LEMMA TakeFits ==
  ASSUME Places, KafkaFits(kafka), NEW r, NEW items,
         r.op \in Ops(area) \ {"produce", "delete_schemas"},
         area = "acls" => r.rows \subseteq {acl \in Acls : acl.pattern = "Literal"},
         r.op = "create_acls" => items \subseteq r.rows,
         r.op = "reset_offsets" => \A p \in items : plan.moves[p] \in Int,
         r.op = "register_schemas" => r \in RegisterBodies,
         r.op = "set_compatibility" => r \in CompatibilityBodies
  PROVE  KafkaFits(Take(r, kafka, items))
<1>1. CASE area = "topics"
  <2>1. r.op \in {"create_topics", "delete_topics", "add_partitions"} BY <1>1 DEF Ops
  <2>2. \A x : DOMAIN [kafka EXCEPT ![r.topic] = x] = DOMAIN kafka OBVIOUS
  <2>3. DOMAIN Take(r, kafka, items) = DOMAIN kafka
    BY <1>1, <2>1, <2>2 DEF Take, CreateTopic, DeleteTopic, AddPartitions
  <2> QED BY <1>1, <2>3 DEF KafkaFits
<1>2. CASE area = "records"
  <2>1. r.op = "delete_records" BY <1>2 DEF Ops
  <2>2. Take(r, kafka, items) = DeleteRecords(r, kafka, items) BY <1>2, <2>1 DEF Take
  <2>3. DOMAIN Take(r, kafka, items) = DOMAIN kafka BY <2>2 DEF DeleteRecords
  <2> QED BY <1>2, <2>3 DEF KafkaFits
<1>3. CASE area = "acls"
  <2>1. r.op \in {"create_acls", "delete_acls"} BY <1>3 DEF Ops
  <2>2. kafka \subseteq AclRows BY <1>3 DEF KafkaFits
  <2>3. CASE r.op = "create_acls"
    <3>1. Take(r, kafka, items) = kafka \union {StoredAcl(acl) : acl \in items}
      BY <1>3, <2>3 DEF Take, CreateAcls
    <3>2. \A acl \in items : StoredAcl(acl) \in AclRows BY <1>3, <2>3, LiteralRow
    <3> QED BY <1>3, <2>2, <3>1, <3>2 DEF KafkaFits
  <2>4. CASE r.op = "delete_acls"
    <3>1. Take(r, kafka, items) \subseteq kafka BY <1>3, <2>4 DEF Take, DeleteAcl
    <3> QED BY <1>3, <2>2, <3>1 DEF KafkaFits
  <2> QED BY <2>1, <2>3, <2>4
<1>4. CASE area = "groups"
  <2>1. r.op \in {"reset_offsets", "delete_groups", "delete_offsets"} BY <1>4 DEF Ops
  <2>2. kafka \in GroupData BY <1>4 DEF KafkaFits
  <2>3. kafka.committed \in Commits /\ DOMAIN kafka.committed = 1..2
    BY <2>2 DEF GroupData, Commits
  <2>5. ASSUME NEW c \in Commits PROVE [kafka EXCEPT !.committed = c] \in GroupData
    BY <2>2 DEF GroupData
  <2>6. NoOffset \in Int BY DEF NoOffset
  <2>7. CASE r.op = "reset_offsets"
    <3> DEFINE st == IF kafka.state = "Gone" THEN "Empty" ELSE kafka.state
               c == [p \in DOMAIN kafka.committed |->
                       IF p \in items THEN plan.moves[p] ELSE kafka.committed[p]]
    <3>1. Take(r, kafka, items) = [kafka EXCEPT !.state = st, !.committed = c]
      BY <1>4, <2>7 DEF Take, AlterGroupOffsets
    <3>2. c \in Commits BY <2>3, <2>7 DEF Commits
    <3>3. st \in GroupStates BY <2>2 DEF GroupData, GroupStates
    <3> HIDE DEF c, st
    <3>4. [kafka EXCEPT !.state = st, !.committed = c] \in GroupData
      BY <2>2, <3>2, <3>3 DEF GroupData
    <3> QED BY <1>4, <3>1, <3>4 DEF KafkaFits
  <2>8. CASE r.op = "delete_offsets"
    <3> DEFINE c == [p \in DOMAIN kafka.committed |->
                       IF p \in items THEN NoOffset ELSE kafka.committed[p]]
    <3>1. Take(r, kafka, items) = [kafka EXCEPT !.committed = c]
      BY <1>4, <2>8 DEF Take, DeleteGroupOffsets
    <3>2. c \in Commits BY <2>3, <2>6 DEF Commits
    <3> HIDE DEF c
    <3> QED BY <1>4, <2>5, <3>1, <3>2 DEF KafkaFits
  <2>9. CASE r.op = "delete_groups"
    <3> DEFINE c == [p \in DOMAIN kafka.committed |-> NoOffset]
    <3>1. Take(r, kafka, items) = [kafka EXCEPT !.state = "Gone", !.committed = c]
      BY <1>4, <2>9 DEF Take, DeleteGroup
    <3>2. c \in Commits BY <2>3, <2>6 DEF Commits
    <3>3. "Gone" \in GroupStates BY DEF GroupStates
    <3> HIDE DEF c
    <3>4. [kafka EXCEPT !.state = "Gone", !.committed = c] \in GroupData
      BY <2>2, <3>2, <3>3 DEF GroupData
    <3> QED BY <1>4, <3>1, <3>4 DEF KafkaFits
  <2> QED BY <2>1, <2>7, <2>8, <2>9
<1>5. CASE area = "subjects"
  <2>1. r.op \in {"register_schemas", "set_compatibility"} BY <1>5 DEF Ops
  <2>2. kafka \in SubjectData BY <1>5 DEF KafkaFits
  <2>3. CASE r.op = "register_schemas"
    <3>1. Take(r, kafka, items) = Register(kafka, r.schema) BY <1>5, <2>3 DEF Take
    <3>2. r.schema \in Schemas BY <2>3 DEF RegisterBodies
    <3> QED BY <1>5, <2>2, <3>1, <3>2, RegisterFits DEF KafkaFits
  <2>4. CASE r.op = "set_compatibility"
    <3>1. Take(r, kafka, items) = [kafka EXCEPT !.level = r.level]
      BY <1>5, <2>4 DEF Take, SetCompatibility
    <3>2. r.level \in CompatibilityLevels BY <2>4 DEF CompatibilityBodies
    <3>3. Take(r, kafka, items) \in SubjectData BY <2>2, <3>1, <3>2 DEF SubjectData
    <3> QED BY <1>5, <3>3 DEF KafkaFits
  <2> QED BY <2>1, <2>3, <2>4
<1>6. CASE area \in {"configs", "quotas", "scram", "encode"} BY <1>6 DEF KafkaFits
<1> QED BY <1>1, <1>2, <1>3, <1>4, <1>5, <1>6 DEF Places, Areas

\* What a handler sends, whichever of its items Kafka takes, touches nothing that was
\* not named.
LEMMA TakeTouches ==
  ASSUME WritesInv, stage = "send", request.op \notin {"produce", "delete_schemas"},
         NEW items \in SUBSET Items(request), kafka' = Take(request, kafka, items)
  PROVE  Untouched
<1>0. /\ area \in Areas /\ area # "encode" /\ request.op \in Ops(area)
      /\ Fits(request) /\ KafkaFits(kafka)
  BY DEF WritesInv, Places, Underway, Fits, Shapes
<1>1. CASE area = "topics"
  <2>1. request.op \in {"create_topics", "delete_topics", "add_partitions"}
    BY <1>0, <1>1 DEF Ops
  <2>2. PICK n : kafka' = [kafka EXCEPT ![request.topic] = n]
    BY <1>1, <2>1 DEF Take, CreateTopic, DeleteTopic, AddPartitions
  <2>3. \A t \in Topics \ {request.topic} : kafka'[t] = kafka[t]
    BY <1>0, <1>1, <2>2 DEF KafkaFits
  <2> QED BY <1>1, <2>3 DEF Untouched
<1>2. CASE area = "configs"
  <2>1. request.op \in {"alter_topic_configs", "alter_broker_configs"} BY <1>0, <1>2 DEF Ops
  <2>2. kafka' = AlterConfigs(request, kafka) BY <1>2, <2>1 DEF Take
  <2>3. \A name \in ConfigNames : \A l \in Levels :
          l # request.scope \/ name \notin DOMAIN request.set \union request.reset
            => kafka'[name][l] = kafka[name][l]
    BY <2>2 DEF AlterConfigs
  <2> QED BY <1>2, <2>3 DEF Untouched
<1>3. CASE area = "records"
  <2>1. request.op = "delete_records" BY <1>0, <1>3 DEF Ops
  <2>2. kafka' = DeleteRecords(request, kafka, items) BY <1>3, <2>1 DEF Take
  <2>3. request.partitions # {} => items \subseteq request.partitions
    BY <2>1 DEF Items
  <2>4. \A p \in DOMAIN kafka :
          request.partitions = {} \/ p \in request.partitions \/ kafka'[p] = kafka[p]
    BY <2>2, <2>3 DEF DeleteRecords
  <2> QED BY <1>3, <2>4 DEF Untouched
<1>4. CASE area = "acls"
  <2>1. request.op \in {"create_acls", "delete_acls"} BY <1>0, <1>4 DEF Ops
  <2>2. /\ kafka \subseteq AclRows
        /\ \A acl \in request.rows : acl \in Acls /\ acl.pattern = "Literal"
    BY <1>0, <1>4 DEF KafkaFits, Fits
  <2>3. CASE request.op = "create_acls"
    <3>1. kafka' = kafka \union {StoredAcl(acl) : acl \in items} /\ items \subseteq request.rows
      BY <1>4, <2>3 DEF Take, CreateAcls, Items
    <3>2. \A row \in (kafka \ kafka') \union (kafka' \ kafka) :
            \E acl \in request.rows : row = StoredAcl(acl)
      BY <3>1
    <3>3. \A row \in (kafka \ kafka') \union (kafka' \ kafka) :
            row \in {[acl EXCEPT !.pattern = 3] : acl \in request.rows}
      BY <2>2, <3>2, LiteralRow
    <3> QED BY <1>4, <3>3 DEF Untouched
  <2>4. CASE request.op = "delete_acls"
    <3>1. kafka' = kafka \ UNION {Deleted(kafka, StoredAcl(acl)) : acl \in request.rows}
      BY <1>4, <2>4 DEF Take, DeleteAcl
    <3>2. ASSUME NEW row \in kafka, NEW acl \in request.rows,
                 row \in Deleted(kafka, StoredAcl(acl))
          PROVE  row = [acl EXCEPT !.pattern = 3]
      <4>1. StoredAcl(acl) = [acl EXCEPT !.pattern = 3] /\ acl \in Acls
        BY <2>2, LiteralRow
      <4>2. PICK filter : filter = StoredAcl(acl) OBVIOUS
      <4>3. /\ filter \in [name : {"a", "*"}, pattern : {3}, operation : {"Read"}]
        BY <4>1, <4>2 DEF Acls
      <4>4. row.operation = filter.operation /\ row.name = filter.name
            /\ row.pattern = filter.pattern
        BY <3>2, <4>2, <4>3 DEF Deleted
      <4>5. row \in AclRows BY <2>2
      <4>6. row = filter BY <4>3, <4>4, <4>5 DEF AclRows
      <4> QED BY <4>1, <4>2, <4>6
    <3>3. \A row \in (kafka \ kafka') \union (kafka' \ kafka) :
            row \in kafka /\ \E acl \in request.rows : row \in Deleted(kafka, StoredAcl(acl))
      BY <3>1
    <3>4. \A row \in (kafka \ kafka') \union (kafka' \ kafka) :
            row \in {[acl EXCEPT !.pattern = 3] : acl \in request.rows}
      BY <3>2, <3>3
    <3> QED BY <1>4, <3>4 DEF Untouched
  <2> QED BY <2>1, <2>3, <2>4
<1>5. CASE area = "quotas"
  <2>1. request.op = "alter_quotas" BY <1>0, <1>5 DEF Ops
  <2>2. kafka' = [kafka EXCEPT ![Range(request.entity)] = request.values]
    BY <1>5, <2>1 DEF Take, AlterQuota
  <2>3. \A e \in DOMAIN kafka : e # Range(request.entity) => kafka'[e] = kafka[e] BY <2>2
  <2> QED BY <1>5, <2>3 DEF Untouched
<1>6. CASE area = "scram"
  <2>1. request.op \in {"set_scram_credentials", "delete_scram_credentials"}
    BY <1>0, <1>6 DEF Ops
  <2>2. PICK n : kafka' = [kafka EXCEPT ![request.mechanism] = n]
    BY <1>6, <2>1 DEF Take, SetScram, DeleteScram
  <2>3. \A m \in DOMAIN kafka : m # request.mechanism => kafka'[m] = kafka[m] BY <2>2
  <2> QED BY <1>6, <2>3 DEF Untouched
<1>7. CASE area = "groups"
  <2>1. request.op \in {"reset_offsets", "delete_groups", "delete_offsets"}
    BY <1>0, <1>7 DEF Ops
  <2>2. kafka \in GroupData BY <1>0, <1>7 DEF KafkaFits
  <2>3. CASE request.op = "reset_offsets"
    <3>1. kafka' = [kafka EXCEPT !.state = IF @ = "Gone" THEN "Empty" ELSE @,
                      !.committed = [p \in DOMAIN @ |->
                                       IF p \in items THEN plan.moves[p] ELSE @[p]]]
      BY <1>7, <2>3 DEF Take, AlterGroupOffsets
    <3>2. /\ kafka'.log = kafka.log
          /\ kafka'.committed = [p \in DOMAIN kafka.committed |->
                IF p \in items THEN plan.moves[p] ELSE kafka.committed[p]]
      BY <2>2, <3>1 DEF GroupData
    <3>3. request.topic # "none" => items \subseteq request.partitions
      <4>1. items \subseteq DOMAIN plan.moves BY <2>3 DEF Items
      <4>2. PlanMade BY <2>3 DEF WritesInv, Planning
      <4> QED BY <4>1, <4>2 DEF PlanMade, NamedOnly
    <3>4. request.topic # "none" => \A p \in DOMAIN kafka.committed \ request.partitions :
                                   kafka'.committed[p] = kafka.committed[p]
      BY <3>2, <3>3
    <3> QED BY <1>7, <3>2, <3>4 DEF Untouched
  <2>4. CASE request.op = "delete_offsets"
    <3>1. kafka' = [kafka EXCEPT !.committed =
                      [p \in DOMAIN @ |-> IF p \in items THEN NoOffset ELSE @[p]]]
      BY <1>7, <2>4 DEF Take, DeleteGroupOffsets
    <3>2. kafka'.log = kafka.log BY <2>2, <3>1 DEF GroupData
    <3> QED BY <1>7, <2>4, <3>2 DEF Untouched
  <2>5. CASE request.op = "delete_groups"
    <3>1. kafka' = [kafka EXCEPT !.state = "Gone", !.committed = [p \in DOMAIN @ |-> NoOffset]]
      BY <1>7, <2>5 DEF Take, DeleteGroup
    <3>2. kafka'.log = kafka.log BY <2>2, <3>1 DEF GroupData
    <3> QED BY <1>7, <2>5, <3>2 DEF Untouched
  <2> QED BY <2>1, <2>3, <2>4, <2>5
<1>8. CASE area = "subjects"
  <2>1. request.op \in {"register_schemas", "set_compatibility"} BY <1>0, <1>8 DEF Ops
  <2>2. kafka \in SubjectData BY <1>0, <1>8 DEF KafkaFits
  <2>3. CASE request.op = "register_schemas"
    <3>1. kafka' = Register(kafka, request.schema) BY <1>8, <2>3 DEF Take
    <3>2. request.schema \in Schemas BY <1>0, <2>3 DEF Fits, RegisterBodies
    <3>3. /\ kafka'.level = kafka.level
          /\ \A v \in DOMAIN kafka.versions :
               v \in DOMAIN kafka'.versions /\ kafka'.versions[v] = kafka.versions[v]
      BY <2>2, <3>1, <3>2, RegisterFits
    <3> QED BY <1>8, <3>3 DEF Untouched
  <2>4. CASE request.op = "set_compatibility"
    <3>1. kafka' = [kafka EXCEPT !.level = request.level]
      BY <1>8, <2>4 DEF Take, SetCompatibility
    <3>2. kafka'.versions = kafka.versions BY <2>2, <3>1 DEF SubjectData
    <3> QED BY <1>8, <2>4, <3>2 DEF Untouched
  <2> QED BY <2>1, <2>3, <2>4
<1> QED BY <1>0, <1>1, <1>2, <1>3, <1>4, <1>5, <1>6, <1>7, <1>8 DEF Areas

------------------------------------------------------------------------------
(* Where a reset places its offsets.                                         *)

\* The larger of two offsets.
LEMMA MaxOfTwo ==
  ASSUME NEW a \in Int, NEW b \in Int
  PROVE  Max({a, b}) \in {a, b} /\ Max({a, b}) >= a /\ Max({a, b}) >= b
<1>1. \E x \in {a, b} : \A y \in {a, b} : x >= y OBVIOUS
<1> QED BY <1>1 DEF Max

\* The smaller of two offsets.
LEMMA MinOfTwo ==
  ASSUME NEW a \in Int, NEW b \in Int
  PROVE  Min({a, b}) \in {a, b} /\ Min({a, b}) <= a /\ Min({a, b}) <= b
<1>1. \E x \in {a, b} : \A y \in {a, b} : x =< y OBVIOUS
<1> QED BY <1>1 DEF Min

\* A place is in the log that was read, and for an instant it is not past the offset
\* that was found for it.
LEMMA PlaceClamps ==
  ASSUME NEW to \in Targets, NEW from \in Int, NEW mark \in Spans, NEW atTime \in Int
  PROVE  /\ Place(to, from, mark, atTime) \in mark.low..mark.high
         /\ to = "Timestamp" =>
              \/ Place(to, from, mark, atTime) = mark.low
              \/ Place(to, from, mark, atTime)
                   <= IF atTime = NoOffset THEN mark.high ELSE atTime
<1> DEFINE offset == PlaceUnclamped(to, from, mark, atTime)
           least == Min({offset, mark.high})
<1>1. mark.low \in Int /\ mark.high \in Int /\ mark.low <= mark.high BY DEF Spans
<1>2. \A t \in DOMAIN Number : Number[t] \in Int BY DEF Number
<1>3. /\ offset \in Int
      /\ to = "Timestamp" => offset = IF atTime = NoOffset THEN mark.high ELSE atTime
  <2>1. CASE to \in Shifts
    <3>1. Number[to] \in Int BY <1>2, <2>1 DEF Shifts, Number
    <3> QED BY <2>1, <3>1 DEF PlaceUnclamped, Shifts
  <2>2. CASE to \in {"offset:0", "offset:9"}
    <3>1. Number[to] \in Int BY <1>2, <2>2 DEF Number
    <3> QED BY <2>2, <3>1 DEF PlaceUnclamped, Shifts
  <2>3. CASE to \in {"Earliest", "Latest", "Timestamp"} BY <1>1, <2>3 DEF PlaceUnclamped, Shifts
  <2> QED BY <2>1, <2>2, <2>3 DEF Targets, Shifts
<1> HIDE DEF offset
<1>4. least \in {offset, mark.high} /\ least <= offset /\ least <= mark.high
  BY <1>1, <1>3, MinOfTwo
<1>5. Place(to, from, mark, atTime) = Max({mark.low, least}) BY DEF Place, offset
<1> HIDE DEF least
<1>6. least \in Int BY <1>1, <1>3, <1>4
<1>7. /\ Max({mark.low, least}) \in {mark.low, least}
      /\ Max({mark.low, least}) >= mark.low /\ Max({mark.low, least}) >= least
  BY <1>1, <1>6, MaxOfTwo
<1> QED BY <1>1, <1>3, <1>4, <1>5, <1>6, <1>7

------------------------------------------------------------------------------
(* Every step keeps the invariant.                                           *)

\* No parser and no table answers with success.
LEMMA NoEarlySuccess ==
  ASSUME Places, NEW raw \in Requests, Parsed(raw) # Invalid
  PROVE  Known(Parsed(raw)) # "ok"
<1> DEFINE r == Parsed(raw)
<1>1. r.op = raw.op /\ r.op \in Ops(area) BY RequestOps
<1> HIDE DEF r
<1>2. CASE area = "topics"
  BY <1>1, <1>2 DEF Ops, Known, WritableTopic, r
<1>3. CASE area = "configs" BY <1>1, <1>3 DEF Ops, Known, KnownBroker, WritableTopic, r
<1>4. CASE area = "records"
  BY <1>1, <1>4 DEF Ops, Known, WritablePartitions, WritableTopic, r
<1>5. CASE area = "acls" BY <1>1, <1>5 DEF Ops, Known, Sendable, r
<1>6. CASE area \in {"quotas", "scram", "encode"} BY <1>1, <1>6 DEF Ops, Known, r
<1>7. CASE area = "groups"
  BY <1>1, <1>7 DEF Ops, Known, ResetTo, StoppedGroup, UnconsumedTopic, KnownGroup,
                    WritablePartitions, WritableTopic, r
<1>8. CASE area = "subjects"
  BY <1>1, <1>8 DEF Ops, Known, KnownVersion, KnownSubject, r
<1> QED BY <1>2, <1>3, <1>4, <1>5, <1>6, <1>7, <1>8 DEF Places, Areas

\* A log that nobody touches has not moved.
LEMMA Standing ==
  ASSUME WritesInv, request.op = "reset_offsets" => kafka'.log = kafka.log
  PROVE  Onward
<1>1. SUFFICES ASSUME request.op = "reset_offsets", NEW p \in DOMAIN kafka'.log
               PROVE  /\ p \in DOMAIN kafka.log
                      /\ kafka.log[p].low <= kafka'.log[p].low
                      /\ kafka.log[p].high <= kafka'.log[p].high
                      /\ kafka.log[p].late <= kafka'.log[p].late
  BY DEF Onward
<1>2. area = "groups" BY <1>1 DEF WritesInv, Places, Ops, Areas
<1>3. kafka.log \in Logs /\ p \in DOMAIN kafka.log
  BY <1>1, <1>2 DEF WritesInv, Shapes, KafkaFits, GroupData
<1>4. kafka.log[p].low \in Nat /\ kafka.log[p].high \in Nat /\ kafka.log[p].late \in Nat
  BY <1>3, LogSpans
<1> QED BY <1>1, <1>3, <1>4

\* A request that is turned away at the door has sent nothing.
LEMMA SubmitKeeps ==
  ASSUME WritesInv, NEW raw \in Requests, Submit(raw)
  PROVE  WritesInv'
<1>1. /\ UNCHANGED <<area, cluster, topic, readable, kafka, seen, access, disturbed, others>>
      /\ request' = raw /\ plan' = <<>> /\ taken' = {} /\ stage' = "idle"
  BY DEF Submit, Finish
<1>2. Places'
  <2>1. Places BY DEF WritesInv
  <2>2. raw.op \in Ops(area) BY <2>1, RequestOps
  <2> QED BY <1>1, <2>1, <2>2 DEF Places, Stages
<1>3. Shapes' BY <1>1 DEF WritesInv, Shapes, KafkaFits, SeenFits
<1>4. Underway' /\ Taken' BY <1>1 DEF Underway, Taken
<1>5. answer' # "ok"
  <2>1. CASE answer' = RefusedWrite(access, cluster, raw.op) BY <2>1 DEF RefusedWrite
  <2>2. CASE answer' = "unprocessable" BY <2>2
  <2>3. CASE Parsed(raw) # Invalid /\ answer' = Known(Parsed(raw))
    BY <2>3, NoEarlySuccess DEF WritesInv
  <2> QED BY <2>1, <2>2, <2>3 DEF Submit, Finish
<1>6. OkMeansTaken' BY <1>1, <1>5 DEF OkMeansTaken
<1>7. Planning' BY <1>1 DEF Planning
<1> QED BY <1>2, <1>3, <1>4, <1>6, <1>7 DEF WritesInv

\* A deletion of records as it is parsed.
LEMMA Deletions ==
  ASSUME Places, NEW raw \in Requests, Parsed(raw) # Invalid, Parsed(raw).op = "delete_records"
  PROVE  Parsed(raw) \in DeleteRecordsBodies
<1>1. raw.op = "delete_records" /\ raw.op \in Ops(area) BY RequestOps
<1>2. area = "records" BY <1>1 DEF Ops, Places, Areas
<1>3. raw \in DeleteRecordsBodies \union ProduceBodies BY <1>2 DEF Requests
<1>4. Parsed(raw) = raw BY <1>1, <1>2 DEF Parsed, Before
<1> QED BY <1>1, <1>3, <1>4 DEF ProduceBodies

\* The request that a handler goes on with.
LEMMA AdmittedFits ==
  ASSUME WritesInv, NEW raw \in Requests, Admitted(raw)
  PROVE  Fits(request') /\ request'.op = raw.op /\ Parsed(raw).op = raw.op
<1> DEFINE r == Parsed(raw)
           filled == [r EXCEPT !.partitions = seen.parts]
<1>1. r # Invalid /\ Known(r) = "no" /\ Places /\ Shapes BY DEF Admitted, WritesInv
<1>2. r.op = raw.op BY <1>1, RequestOps
<1>3. request' = Resolved(r) BY DEF Admitted
<1>4. /\ r.op \in Ops(area)
      /\ NamedTopics(r) \cap InternalTopics = {}
      /\ area = "acls" => r.rows \subseteq {acl \in Acls : acl.pattern = "Literal"}
      /\ r.op = "reset_offsets" =>
           /\ r \in [op : {"reset_offsets"}, topic : {"named", "none"}, dry_run : BOOLEAN,
                     to : Targets, partitions : {{}, {1}, {3}}]
           /\ area = "groups" /\ r.partitions \subseteq seen.parts
      /\ r.op = "delete_schemas" => r \in DeleteSchemaBodies
      /\ r.op = "register_schemas" => r \in RegisterBodies
      /\ r.op = "set_compatibility" => r \in CompatibilityBodies
  BY <1>1, KnownFits
<1>7. r.op = "delete_records" => r \in DeleteRecordsBodies BY <1>1, Deletions
<1> HIDE DEF r
<1>5. CASE r.op = "reset_offsets"
  <2>1. seen.parts \in SUBSET (1..2) BY <1>1, <1>4, <1>5 DEF Shapes, SeenFits
  <2>2. r \in Resets BY <1>4, <1>5, <2>1 DEF Resets
  <2>3. filled \in Resets BY <2>1, <2>2 DEF Resets
  <2>4. request' \in {r, filled} BY <1>3, <1>5 DEF Resolved
  <2>5. request' \in Resets /\ request'.topic = r.topic BY <2>2, <2>3, <2>4 DEF Resets
  <2>6. request'.op = "reset_offsets" BY <2>5 DEF Resets
  <2>7. area = "groups" BY <1>4, <1>5
  <2>8. NamedTopics(request') = NamedTopics(r) BY <1>5, <2>5, <2>6, <2>7 DEF NamedTopics
  <2> HIDE DEF filled
  <2> QED BY <1>2, <1>4, <1>5, <2>5, <2>6, <2>7, <2>8 DEF Fits, r
<1>6. CASE r.op \notin {"reset_offsets", "delete_records"}
  <2>1. request' = r BY <1>3, <1>6 DEF Resolved
  <2> QED BY <1>2, <1>4, <1>6, <2>1 DEF Fits, r
<1>8. CASE r.op = "delete_records"
  <2>1. request' \in {r, [r EXCEPT !.partitions = listed]} BY <1>3, <1>8 DEF Resolved
  <2>2. request'.op = r.op BY <1>7, <1>8, <2>1 DEF DeleteRecordsBodies
  <2>3. area = "records" BY <1>1, <1>4, <1>8 DEF Ops, Places, Areas
  <2>4. NamedTopics(request') = NamedTopics(r) BY <1>8, <2>2, <2>3 DEF NamedTopics
  <2> QED BY <1>2, <1>4, <1>8, <2>2, <2>3, <2>4 DEF Fits, r
<1> QED BY <1>5, <1>6, <1>8

\* A request that is let in has passed the checks that its later stages rely on.
LEMMA AdmittedKeeps ==
  ASSUME WritesInv, NEW raw \in Requests, Admitted(raw)
  PROVE  WritesInv'
<1>1. /\ UNCHANGED <<area, cluster, topic, readable, kafka, seen, access, others>>
      /\ taken' = {} /\ answer' = "none"
      /\ RefusedWrite(access, cluster, raw.op) = "no"
  BY DEF Admitted
<1>2. Fits(request') /\ request'.op = raw.op /\ Parsed(raw).op = raw.op BY AdmittedFits
<1>3. /\ stage' = IF raw.op \in {"reset_offsets", "delete_offsets"} THEN "plan"
                  ELSE IF area = "encode" THEN "fetch" ELSE "send"
      /\ area # "encode" => plan' = <<>>
  BY <1>2 DEF Admitted
<1>4. request'.op \in Ops(area) /\ area \in Areas BY <1>2 DEF Fits, WritesInv, Places
<1>5. area = "encode" => raw.op = "produce" BY <1>2, <1>4 DEF Ops
<1>6. raw.op = "reset_offsets" => area # "encode" BY <1>5
<1>7. Places' BY <1>1, <1>3, <1>4 DEF WritesInv, Places, Stages
<1>8. Shapes' BY <1>1 DEF WritesInv, Shapes, KafkaFits, SeenFits
<1>9. Fits(request)' BY <1>1, <1>2 DEF Fits, NamedTopics
<1>10. Underway'
  <2>1. RefusedWrite(access', cluster', request'.op) = "no" BY <1>1, <1>2
  <2> QED BY <1>1, <1>2, <1>3, <1>5, <1>9, <2>1 DEF Underway
<1>11. Taken' BY <1>1, <1>3 DEF Taken
<1>12. OkMeansTaken' BY <1>1, Unanswered
<1>13. Planning' BY <1>2, <1>3, <1>6 DEF Planning
<1> QED BY <1>7, <1>8, <1>10, <1>11, <1>12, <1>13 DEF WritesInv

\* A read on the way to a plan leaves everything but the plan and the stage.
LEMMA ReadFrame ==
  ASSUME WritesInv, UNCHANGED <<area, cluster, topic, readable, kafka, seen, access, request, disturbed,
                                asked, others, taken>>,
         stage' \in Stages
  PROVE  /\ Places' /\ Shapes'
         /\ stage' = "idle" => Underway'
         /\ (stage # "idle" => Fits(request)' /\ RefusedWrite(access', cluster', request'.op) = "no")
<1>1. Places' BY DEF WritesInv, Places
<1>2. Shapes' BY DEF WritesInv, Shapes, KafkaFits, SeenFits
<1>3. stage' = "idle" => Underway' BY DEF Underway
<1>4. stage # "idle" => Fits(request)' /\ RefusedWrite(access', cluster', request'.op) = "no"
  BY DEF WritesInv, Underway, Fits, NamedTopics
<1> QED BY <1>1, <1>2, <1>3, <1>4

\* A reset takes the partitions it was asked for and the commits of the group along;
\* a deletion of offsets without any to delete is done.
LEMMA ReadCommittedKeeps ==
  ASSUME WritesInv, ReadCommitted
  PROVE  WritesInv'
<1> DEFINE wanted == Wanted(request, request.partitions, kafka.committed)
           held == {p \in DOMAIN kafka.committed : kafka.committed[p] # NoOffset}
<1>1. /\ UNCHANGED <<area, cluster, topic, readable, kafka, seen, access, request, disturbed, asked,
                     others, taken>>
      /\ stage = "plan"
  BY DEF ReadCommitted, KeepKafka, Keep
<1>2. /\ request.op \in {"reset_offsets", "delete_offsets"} /\ Fits(request)
      /\ answer = "none" /\ taken = {}
  BY <1>1 DEF WritesInv, Underway, Taken
<1>3. area = "groups" BY <1>2 DEF WritesInv, Places, Ops, Areas
<1>4. kafka \in GroupData /\ kafka.committed \in Commits /\ DOMAIN kafka.committed = 1..2
  BY <1>3 DEF WritesInv, Shapes, KafkaFits, GroupData, Commits
<1>5. CASE request.op = "delete_offsets"
  <2>1. /\ plan' = held
        /\ IF held = {} THEN stage' = "idle" /\ answer' = "ok"
           ELSE stage' = "send" /\ answer' = "none"
    BY <1>2, <1>5 DEF ReadCommitted, KeepKafka, Keep, Finish
  <2> HIDE DEF held
  <2>2. stage' \in Stages BY <2>1 DEF Stages
  <2>3. Places' /\ Shapes' /\ (stage' = "idle" => Underway')
        /\ Fits(request)' /\ RefusedWrite(access', cluster', request'.op) = "no"
    BY <1>1, <2>2, ReadFrame
  <2>4. Underway' BY <1>1, <1>3, <2>1, <2>3 DEF Underway
  <2>5. Taken' BY <1>1, <1>2, <2>1 DEF Taken
  <2>6. OkMeansTaken'
    <3>1. CASE held = {}
      <4>1. Items(request)' = plan' BY <1>1, <1>5 DEF Items
      <4> QED BY <1>1, <1>2, <2>1, <3>1, <4>1, AnswerKinds DEF OkMeansTaken
    <3>2. CASE held # {} BY <2>1, <3>2, Unanswered
    <3> QED BY <3>1, <3>2
  <2>7. Planning' BY <1>1, <1>5 DEF Planning
  <2> QED BY <2>3, <2>4, <2>5, <2>6, <2>7 DEF WritesInv
<1>6. CASE request.op = "reset_offsets"
  <2>1. /\ plan' = [wanted |-> wanted, committed |-> kafka.committed]
        /\ stage' = "marks" /\ answer' = "none"
    BY <1>2, <1>6 DEF ReadCommitted, KeepKafka, Keep
  <2>2. request \in Resets BY <1>2, <1>6 DEF Fits
  <2>3. wanted \in SUBSET (1..2) /\ (request.topic # "none" => wanted \subseteq request.partitions)
    BY <1>4, <2>2 DEF Wanted, Resets
  <2> HIDE DEF wanted
  <2>4. PlanRead' BY <1>1, <1>4, <2>1, <2>3 DEF PlanRead, NamedOnly
  <2>5. stage' \in Stages BY <2>1 DEF Stages
  <2>6. Places' /\ Shapes'
        /\ Fits(request)' /\ RefusedWrite(access', cluster', request'.op) = "no"
    BY <1>1, <2>5, ReadFrame
  <2>7. Underway' BY <1>1, <1>3, <1>6, <2>1, <2>6 DEF Underway
  <2>8. Taken' BY <1>1, <1>2, <2>1 DEF Taken
  <2>9. OkMeansTaken' BY <2>1, Unanswered
  <2>10. Planning' BY <2>1, <2>4 DEF Planning
  <2> QED BY <2>6, <2>7, <2>8, <2>9, <2>10 DEF WritesInv
<1> QED BY <1>2, <1>5, <1>6

\* A reset that has read all it needs is refused, answered or sent, and whatever it
\* comes to is in the log that it read.
LEMMA PlannedKeeps ==
  ASSUME WritesInv, stage \in {"marks", "times"}, NEW marks \in Logs,
         UNCHANGED <<area, cluster, topic, readable, kafka, seen, access, request, disturbed, asked,
                     others, taken>>,
         plan.wanted \in SUBSET (1..2), plan.committed \in Commits, NamedOnly(plan.wanted),
         plan.wanted \subseteq DOMAIN marks,
         NEW atTimes \in [plan.wanted -> Int],
         request.to = "Timestamp" => \A p \in plan.wanted :
           /\ Moving(marks, p)
           /\ p \in DOMAIN kafka.log => atTimes[p] = TimeOffset(kafka.log[p]),
         Planned(marks, atTimes)
  PROVE  WritesInv'
<1> DEFINE moves == Moves(request, plan.wanted, plan.committed, marks, atTimes)
<1>1. /\ request.op = "reset_offsets" /\ Fits(request) /\ answer = "none" /\ taken = {}
  BY DEF WritesInv, Underway, Taken
<1>2. area = "groups" BY <1>1 DEF WritesInv, Places, Ops, Areas
<1>3. kafka.log \in Logs BY <1>2 DEF WritesInv, Shapes, KafkaFits, GroupData
<1>4. request \in Resets BY <1>1 DEF Fits
<1>5. request.to \in Targets BY <1>4 DEF Resets
<1>6. CASE Unplaced(request, plan.wanted, plan.committed)
  <2>1. stage' = "idle" /\ answer' = "no_committed_offset" /\ plan' = plan
    BY <1>6 DEF Planned, Finish
  <2>2. stage' \in Stages BY <2>1 DEF Stages
  <2>3. Places' /\ Shapes' /\ Underway' BY <2>1, <2>2, ReadFrame
  <2>4. Taken' BY <2>1 DEF Taken
  <2>5. OkMeansTaken' BY <1>1, <2>1 DEF OkMeansTaken
  <2>6. Planning' BY <2>1, <2>3, Standing, PlansStay
  <2> QED BY <2>3, <2>4, <2>5, <2>6 DEF WritesInv
<1>7. CASE ~Unplaced(request, plan.wanted, plan.committed)
  <2>1. /\ plan' = [moves |-> moves, marks |-> marks]
        /\ IF request.dry_run \/ DOMAIN moves = {} THEN stage' = "idle" /\ answer' = "ok"
           ELSE stage' = "send" /\ answer' = "none"
    BY <1>1, <1>7 DEF Planned, Finish
  <2>2. DOMAIN moves = plan.wanted BY DEF Moves
  <2>3. \A p \in plan.wanted :
          moves[p] = Place(request.to, plan.committed[p], marks[p], atTimes[p])
    BY DEF Moves
  <2>4. ASSUME NEW p \in plan.wanted
        PROVE  /\ moves[p] \in Int /\ moves[p] \in marks[p].low..marks[p].high
               /\ request.to = "Timestamp" /\ p \in DOMAIN kafka.log =>
                    moves[p] <= kafka.log[p].late
    <3>1. p \in DOMAIN marks /\ p \in 1..2 OBVIOUS
    <3>2. /\ marks[p] \in Spans /\ marks[p].low \in Nat /\ marks[p].high \in Nat
      BY <3>1, LogSpans
    <3>3. plan.committed[p] \in Int BY <3>1 DEF Commits
    <3>4. atTimes[p] \in Int OBVIOUS
    <3> DEFINE o == Place(request.to, plan.committed[p], marks[p], atTimes[p])
    <3>5. /\ o \in marks[p].low..marks[p].high
          /\ request.to = "Timestamp" =>
               o = marks[p].low \/ o <= IF atTimes[p] = NoOffset THEN marks[p].high ELSE atTimes[p]
      BY <1>5, <3>2, <3>3, <3>4, PlaceClamps
    <3> HIDE DEF o
    <3>6. ASSUME request.to = "Timestamp", p \in DOMAIN kafka.log
          PROVE  o <= kafka.log[p].late
      <4>1. /\ kafka.log[p].low \in Nat /\ kafka.log[p].high \in Nat /\ kafka.log[p].late \in Nat
            /\ kafka.log[p].low <= kafka.log[p].late
        BY <1>3, <3>6, LogSpans
      <4>2. marks[p].low <= kafka.log[p].low /\ marks[p].high <= kafka.log[p].high
        BY <3>6 DEF Moving
      <4>3. atTimes[p] = IF kafka.log[p].late = kafka.log[p].high THEN NoOffset
                         ELSE kafka.log[p].late
        BY <3>6 DEF TimeOffset
      <4>4. kafka.log[p].late # NoOffset BY <4>1 DEF NoOffset
      <4>5. (IF atTimes[p] = NoOffset THEN marks[p].high ELSE atTimes[p]) <= kafka.log[p].late
        BY <3>2, <4>1, <4>2, <4>3, <4>4
      <4>6. o \in Int BY <3>2, <3>5
      <4>7. (IF atTimes[p] = NoOffset THEN marks[p].high ELSE atTimes[p]) \in Int
        BY <3>2, <3>4
      <4> QED BY <3>2, <3>5, <3>6, <4>1, <4>2, <4>5, <4>6, <4>7
    <3>7. moves[p] = o BY <2>3 DEF o
    <3>8. o \in Int BY <3>2, <3>5
    <3> QED BY <3>5, <3>6, <3>7, <3>8
  <2>5. moves \in [plan.wanted -> Int] BY <2>4 DEF Moves
  <2> HIDE DEF moves
  <2>6. PlanMade'
    <3>1. moves \in UNION {[parts -> Int] : parts \in SUBSET (1..2)} BY <2>5
    <3>2. plan' \in [moves : UNION {[parts -> Int] : parts \in SUBSET (1..2)}, marks : Logs]
      BY <2>1, <3>1
    <3>3. plan'.moves = moves /\ plan'.marks = marks BY <2>1
    <3>4. \A p \in plan.wanted : Placed(plan.marks, plan.moves, p)'
      BY <2>4, <3>3 DEF Placed
    <3>5. NamedOnly(DOMAIN plan.moves)' BY <2>2, <3>3 DEF NamedOnly
    <3> QED BY <2>2, <3>2, <3>3, <3>4, <3>5 DEF PlanMade
  <2>7. stage' \in {"idle", "send"} /\ stage' \in Stages BY <2>1 DEF Stages
  <2>8. Places' /\ Shapes' /\ (stage' = "idle" => Underway')
        /\ Fits(request)' /\ RefusedWrite(access', cluster', request'.op) = "no"
    BY <2>7, ReadFrame
  <2>9. Underway' BY <1>2, <2>7, <2>8 DEF Underway
  <2>10. Taken' BY <1>1, <2>1 DEF Taken
  <2>11. OkMeansTaken'
    <3>1. CASE request.dry_run \/ DOMAIN moves = {}
      <4>1. answer' = "ok" BY <2>1, <3>1
      <4>2. plan'.moves = moves BY <2>1
      <4>3. Items(request)' = {} BY <1>1, <3>1, <4>2 DEF Items
      <4> QED BY <1>1, <4>1, <4>3, AnswerKinds DEF OkMeansTaken
    <3>2. CASE ~(request.dry_run \/ DOMAIN moves = {}) BY <2>1, <3>2, Unanswered
    <3> QED BY <3>1, <3>2
  <2>12. Planning' BY <2>6, <2>7 DEF Planning
  <2> QED BY <2>8, <2>9, <2>10, <2>11, <2>12 DEF WritesInv
<1> QED BY <1>6, <1>7

\* The watermarks are those of the log, unless a partition is gone by now.
LEMMA ReadMarksKeeps ==
  ASSUME WritesInv, ReadMarks
  PROVE  WritesInv'
<1>1. /\ UNCHANGED <<area, cluster, topic, readable, kafka, seen, access, request, disturbed, asked,
                     others, taken>>
      /\ stage = "marks"
  BY DEF ReadMarks, KeepKafka, Keep
<1>2. /\ request.op = "reset_offsets" /\ answer = "none" /\ taken = {} /\ PlanRead
  BY <1>1 DEF WritesInv, Underway, Taken, Planning
<1>3. area = "groups" BY <1>2 DEF WritesInv, Places, Ops, Areas
<1>4. kafka.log \in Logs BY <1>3 DEF WritesInv, Shapes, KafkaFits, GroupData
<1>5. plan.wanted \in SUBSET (1..2) /\ plan.committed \in Commits /\ NamedOnly(plan.wanted)
  BY <1>2 DEF PlanRead
<1>6. CASE ~(plan.wanted \subseteq DOMAIN kafka.log)
  <2>1. stage' = "idle" /\ answer' = "unknown_partition" /\ plan' = plan
    BY <1>6 DEF ReadMarks, KeepKafka, Keep, Finish
  <2>2. stage' \in Stages BY <2>1 DEF Stages
  <2>3. Places' /\ Shapes' /\ Underway' BY <1>1, <2>1, <2>2, ReadFrame
  <2>4. Taken' BY <2>1 DEF Taken
  <2>5. OkMeansTaken' BY <1>1, <1>2, <2>1 DEF OkMeansTaken
  <2>6. Planning' BY <1>1, <2>1, <2>3, Standing, PlansStay
  <2> QED BY <2>3, <2>4, <2>5, <2>6 DEF WritesInv
<1>7. CASE plan.wanted \subseteq DOMAIN kafka.log /\ request.to = "Timestamp"
  <2>1. /\ plan' = [wanted |-> plan.wanted, committed |-> plan.committed,
                    marks |-> kafka.log]
        /\ stage' = "times" /\ answer' = "none"
    BY <1>2, <1>7 DEF ReadMarks, KeepKafka, Keep
  <2>2. stage' \in Stages BY <2>1 DEF Stages
  <2>3. Places' /\ Shapes' /\ Fits(request)'
        /\ RefusedWrite(access', cluster', request'.op) = "no"
    BY <1>1, <2>2, ReadFrame
  <2>4. Underway' BY <1>1, <1>2, <1>3, <2>1, <2>3 DEF Underway
  <2>5. Taken' BY <1>1, <1>2, <2>1 DEF Taken
  <2>6. OkMeansTaken' BY <2>1, Unanswered
  <2>7. PlanMarked'
    <3>1. plan' \in [wanted : SUBSET (1..2), committed : Commits, marks : Logs]
      BY <1>4, <1>5, <2>1
    <3>2. plan'.wanted = plan.wanted /\ plan'.marks = kafka.log BY <2>1
    <3>3. \A p \in plan.wanted :
            kafka.log[p].low <= kafka.log[p].low /\ kafka.log[p].high <= kafka.log[p].high
      <4>1. \A p \in plan.wanted : kafka.log[p].low \in Nat /\ kafka.log[p].high \in Nat
        BY <1>4, <1>7, LogSpans
      <4> QED BY <4>1
    <3>4. \A p \in plan.wanted : Moving(plan.marks, p)' BY <1>1, <3>2, <3>3 DEF Moving
    <3>5. NamedOnly(plan.wanted)' BY <1>1, <1>5, <3>2 DEF NamedOnly
    <3> QED BY <1>1, <1>7, <3>1, <3>2, <3>4, <3>5 DEF PlanMarked
  <2>8. Planning' BY <2>1, <2>7 DEF Planning
  <2> QED BY <2>3, <2>4, <2>5, <2>6, <2>8 DEF WritesInv
<1>8. CASE plan.wanted \subseteq DOMAIN kafka.log /\ request.to # "Timestamp"
  <2> DEFINE none == [p \in plan.wanted |-> NoOffset]
  <2>1. Planned(kafka.log, none) BY <1>8 DEF ReadMarks, KeepKafka, Keep
  <2>2. none \in [plan.wanted -> Int] BY DEF NoOffset
  <2> HIDE DEF none
  <2> QED BY <1>1, <1>4, <1>5, <1>8, <2>1, <2>2, PlannedKeeps
<1> QED BY <1>6, <1>7, <1>8

\* The offsets of an instant are looked up in a log that may have moved on since its
\* watermarks were read.
LEMMA ReadTimesKeeps ==
  ASSUME WritesInv, ReadTimes
  PROVE  WritesInv'
<1> DEFINE atTimes == [p \in plan.wanted |->
                         IF p \in DOMAIN kafka.log THEN TimeOffset(kafka.log[p]) ELSE NoOffset]
<1>1. /\ UNCHANGED <<area, cluster, topic, readable, kafka, seen, access, request, disturbed, asked,
                     others, taken>>
      /\ stage = "times" /\ Planned(plan.marks, atTimes)
  BY DEF ReadTimes, KeepKafka, Keep
<1>2. request.op = "reset_offsets" /\ PlanMarked
  BY <1>1 DEF WritesInv, Underway, Planning
<1>3. area = "groups" BY <1>2 DEF WritesInv, Places, Ops, Areas
<1>4. kafka.log \in Logs BY <1>3 DEF WritesInv, Shapes, KafkaFits, GroupData
<1>5. /\ plan.wanted \in SUBSET (1..2) /\ plan.committed \in Commits /\ NamedOnly(plan.wanted)
      /\ plan.marks \in Logs /\ plan.wanted \subseteq DOMAIN plan.marks
      /\ \A p \in plan.wanted : Moving(plan.marks, p)
  BY <1>2 DEF PlanMarked
<1>6. atTimes \in [plan.wanted -> Int]
  <2>1. \A p \in DOMAIN kafka.log : TimeOffset(kafka.log[p]) \in Int
    <3>1. \A p \in DOMAIN kafka.log : kafka.log[p].late \in Nat BY <1>4, LogSpans
    <3> QED BY <3>1 DEF TimeOffset, NoOffset
  <2> QED BY <2>1 DEF NoOffset
<1>7. \A p \in plan.wanted : p \in DOMAIN kafka.log => atTimes[p] = TimeOffset(kafka.log[p])
  OBVIOUS
<1> HIDE DEF atTimes
<1> QED BY <1>1, <1>5, <1>6, <1>7, PlannedKeeps

\* A read that fails ends the request before anything is sent.
LEMMA ReadFailsKeeps ==
  ASSUME WritesInv, ReadFails
  PROVE  WritesInv'
<1>1. /\ UNCHANGED <<area, cluster, topic, readable, kafka, seen, access, request, disturbed, asked,
                     others, taken, plan>>
      /\ stage' = "idle" /\ answer' \in {"admin", "schema_registry"}
  BY DEF ReadFails, KeepKafka, Keep, Finish
<1>2. stage' \in Stages BY <1>1 DEF Stages
<1>3. Places' /\ Shapes' /\ Underway' BY <1>1, <1>2, ReadFrame
<1>4. Taken' BY <1>1 DEF Taken
<1>5. OkMeansTaken' BY <1>1, Unanswered
<1>6. Planning' BY <1>1, <1>3, Standing, PlansStay
<1> QED BY <1>3, <1>4, <1>5, <1>6 DEF WritesInv

\* What is deleted for good was deleted softly before, and can be as long as no one
\* else does it first.
LEMMA SoftDeleteKeeps ==
  ASSUME WritesInv, SoftDelete
  PROVE  WritesInv'
<1> DEFINE named == NamedVersions(kafka, request) \cap LiveVersions(kafka)
           soft == NamedVersions(kafka, request) \cap Having(kafka, "soft")
<1>1. /\ UNCHANGED <<area, cluster, topic, readable, seen, access, request, disturbed, asked, others, plan>>
      /\ stage = "send" /\ request.op = "delete_schemas"
  BY DEF SoftDelete, Keep
<1>2. answer = "none" /\ taken = {} /\ Fits(request) /\ RefusedWrite(access, cluster, request.op) = "no"
  BY <1>1 DEF WritesInv, Underway, Taken
<1>3. area = "subjects" BY <1>1 DEF WritesInv, Places, Ops, Areas
<1>4. kafka \in SubjectData BY <1>3 DEF WritesInv, Shapes, KafkaFits
<1>5. ASSUME kafka' = Mark(kafka, named, "live", "soft")
      PROVE  /\ kafka' \in SubjectData
             /\ \A v \in DOMAIN kafka.versions :
                  (IF v \in named /\ kafka.versions[v].is = "live" THEN "soft"
                   ELSE kafka.versions[v].is) = "soft" =>
                    /\ DOMAIN kafka'.versions = DOMAIN kafka.versions
                    /\ kafka'.versions[v].is = "soft"
  BY <1>4, <1>5, MarkFits
<1>11. kafka' \in SubjectData
  <2>1. kafka' = kafka \/ kafka' = Mark(kafka, named, "live", "soft") BY DEF SoftDelete, Keep
  <2> QED BY <2>1, <1>4, <1>5
<1>6. Shapes' BY <1>1, <1>3, <1>11 DEF WritesInv, Shapes, KafkaFits, SeenFits
<1>7. Fits(request)' BY <1>1, <1>2 DEF Fits, NamedTopics
<1>8. Planning' BY <1>1 DEF Planning
<1>9. CASE /\ named # {} \/ (soft # {} /\ request.permanent)
           /\ kafka' = Mark(kafka, named, "live", "soft") /\ taken' = {"soft"}
           /\ answer' = answer
           /\ stage' = IF request.permanent THEN "hard" ELSE "settle"
  <2>1. /\ taken' = {"soft"} /\ answer' = "none"
        /\ stage' = IF request.permanent THEN "hard" ELSE "settle"
    BY <1>2, <1>9
  <2>2. (NamedVersions(kafka, request) \cap Having(kafka, "soft"))' # {}
    <3>1. PICK v \in DOMAIN kafka.versions :
            v \in NamedVersions(kafka, request) /\ (v \in named \/ v \in soft)
      BY <1>9 DEF LiveVersions, Having
    <3>2. /\ v \in named => kafka.versions[v].is = "live"
          /\ v \in soft => kafka.versions[v].is = "soft"
      BY DEF LiveVersions, Having
    <3>3. DOMAIN kafka'.versions = DOMAIN kafka.versions /\ kafka'.versions[v].is = "soft"
      BY <1>5, <1>9, <3>1, <3>2
    <3>4. v \in NamedVersions(kafka', request') BY <1>1, <3>1, <3>3 DEF NamedVersions
    <3>5. v \in Having(kafka', "soft") BY <3>3 DEF Having
    <3> QED BY <3>4, <3>5
  <2>3. Places' BY <1>1, <2>1 DEF WritesInv, Places, Stages
  <2>4. Underway' BY <1>1, <1>2, <1>3, <1>7, <2>1 DEF Underway
  <2>5. ~request.permanent => Items(request)' = {"soft"} BY <1>1 DEF Items
  <2>6. Taken' BY <1>1, <2>1, <2>2, <2>5 DEF Taken
  <2>7. OkMeansTaken' BY <2>1, Unanswered
  <2> QED BY <1>6, <1>8, <2>3, <2>4, <2>6, <2>7 DEF WritesInv
<1>10. CASE /\ stage' = "idle"
            /\ \/ answer' \in {"schema_registry", "registry_refused"}
               \/ answer' = "unknown_subject" /\ taken' = {}
  <2>1. stage' = "idle" BY <1>10
  <2>2. Places' BY <1>1, <2>1 DEF WritesInv, Places, Stages
  <2>3. Underway' /\ Taken' BY <2>1 DEF Underway, Taken
  <2>4. OkMeansTaken'
    <3>1. CASE answer' \in {"schema_registry", "registry_refused"} BY <3>1, Unanswered
    <3>2. CASE answer' = "unknown_subject" /\ taken' = {} BY <3>2 DEF OkMeansTaken
    <3> QED BY <1>10, <3>1, <3>2
  <2> QED BY <1>6, <1>8, <2>2, <2>3, <2>4 DEF WritesInv
<1>12. Lost = "schema_registry" /\ Refusal = "registry_refused" BY <1>3 DEF Lost, Refusal
<1> QED BY <1>2, <1>9, <1>10, <1>12 DEF SoftDelete, Keep, Finish

\* The second half of a permanent deletion is answered as unknown only when another
\* client took the versions away.
LEMMA HardDeleteKeeps ==
  ASSUME WritesInv, HardDelete
  PROVE  WritesInv'
<1> DEFINE soft == NamedVersions(kafka, request) \cap Having(kafka, "soft")
<1>1. /\ UNCHANGED <<area, cluster, topic, readable, seen, access, request, disturbed, asked, others, plan>>
      /\ stage = "hard"
  BY DEF HardDelete, Keep
<1>2. /\ answer = "none" /\ Fits(request) /\ RefusedWrite(access, cluster, request.op) = "no"
      /\ request.op = "delete_schemas" /\ request.permanent
      /\ taken = {"soft"} /\ (~disturbed => soft # {})
  BY <1>1 DEF WritesInv, Underway, Taken
<1>3. area = "subjects" BY <1>2 DEF WritesInv, Places, Ops, Areas
<1>4. kafka \in SubjectData BY <1>3 DEF WritesInv, Shapes, KafkaFits
<1>5. Fits(request)' BY <1>1, <1>2 DEF Fits, NamedTopics
<1>6. Planning' BY <1>1, <1>2 DEF Planning
<1>9. Lost = "schema_registry" /\ Refusal = "registry_refused" BY <1>3 DEF Lost, Refusal
<1>7. CASE /\ kafka' = Mark(kafka, soft, "soft", "hard")
           /\ taken' = taken \union {"hard"} /\ stage' = "settle" /\ answer' = answer
  <2>1. kafka' \in SubjectData BY <1>4, <1>7, MarkFits
  <2>2. Shapes' BY <1>1, <1>3, <2>1 DEF WritesInv, Shapes, KafkaFits, SeenFits
  <2>3. Places' BY <1>1, <1>7 DEF WritesInv, Places, Stages
  <2>4. Underway' BY <1>1, <1>2, <1>3, <1>5, <1>7 DEF Underway
  <2>5. Items(request)' = {"soft", "hard"} BY <1>1, <1>2 DEF Items
  <2>6. Taken' BY <1>2, <1>7, <2>5 DEF Taken
  <2>7. OkMeansTaken' BY <1>2, <1>7, Unanswered
  <2> QED BY <1>6, <2>2, <2>3, <2>4, <2>6, <2>7 DEF WritesInv
<1>8. CASE /\ stage' = "idle"
           /\ kafka' = kafka \/ kafka' = Mark(kafka, soft, "soft", "hard")
           /\ \/ answer' \in {"schema_registry", "registry_refused"}
              \/ answer' = "unknown_subject" /\ soft = {} /\ UNCHANGED <<kafka, taken>>
  <2>5. kafka' \in SubjectData BY <1>4, <1>8, MarkFits
  <2>1. Shapes' BY <1>1, <1>3, <2>5 DEF WritesInv, Shapes, KafkaFits, SeenFits
  <2>2. Places' BY <1>1, <1>8 DEF WritesInv, Places, Stages
  <2>3. Underway' /\ Taken' BY <1>8 DEF Underway, Taken
  <2>4. OkMeansTaken'
    <3>1. CASE answer' = "unknown_subject" /\ soft = {} BY <1>1, <1>2, <3>1 DEF OkMeansTaken
    <3>2. CASE answer' \in {"schema_registry", "registry_refused"} BY <3>2, Unanswered
    <3> QED BY <1>8, <3>1, <3>2
  <2> QED BY <1>6, <2>1, <2>2, <2>3, <2>4 DEF WritesInv
<1> QED BY <1>7, <1>8, <1>9 DEF HardDelete, Keep, Finish

\* A lookup that finds nothing is an error of the registry, not of the caller.
LEMMA LookUpKeeps ==
  ASSUME WritesInv, LookUp
  PROVE  WritesInv'
<1>1. /\ UNCHANGED <<area, cluster, topic, readable, kafka, seen, access, request, disturbed, asked,
                     others, taken>>
      /\ stage = "lookup"
      /\ \/ stage' = "idle" /\ answer' = "schema_registry"
         \/ stage' = "settle" /\ answer' = answer
  BY DEF LookUp, KeepKafka, Keep, Finish
<1>2. request.op = "register_schemas" /\ answer = "none" /\ taken = Items(request)
  BY <1>1 DEF WritesInv, Underway, Taken
<1>3. area = "subjects" BY <1>2 DEF WritesInv, Places, Ops, Areas
<1>4. stage' \in Stages BY <1>1 DEF Stages
<1>5. /\ Places' /\ Shapes' /\ (stage' = "idle" => Underway')
      /\ Fits(request)' /\ RefusedWrite(access', cluster', request'.op) = "no"
  BY <1>1, <1>4, ReadFrame
<1>6. Underway' BY <1>1, <1>3, <1>5 DEF Underway
<1>7. Items(request)' = Items(request) BY <1>1, <1>2, ItemsStay
<1>8. Taken' BY <1>1, <1>2, <1>7 DEF Taken
<1>9. OkMeansTaken' BY <1>1, <1>2, Unanswered
<1>10. Planning' BY <1>1, <1>2 DEF Planning
<1> QED BY <1>5, <1>6, <1>8, <1>9, <1>10 DEF WritesInv

\* The walk over the references of a schema sends nothing.
LEMMA WalkKeeps ==
  ASSUME WritesInv, FetchWave \/ OrderStep
  PROVE  WritesInv'
<1>1. /\ UNCHANGED <<area, cluster, topic, readable, kafka, seen, access, request, disturbed, asked,
                     others, taken, answer>>
      /\ stage \in {"fetch", "order"} /\ stage' \in {"fetch", "order", "encoded"}
  BY DEF FetchWave, OrderStep, KeepKafka, Keep
<1>2. area = "encode" /\ answer = "none" /\ taken = {}
  BY <1>1 DEF WritesInv, Underway, Taken
<1>3. stage' \in Stages BY <1>1 DEF Stages
<1>4. /\ Places' /\ Shapes'
      /\ Fits(request)' /\ RefusedWrite(access', cluster', request'.op) = "no"
  BY <1>1, <1>3, ReadFrame
<1>5. Underway' BY <1>1, <1>2, <1>4 DEF Underway
<1>6. Taken' BY <1>1, <1>2 DEF Taken
<1>7. OkMeansTaken' BY <1>1, <1>2, Unanswered
<1>8. request.op \in {"produce", "none"} BY <1>2 DEF WritesInv, Places, Ops
<1>9. Planning' BY <1>1, <1>8 DEF Planning
<1> QED BY <1>4, <1>5, <1>6, <1>7, <1>9 DEF WritesInv

\* A produced record is the one item of its request.
LEMMA ProduceKeeps ==
  ASSUME WritesInv, NEW p, Produce(p)
  PROVE  WritesInv'
<1>1. /\ UNCHANGED <<area, cluster, topic, readable, seen, access, request, plan, disturbed, asked, others>>
      /\ stage = "send" /\ request.op = "produce"
      /\ kafka' = [kafka EXCEPT ![p].high = @ + 1]
      /\ taken' = Items(request) /\ stage' = "idle" /\ answer' = "ok"
  BY DEF Produce, Finish
<1>2. area = "records" BY <1>1 DEF WritesInv, Places, Underway, Ops, Areas
<1>3. DOMAIN kafka' = DOMAIN kafka BY <1>1
<1>4. Places' BY <1>1 DEF WritesInv, Places, Stages
<1>5. Shapes' BY <1>1, <1>2, <1>3 DEF WritesInv, Shapes, KafkaFits, SeenFits
<1>6. Underway' /\ Taken' BY <1>1 DEF Underway, Taken
<1>7. Items(request)' = Items(request) BY <1>1, ItemsStay
<1>8. OkMeansTaken' BY <1>1, <1>7, AnswerKinds DEF OkMeansTaken
<1>9. Planning' BY <1>1 DEF Planning
<1> QED BY <1>4, <1>5, <1>6, <1>8, <1>9 DEF WritesInv

\* A handler that ends without another word to Kafka.
LEMMA EndingKeeps ==
  ASSUME WritesInv, ProduceFails \/ Settled \/ SettleTimesOut
  PROVE  WritesInv'
<1>1. /\ UNCHANGED <<area, cluster, topic, readable, kafka, seen, access, request, plan, taken, disturbed,
                     asked, others>>
      /\ stage' = "idle"
      /\ answer' \in {"refused", "timeout"} \/ (stage = "settle" /\ answer' = "ok")
  BY DEF ProduceFails, Settled, SettleTimesOut, Finish, history
<1>2. stage' \in Stages BY <1>1 DEF Stages
<1>3. Places' /\ Shapes' /\ Underway' BY <1>1, <1>2, ReadFrame
<1>4. Taken' BY <1>1 DEF Taken
<1>5. OkMeansTaken'
  <2>1. CASE answer' \in {"refused", "timeout"} BY <2>1, Unanswered
  <2>2. CASE stage = "settle" /\ answer' = "ok"
    <3>1. taken = Items(request) BY <2>2 DEF WritesInv, Taken
    <3>2. Items(request)' = Items(request) BY <1>1, ItemsStay
    <3> QED BY <1>1, <2>2, <3>1, <3>2, AnswerKinds DEF OkMeansTaken
  <2> QED BY <1>1, <2>1, <2>2
<1>6. Planning' BY <1>1, <1>3, Standing, PlansStay
<1> QED BY <1>3, <1>4, <1>5, <1>6 DEF WritesInv

\* What a poll reads has the shape of the tables, whatever it could not read.
LEMMA ReadsFit ==
  ASSUME Places, Shapes, NEW table \in Reads
  PROVE  SeenFits(table)
<1>1. CASE area = "topics"
  <2>1. table = TopicTable(kafka) BY <1>1 DEF Reads, Table
  <2> QED BY <1>1, <2>1 DEF TopicTable, SeenFits
<1>2. CASE area = "records"
  <2>1. table = kafka BY <1>2 DEF Reads, Table
  <2> QED BY <1>2, <2>1 DEF Shapes, KafkaFits, SeenFits
<1>3. CASE area = "groups"
  <2> DEFINE Rows == [state : GroupStates \union {"Unknown"}, parts : SUBSET (1..2),
                      offsets : Commits]
  <2>1. kafka \in GroupData /\ seen \in Rows BY <1>3 DEF Shapes, KafkaFits, SeenFits
  <2>2. table \in GroupPolls(kafka, seen) BY <1>3 DEF Reads
  <2>3. DOMAIN kafka.log \in SUBSET (1..2)
    <3>1. PICK parts \in SUBSET (1..2) : kafka.log \in [parts -> Spans]
      BY <2>1 DEF GroupData, Logs
    <3> QED BY <3>1
  <2>4. GroupReads(kafka) \subseteq GroupStates \union {"Unknown"}
    BY <2>1 DEF GroupReads, GroupData, GroupStates, FromDescription
  <2>5. GroupTable(kafka) \in Rows BY <2>1, <2>3 DEF GroupTable, GroupData
  <2>6. \A state \in GroupReads(kafka) : [GroupTable(kafka) EXCEPT !.state = state] \in Rows
    BY <2>4, <2>5
  <2>7. \A read \in Rows : \A offsets \in Commits : [read EXCEPT !.offsets = offsets] \in Rows
    OBVIOUS
  <2>8. seen.offsets \in Commits /\ kafka.committed \in Commits BY <2>1 DEF GroupData
  <2> HIDE DEF Rows
  <2>9. table \in Rows BY <2>1, <2>2, <2>6, <2>7, <2>8 DEF GroupPolls
  <2> QED BY <1>3, <2>9 DEF SeenFits, Rows
<1>4. CASE area \notin {"topics", "records", "groups"} BY <1>4 DEF SeenFits
<1> QED BY <1>1, <1>2, <1>3, <1>4

\* A poll changes no item of the request that is under way.
LEMMA PollKeeps ==
  ASSUME WritesInv, Poll
  PROVE  WritesInv'
<1>1. UNCHANGED <<area, cluster, topic, readable, kafka, access, request, stage, answer, plan, taken,
                  disturbed, asked, others>>
  BY DEF Poll, progress, history
<1>2. SeenFits(seen') BY ReadsFit DEF WritesInv, Poll
<1>3. Places' BY <1>1 DEF WritesInv, Places
<1>4. Shapes' BY <1>1, <1>2 DEF WritesInv, Shapes, KafkaFits, SeenFits
<1>5. Underway' BY <1>1 DEF WritesInv, Underway, Fits, NamedTopics
<1>7. Items(request)' = Items(request) BY <1>1, ItemsStay
<1>8. Taken' BY <1>1, <1>7 DEF WritesInv, Taken
<1>9. OkMeansTaken' BY <1>1, <1>7 DEF WritesInv, OkMeansTaken
<1>10. Planning' BY <1>1, <1>4, Standing, PlansStay
<1> QED BY <1>3, <1>4, <1>5, <1>8, <1>9, <1>10 DEF WritesInv

\* A request that is sent is refused, lost or taken whole, and only the last goes on.
LEMMA SendKeeps ==
  ASSUME WritesInv, NEW failed, Send(failed)
  PROVE  WritesInv'
<1> DEFINE items == Items(request)
<1>1. /\ UNCHANGED <<area, cluster, topic, readable, seen, access, request, disturbed, asked, others>>
      /\ stage = "send" /\ request.op \notin {"produce", "delete_schemas"}
      /\ failed \subseteq items /\ taken' = items \ failed
      /\ kafka' = IF items = failed THEN kafka ELSE Take(request, kafka, items \ failed)
      /\ request.op # "delete_records" => plan' = plan
      /\ \/ stage' = "idle" /\ answer' \in {Refusal, Lost}
         \/ /\ failed = {} /\ answer' = "none"
            /\ stage' = IF request.op = "register_schemas" THEN "lookup" ELSE "settle"
  BY DEF Send, Finish, AnyFailed
<1>2. Fits(request) /\ RefusedWrite(access, cluster, request.op) = "no" /\ area # "encode"
  BY <1>1 DEF WritesInv, Underway
<1>3. request.op \in Ops(area) /\ area \in Areas BY <1>2 DEF Fits, WritesInv, Places
<1>4. request.op = "reset_offsets" => \A p \in items : plan.moves[p] \in Int
  <2>1. SUFFICES ASSUME request.op = "reset_offsets" PROVE \A p \in items : plan.moves[p] \in Int
    OBVIOUS
  <2>2. items \subseteq DOMAIN plan.moves BY <2>1 DEF Items
  <2>3. plan.moves \in UNION {[parts -> Int] : parts \in SUBSET (1..2)}
    BY <1>1, <2>1 DEF WritesInv, Planning, PlanMade
  <2>4. PICK parts \in SUBSET (1..2) : plan.moves \in [parts -> Int] BY <2>3
  <2> QED BY <2>2, <2>4
<1>5. KafkaFits(kafka')
  <2>1. KafkaFits(kafka) /\ Places BY DEF WritesInv, Shapes
  <2>2. request.op = "create_acls" => items \subseteq request.rows BY DEF Items
  <2>3. KafkaFits(Take(request, kafka, items \ failed))
    BY <1>1, <1>2, <1>3, <1>4, <2>1, <2>2, TakeFits DEF Fits
  <2> QED BY <1>1, <2>1, <2>3
<1>6. Places' BY <1>1 DEF WritesInv, Places, Stages
<1>7. Shapes' BY <1>1, <1>5 DEF WritesInv, Shapes, KafkaFits, SeenFits
<1>8. Fits(request)' BY <1>1, <1>2 DEF Fits, NamedTopics
<1>9. Underway' BY <1>1, <1>2, <1>8 DEF Underway
<1>10. Items(request)' = items BY <1>1, ItemsStay
<1>11. Taken' BY <1>1, <1>10 DEF Taken
<1>12. OkMeansTaken'
  <2>1. answer' \in {"none", "timeout", "schema_registry", "refused", "registry_refused"}
    BY <1>1 DEF Refusal, Lost
  <2> QED BY <2>1, Unanswered
<1>13. Planning'
  <2>1. CASE request.op = "reset_offsets"
    <3>1. area = "groups" BY <1>3, <2>1 DEF Ops, Areas
    <3>2. items \ failed \in SUBSET Items(request) OBVIOUS
    <3>3. kafka'.log = kafka.log
      <4>1. CASE kafka' = kafka BY <4>1
      <4>2. CASE kafka' = Take(request, kafka, items \ failed)
        <5>1. Untouched BY <1>1, <3>2, <4>2, TakeTouches
        <5> QED BY <3>1, <5>1 DEF Untouched
      <4> QED BY <1>1, <4>1, <4>2
    <3>4. stage' = "idle" \/ stage' = "settle" BY <1>1, <2>1
    <3> QED BY <1>1, <1>7, <2>1, <3>3, <3>4, Standing, PlansStay
  <2>2. CASE request.op # "reset_offsets" BY <1>1, <2>2 DEF Planning
  <2> QED BY <2>1, <2>2
<1> QED BY <1>6, <1>7, <1>9, <1>11, <1>12, <1>13 DEF WritesInv

\* What other clients do to a group keeps its shape, and its log only moves on or goes.
LEMMA OthersMoveGroups ==
  ASSUME WritesInv, area = "groups", kafka' \in OthersMake
  PROVE  kafka' \in GroupData /\ Onward
<1>1. kafka \in GroupData /\ kafka.log \in Logs
  BY DEF WritesInv, Shapes, KafkaFits, GroupData
<1>2. \A p \in DOMAIN kafka.log :
        /\ p \in 1..2
        /\ kafka.log[p] \in Spans /\ kafka.log[p].low \in Nat /\ kafka.log[p].high \in Nat
        /\ kafka.log[p].late \in Nat
        /\ kafka.log[p].low <= kafka.log[p].late /\ kafka.log[p].late <= kafka.log[p].high
  BY <1>1, LogSpans
<1>3. PICK parts \in SUBSET (1..2) : kafka.log \in [parts -> Spans] BY <1>1 DEF Logs
<1>4. ASSUME NEW p \in DOMAIN kafka.log, NEW span \in Spans
      PROVE  /\ [kafka EXCEPT !.log[p] = span] \in GroupData
             /\ [kafka EXCEPT !.log[p] = span].log = [kafka.log EXCEPT ![p] = span]
             /\ \A q \in DOMAIN kafka.log :
                  [kafka.log EXCEPT ![p] = span][q] = IF q = p THEN span ELSE kafka.log[q]
             /\ DOMAIN [kafka.log EXCEPT ![p] = span] = DOMAIN kafka.log
  <2>1. [kafka.log EXCEPT ![p] = span] \in [parts -> Spans] BY <1>3
  <2>2. [kafka.log EXCEPT ![p] = span] \in Logs BY <2>1 DEF Logs
  <2>3. [kafka EXCEPT !.log[p] = span] = [kafka EXCEPT !.log = [kafka.log EXCEPT ![p] = span]]
    BY <1>1 DEF GroupData
  <2>4. PICK log \in Logs : log = [kafka.log EXCEPT ![p] = span] BY <2>2
  <2>5. [kafka EXCEPT !.log = log] \in GroupData /\ [kafka EXCEPT !.log = log].log = log
    BY <1>1 DEF GroupData
  <2> QED BY <2>3, <2>4, <2>5
<1>5. ASSUME NEW p \in DOMAIN kafka.log, NEW span \in Spans,
             kafka' = [kafka EXCEPT !.log[p] = span],
             kafka.log[p].low <= span.low, kafka.log[p].high <= span.high,
             kafka.log[p].late <= span.late
      PROVE  kafka' \in GroupData /\ Onward
  BY <1>2, <1>4, <1>5 DEF Onward
<1>6. CASE \E state \in GroupStates : kafka' = [kafka EXCEPT !.state = state]
  <2>1. kafka' \in GroupData /\ kafka'.log = kafka.log BY <1>1, <1>6 DEF GroupData
  <2> QED BY <2>1, Standing
<1>7. CASE \E p \in DOMAIN kafka.log :
             kafka' = [kafka EXCEPT !.committed[p] = kafka.log[p].high]
  <2>1. PICK p \in DOMAIN kafka.log : kafka' = [kafka EXCEPT !.committed[p] = kafka.log[p].high]
    BY <1>7
  <2>2. kafka.committed \in Commits BY <1>1 DEF GroupData
  <2>3. PICK c \in Commits : c = [kafka.committed EXCEPT ![p] = kafka.log[p].high]
    <3>1. kafka.log[p].high \in Int BY <1>2
    <3>2. [kafka.committed EXCEPT ![p] = kafka.log[p].high] \in Commits
      BY <2>2, <3>1 DEF Commits
    <3> QED BY <3>2
  <2>4. kafka' = [kafka EXCEPT !.committed = c] BY <1>1, <2>1, <2>3 DEF GroupData
  <2>5. kafka' \in GroupData /\ kafka'.log = kafka.log BY <1>1, <2>4 DEF GroupData
  <2> QED BY <2>5, Standing
<1>8. CASE \E p \in DOMAIN kafka.log :
             /\ kafka.log[p].late = kafka.log[p].high
             /\ kafka' \in {Grown(kafka, p, 0), Grown(kafka, p, 1)}
  <2>1. PICK p \in DOMAIN kafka.log, more \in {0, 1} :
          kafka.log[p].late = kafka.log[p].high /\ kafka' = Grown(kafka, p, more)
    BY <1>8
  <2>2. PICK span : span = [low |-> kafka.log[p].low, high |-> kafka.log[p].high + 1,
                            late |-> kafka.log[p].late + more]
    OBVIOUS
  <2>3. span \in Spans BY <1>2, <2>1, <2>2 DEF Spans
  <2>4. kafka' = [kafka EXCEPT !.log[p] = span] BY <1>1, <2>1, <2>2 DEF Grown, GroupData
  <2>5. /\ kafka.log[p].low <= span.low /\ kafka.log[p].high <= span.high
        /\ kafka.log[p].late <= span.late
    BY <1>2, <2>1, <2>2
  <2> QED BY <1>5, <2>3, <2>4, <2>5
<1>9. CASE \E p \in DOMAIN kafka.log : kafka' = Expired(kafka, p)
  <2>1. PICK p \in DOMAIN kafka.log : kafka' = Expired(kafka, p) BY <1>9
  <2>2. PICK span : span = [low |-> kafka.log[p].high, high |-> kafka.log[p].high,
                            late |-> kafka.log[p].high]
    OBVIOUS
  <2>3. span \in Spans BY <1>2, <2>2 DEF Spans
  <2>4. kafka' = [kafka EXCEPT !.log[p] = span] BY <1>1, <2>1, <2>2 DEF Expired, GroupData
  <2>5. /\ kafka.log[p].low <= span.low /\ kafka.log[p].high <= span.high
        /\ kafka.log[p].late <= span.late
    BY <1>2, <2>2
  <2> QED BY <1>5, <2>3, <2>4, <2>5
<1>10. CASE kafka' = [kafka EXCEPT !.log = <<>>]
  <2>1. <<>> \in Logs
    <3>1. <<>> \in [{} -> Spans] OBVIOUS
    <3> QED BY <3>1 DEF Logs
  <2>2. kafka' \in GroupData /\ kafka'.log = <<>> BY <1>1, <1>10, <2>1 DEF GroupData
  <2> QED BY <2>2 DEF Onward
<1> DEFINE Restated == {[kafka EXCEPT !.state = state] : state \in GroupStates}
           Consumed == {[kafka EXCEPT !.committed[p] = kafka.log[p].high] : p \in DOMAIN kafka.log}
           Growing == {p \in DOMAIN kafka.log : /\ kafka.log[p].high < MaxOffset
                                                /\ kafka.log[p].late = kafka.log[p].high}
           Produced == UNION {{Grown(kafka, p, 0), Grown(kafka, p, 1)} : p \in Growing}
           Retained == {Expired(kafka, p) : p \in DOMAIN kafka.log}
<1>11. kafka' \in Restated \union Consumed \union Produced \union Retained
                  \union {[kafka EXCEPT !.log = <<>>]}
  <2>1. kafka' \in GroupChanges(kafka) BY DEF OthersMake
  <2> QED BY <2>1 DEF GroupChanges
<1>12. CASE kafka' \in Restated BY <1>6, <1>12
<1>13. CASE kafka' \in Consumed BY <1>7, <1>13
<1>14. CASE kafka' \in Produced BY <1>8, <1>14
<1>15. CASE kafka' \in Retained BY <1>9, <1>15
<1> HIDE DEF Restated, Consumed, Produced, Retained
<1> QED BY <1>10, <1>11, <1>12, <1>13, <1>14, <1>15

\* What other clients do to the other areas keeps their shape.
LEMMA OthersFit ==
  ASSUME WritesInv, area # "groups", kafka' \in OthersMake
  PROVE  KafkaFits(kafka')
<1>1. Places /\ Shapes /\ KafkaFits(kafka) BY DEF WritesInv, Shapes
<1>2. CASE area = "subjects"
  <2>1. kafka \in SubjectData BY <1>1, <1>2 DEF KafkaFits
  <2>2. \/ \E schema \in Schemas : kafka' = Register(kafka, schema)
        \/ \E v \in DOMAIN kafka.versions, from \in {"live", "soft"} :
             kafka' = Mark(kafka, {v}, from, IF from = "live" THEN "soft" ELSE "hard")
    BY <1>2 DEF OthersMake
  <2>3. kafka' \in SubjectData
    <3>1. CASE \E schema \in Schemas : kafka' = Register(kafka, schema)
      BY <2>1, <3>1, RegisterFits
    <3>2. CASE \E v \in DOMAIN kafka.versions, from \in {"live", "soft"} :
                 kafka' = Mark(kafka, {v}, from, IF from = "live" THEN "soft" ELSE "hard")
      <4>1. PICK v \in DOMAIN kafka.versions, from \in {"live", "soft"}, to \in {"soft", "hard"} :
              kafka' = Mark(kafka, {v}, from, to)
        BY <3>2
      <4> QED BY <2>1, <4>1, MarkFits
    <3> QED BY <2>2, <3>1, <3>2
  <2> QED BY <1>2, <2>3 DEF KafkaFits
<1>3. CASE area = "encode" BY <1>3 DEF KafkaFits
<1>4. CASE area \in {"topics", "configs", "records", "acls", "quotas", "scram"}
  <2>1. PICK raw \in Requests :
          /\ Parsed(raw) # Invalid /\ Parsed(raw).op # "produce"
          /\ Known(Parsed(raw)) = "no" \/ area \in {"topics", "configs", "records"}
          /\ kafka' = Take(Parsed(raw), kafka, Items(Parsed(raw)))
    BY <1>4 DEF OthersMake
  <2>2. PICK r : r = Parsed(raw) OBVIOUS
  <2>3. r.op \in Ops(area) BY <1>1, <2>1, <2>2, RequestOps
  <2>4. r.op \notin {"delete_schemas", "reset_offsets", "register_schemas",
                     "set_compatibility"}
    BY <1>4, <2>3 DEF Ops
  <2>5. area = "acls" => r.rows \subseteq {acl \in Acls : acl.pattern = "Literal"}
    BY <1>1, <2>1, <2>2, KnownFits
  <2>6. r.op = "create_acls" => Items(r) \subseteq r.rows BY DEF Items
  <2>7. KafkaFits(Take(r, kafka, Items(r)))
    BY <1>1, <2>1, <2>2, <2>3, <2>4, <2>5, <2>6, TakeFits
  <2> QED BY <2>1, <2>2, <2>7
<1> QED BY <1>1, <1>2, <1>3, <1>4 DEF Places, Areas

\* Other clients leave a request with what it read and what was taken of it.
LEMMA OtherClientKeeps ==
  ASSUME WritesInv, OtherClient
  PROVE  WritesInv'
<1>1. /\ UNCHANGED <<area, cluster, topic, readable, seen, access, request, stage, answer, plan, taken, asked>>
      /\ kafka' \in OthersMake /\ disturbed' = TRUE /\ others' = others + 1
  BY DEF OtherClient, progress
<1>2. KafkaFits(kafka') /\ Onward
  <2>1. CASE area = "groups"
    <3>1. kafka' \in GroupData /\ Onward BY <1>1, <2>1, OthersMoveGroups
    <3> QED BY <2>1, <3>1 DEF KafkaFits
  <2>2. CASE area # "groups"
    <3>1. request.op # "reset_offsets" BY <2>2 DEF WritesInv, Places, Ops, Areas
    <3> QED BY <1>1, <2>2, <3>1, OthersFit DEF Onward
  <2> QED BY <2>1, <2>2
<1>3. Places' BY <1>1 DEF WritesInv, Places
<1>4. Shapes' BY <1>1, <1>2 DEF WritesInv, Shapes, KafkaFits, SeenFits
<1>5. Underway' BY <1>1 DEF WritesInv, Underway, Fits, NamedTopics
<1>6. Items(request)' = Items(request) BY <1>1, ItemsStay
<1>7. Taken' BY <1>1, <1>6 DEF WritesInv, Taken
<1>8. OkMeansTaken' BY <1>1, <1>6 DEF WritesInv, OkMeansTaken
<1>9. Planning' BY <1>1, <1>2, <1>4, PlansStay
<1> QED BY <1>3, <1>4, <1>5, <1>7, <1>8, <1>9 DEF WritesInv

------------------------------------------------------------------------------
(* The theorems.                                                             *)

\* Every step keeps the invariant.
LEMMA WritesStep == WritesInv /\ [Next]_vars => WritesInv'
<1>1. SUFFICES ASSUME WritesInv, [Next]_vars PROVE WritesInv' OBVIOUS
<1>2. CASE \E r \in Requests : Submit(r) \/ Admitted(r)
  BY <1>1, <1>2, SubmitKeeps, AdmittedKeeps
<1>3. CASE ReadCommitted BY <1>1, <1>3, ReadCommittedKeeps
<1>4. CASE ReadMarks BY <1>1, <1>4, ReadMarksKeeps
<1>5. CASE ReadTimes BY <1>1, <1>5, ReadTimesKeeps
<1>6. CASE ReadFails BY <1>1, <1>6, ReadFailsKeeps
<1>7. CASE SoftDelete BY <1>1, <1>7, SoftDeleteKeeps
<1>8. CASE HardDelete BY <1>1, <1>8, HardDeleteKeeps
<1>9. CASE LookUp BY <1>1, <1>9, LookUpKeeps
<1>10. CASE FetchWave \/ OrderStep BY <1>1, <1>10, WalkKeeps
<1>11. CASE OtherClient BY <1>1, <1>11, OtherClientKeeps
<1>12. CASE \E failed \in SUBSET Items(request) : Send(failed) BY <1>1, <1>12, SendKeeps
<1>13. CASE \E p \in 1..2 : Produce(p) BY <1>1, <1>13, ProduceKeeps
<1>14. CASE ProduceFails \/ Settled \/ SettleTimesOut BY <1>1, <1>14, EndingKeeps
<1>15. CASE Poll BY <1>1, <1>15, PollKeeps
<1>16. CASE UNCHANGED vars \/ PollTopology
  <2>1. UNCHANGED <<area, cluster, topic, readable, kafka, seen, access, request, stage, answer, plan, taken,
                    disturbed, asked, others>>
    BY <1>16 DEF vars, PollTopology, progress, history
  <2>2. Places' /\ Shapes'
    BY <1>1, <2>1 DEF WritesInv, Places, Shapes, KafkaFits, SeenFits
  <2>3. Underway' BY <1>1, <2>1 DEF WritesInv, Underway, Fits, NamedTopics
  <2>4. Items(request)' = Items(request) BY <2>1, ItemsStay
  <2>5. Taken' /\ OkMeansTaken' BY <1>1, <2>1, <2>4 DEF WritesInv, Taken, OkMeansTaken
  <2>6. Planning' BY <1>1, <2>1, <2>2, Standing, PlansStay
  <2> QED BY <2>2, <2>3, <2>5, <2>6 DEF WritesInv
<1> QED BY <1>1, <1>2, <1>3, <1>4, <1>5, <1>6, <1>7, <1>8, <1>9, <1>10, <1>11, <1>12,
           <1>13, <1>14, <1>15, <1>16
        DEF Next

\* What a cluster stores at first has its shape.
LEMMA StoredFits ==
  ASSUME area \in Areas, kafka \in Stored
  PROVE  KafkaFits(kafka)
<1>1. CASE area = "topics" BY <1>1 DEF Stored, KafkaFits
<1>2. CASE area = "records" BY <1>2 DEF Stored, KafkaFits
<1>3. CASE area = "acls"
  <2>1. \A acl \in Acls : StoredAcl(acl) \in AclRows
    BY DEF StoredAcl, ToKrafka, KrafkaCode, Acls, AclRows
  <2>2. NewerAcl \in AclRows BY DEF NewerAcl, AclRows
  <2>3. kafka \in {{}, {NewerAcl} \union {StoredAcl(acl) : acl \in Acls}}
    BY <1>3 DEF Stored
  <2>4. kafka \subseteq AclRows BY <2>1, <2>2, <2>3
  <2> QED BY <1>3, <2>4 DEF KafkaFits
<1>4. CASE area = "groups"
  <2> DEFINE log == [p \in 1..2 |-> [low |-> 0, high |-> 1, late |-> 1]]
  <2>1. kafka \in [state : GroupStates \ {"Gone"}, log : {log},
                   committed : {[p \in 1..2 |-> NoOffset], <<1, NoOffset>>}]
    BY <1>4 DEF Stored
  <2>2. log \in Logs
    <3>1. [low |-> 0, high |-> 1, late |-> 1] \in Spans BY DEF Spans
    <3>2. log \in [1..2 -> Spans] BY <3>1
    <3> HIDE DEF log
    <3>3. 1..2 \in SUBSET (1..2) OBVIOUS
    <3> QED BY <3>2, <3>3 DEF Logs
  <2>3. [p \in 1..2 |-> NoOffset] \in Commits /\ <<1, NoOffset>> \in Commits
    BY DEF Commits, NoOffset
  <2> HIDE DEF log
  <2>4. kafka \in GroupData BY <2>1, <2>2, <2>3 DEF GroupData
  <2> QED BY <1>4, <2>4 DEF KafkaFits
<1>5. CASE area = "subjects"
  <2>1. kafka = [versions |-> <<[schema |-> "x", is |-> "live"]>>, level |-> NoLevel]
    BY <1>5 DEF Stored
  <2>2. [schema |-> "x", is |-> "live"] \in [schema : Schemas, is : {"live", "soft", "hard"}]
    BY DEF Schemas
  <2>3. <<[schema |-> "x", is |-> "live"]>> \in Versions BY <2>2 DEF Versions
  <2>4. kafka \in SubjectData BY <2>1, <2>3 DEF SubjectData
  <2> QED BY <1>5, <2>4 DEF KafkaFits
<1>6. CASE area \in {"configs", "quotas", "scram", "encode"} BY <1>6 DEF KafkaFits
<1> QED BY <1>1, <1>2, <1>3, <1>4, <1>5, <1>6 DEF Areas

\* The invariant holds at first.
LEMMA WritesInit == Init => WritesInv
<1>1. SUFFICES ASSUME Init PROVE WritesInv OBVIOUS
<1>2. /\ area \in Areas /\ kafka \in Stored /\ seen = Table(kafka)
      /\ request = None /\ stage = "idle" /\ answer = "none" /\ plan = <<>> /\ others = 0
  BY <1>1 DEF Init, Areas
<1>3. request.op = "none" BY <1>2 DEF None
<1>4. Places BY <1>2, <1>3 DEF Places, Stages
<1>5. KafkaFits(kafka) BY <1>2, StoredFits
<1>6. SeenFits(seen)
  <2>1. CASE area = "topics" BY <1>2, <2>1 DEF Table, TopicTable, SeenFits
  <2>2. CASE area = "records" BY <1>2, <1>5, <2>2 DEF Table, KafkaFits, SeenFits
  <2>3. CASE area = "groups"
    <3>1. seen = GroupTable(kafka) BY <1>2, <2>3 DEF Table
    <3>2. kafka \in GroupData BY <1>5, <2>3 DEF KafkaFits
    <3>3. DOMAIN kafka.log \in SUBSET (1..2)
      <4>1. PICK parts \in SUBSET (1..2) : kafka.log \in [parts -> Spans]
        BY <3>2 DEF GroupData, Logs
      <4> QED BY <4>1
    <3>4. seen \in [state : GroupStates \union {"Unknown"}, parts : SUBSET (1..2),
                    offsets : Commits]
      BY <3>1, <3>2, <3>3 DEF GroupTable, GroupData
    <3> QED BY <2>3, <3>4 DEF SeenFits
  <2>4. CASE area \notin {"topics", "records", "groups"} BY <2>4 DEF SeenFits
  <2> QED BY <2>1, <2>2, <2>3, <2>4
<1>7. Underway /\ Taken BY <1>2 DEF Underway, Taken
<1>8. OkMeansTaken BY <1>2, AnswerKinds DEF OkMeansTaken
<1>9. Planning BY <1>2, <1>3 DEF Planning
<1> QED BY <1>4, <1>5, <1>6, <1>7, <1>8, <1>9 DEF WritesInv, Shapes

\* Whatever the callers ask for and the other clients do, a handler stays in step with
\* what it read and what Kafka took.
THEOREM WritesAreSound == Spec => []WritesInv
BY WritesInit, WritesStep, PTL DEF Spec

\* A write is answered with success only when Kafka took all of it, and with a mistake
\* of the caller only when it took nothing (refused, RegistryClient::delete, settle).
THEOREM SuccessMeansTaken == Spec => []OkMeansTaken
<1>1. WritesInv => OkMeansTaken BY DEF WritesInv
<1> QED BY <1>1, WritesAreSound, PTL

\* A reset is placed in the log that it read, and one to an instant leaves no record of
\* that instant behind, for every number of requests and of changes by other clients.
THEOREM ResetsStayInLog == Spec => []ResetInLog
<1>1. ASSUME WritesInv PROVE ResetInLog
  <2>1. SUFFICES ASSUME request.op = "reset_offsets", plan # <<>>, "moves" \in DOMAIN plan,
                        NEW p \in DOMAIN plan.moves
                 PROVE  /\ plan.moves[p] \in plan.marks[p].low..plan.marks[p].high
                        /\ request.to = "Timestamp" /\ p \in DOMAIN kafka.log =>
                             \A o \in kafka.log[p].low..(plan.moves[p] - 1) :
                               o < kafka.log[p].late
    BY DEF ResetInLog
  <2>2. ~PlanRead /\ ~PlanMarked BY <2>1 DEF PlanRead, PlanMarked
  <2>3. PlanMade BY <1>1, <2>1, <2>2 DEF WritesInv, Planning
  <2>4. area = "groups" BY <1>1, <2>1 DEF WritesInv, Places, Ops, Areas
  <2>5. kafka.log \in Logs BY <1>1, <2>4 DEF WritesInv, Shapes, KafkaFits, GroupData
  <2>6. plan.moves[p] \in plan.marks[p].low..plan.marks[p].high /\ plan.moves[p] \in Int
    BY <2>3 DEF PlanMade, Placed
  <2>7. ASSUME request.to = "Timestamp", p \in DOMAIN kafka.log
        PROVE  \A o \in kafka.log[p].low..(plan.moves[p] - 1) : o < kafka.log[p].late
    <3>1. kafka.log[p].low \in Nat /\ kafka.log[p].late \in Nat BY <2>5, <2>7, LogSpans
    <3>2. plan.moves[p] <= kafka.log[p].late BY <2>3, <2>7 DEF PlanMade, Placed
    <3> QED BY <2>6, <3>1, <3>2
  <2> QED BY <2>6, <2>7
<1> QED BY <1>1, WritesAreSound, PTL

\* The steps of klens that change the cluster.
LEMMA WhoChanges ==
  ASSUME WritesInv, [Next]_vars, kafka' # kafka, others' = others
  PROVE  /\ stage # "idle"
         /\ \/ \E failed \in SUBSET Items(request) : Send(failed)
            \/ SoftDelete \/ HardDelete
            \/ \E p \in 1..2 : Produce(p)
<1>1. ~UNCHANGED vars BY DEF vars
<1>2. ~OtherClient
  <2>1. others \in Nat BY DEF WritesInv, Places
  <2> QED BY <2>1 DEF OtherClient
<1>3. ~\E r \in Requests : Submit(r) \/ Admitted(r) BY DEF Submit, Admitted
<1>4. ~(ReadCommitted \/ ReadMarks \/ ReadTimes \/ ReadFails)
  BY DEF ReadCommitted, ReadMarks, ReadTimes, ReadFails, KeepKafka, Keep
<1>5. ~(LookUp \/ FetchWave \/ OrderStep) BY DEF LookUp, FetchWave, OrderStep, KeepKafka, Keep
<1>6. ~(ProduceFails \/ Poll \/ PollTopology \/ Settled \/ SettleTimesOut)
  BY DEF ProduceFails, Poll, PollTopology, Settled, SettleTimesOut
<1>7. \/ \E failed \in SUBSET Items(request) : Send(failed)
      \/ SoftDelete \/ HardDelete
      \/ \E p \in 1..2 : Produce(p)
  BY <1>1, <1>2, <1>3, <1>4, <1>5, <1>6 DEF Next
<1>8. stage # "idle" BY <1>7 DEF Send, SoftDelete, HardDelete, Produce
<1> QED BY <1>7, <1>8

\* Only a caller with the privilege changes a cluster, only a writable one, and never
\* an internal topic, its configs, its records or the commits of a group in it that the
\* request named (writable_cluster, require, writable_topic): at the step that changes
\* it, whatever was read, polled and changed by others since the request was let in.
THEOREM WritesAreAdmitted == Spec => ChangesAreAdmitted
<1>1. ASSUME WritesInv, [Next]_vars, kafka' # kafka, others' = others
      PROVE  /\ cluster \in WritableClusters
             /\ Allows(access, cluster, request.op)
             /\ NamedTopics(request) \cap InternalTopics = {}
  <2>1. stage # "idle" BY <1>1, WhoChanges
  <2>2. RefusedWrite(access, cluster, request.op) = "no" /\ Fits(request)
    BY <1>1, <2>1 DEF WritesInv, Underway
  <2>3. cluster \in WritableClusters /\ Allows(access, cluster, request.op)
    BY <2>2 DEF RefusedWrite
  <2> QED BY <2>2, <2>3 DEF Fits
<1>2. WritesInv /\ [Next]_vars =>
        [kafka' # kafka /\ others' = others =>
           /\ cluster \in WritableClusters
           /\ Allows(access, cluster, request.op)
           /\ NamedTopics(request) \cap InternalTopics = {}]_vars
  BY <1>1
<1> QED BY <1>2, WritesAreSound, PTL DEF Spec, ChangesAreAdmitted

\* A deletion of versions moves none that was not named.
LEMMA MarkTouches ==
  ASSUME WritesInv, stage \in {"send", "hard"}, request.op = "delete_schemas",
         NEW versions \in SUBSET NamedVersions(kafka, request),
         NEW from, NEW to \in {"soft", "hard"},
         kafka' = Mark(kafka, versions, from, to)
  PROVE  Untouched
<1>1. area = "subjects" BY DEF WritesInv, Places, Ops, Areas
<1>2. kafka \in SubjectData BY <1>1 DEF WritesInv, Shapes, KafkaFits
<1>3. /\ kafka'.level = kafka.level
      /\ \A v \in DOMAIN kafka.versions :
           v \notin versions /\ kafka.versions[v].is # "hard" =>
             v \in DOMAIN kafka'.versions /\ kafka'.versions[v] = kafka.versions[v]
  BY <1>2, MarkFits
<1>4. \A v : request.version \notin {0, v} => v \notin versions BY DEF NamedVersions
<1>5. \A v \in DOMAIN kafka.versions \ Having(kafka, "hard") :
        request.op # "delete_schemas" \/ request.version \notin {0, v} =>
          v \in DOMAIN kafka'.versions /\ kafka'.versions[v] = kafka.versions[v]
  BY <1>3, <1>4 DEF Having
<1> QED BY <1>1, <1>3, <1>5 DEF Untouched

\* A step of klens changes what the caller named and nothing else of the cluster.
THEOREM WritesTouchTheNamed == Spec => OnlyWhatWasNamed
<1>1. ASSUME WritesInv, [Next]_vars, kafka' # kafka, others' = others PROVE Untouched
  <2>1. CASE \E failed \in SUBSET Items(request) : Send(failed)
    <3>1. PICK failed \in SUBSET Items(request) : Send(failed) BY <2>1
    <3>2. /\ stage = "send" /\ request.op \notin {"produce", "delete_schemas"}
          /\ kafka' = Take(request, kafka, Items(request) \ failed)
      BY <1>1, <3>1 DEF Send
    <3>3. Items(request) \ failed \in SUBSET Items(request) OBVIOUS
    <3> QED BY <1>1, <3>2, <3>3, TakeTouches
  <2>2. CASE SoftDelete
    <3>1. /\ stage = "send" /\ request.op = "delete_schemas"
          /\ kafka' = Mark(kafka, NamedVersions(kafka, request) \cap LiveVersions(kafka),
                           "live", "soft")
      BY <1>1, <2>2 DEF SoftDelete, Keep
    <3> QED BY <1>1, <3>1, MarkTouches
  <2>3. CASE HardDelete
    <3>1. /\ stage = "hard"
          /\ kafka' = Mark(kafka, NamedVersions(kafka, request) \cap Having(kafka, "soft"),
                           "soft", "hard")
      BY <1>1, <2>3 DEF HardDelete, Keep
    <3>2. request.op = "delete_schemas" BY <1>1, <3>1 DEF WritesInv, Underway
    <3> QED BY <1>1, <3>1, <3>2, MarkTouches
  <2>4. CASE \E p \in 1..2 : Produce(p)
    <3>1. PICK p \in 1..2 : Produce(p) BY <2>4
    <3>2. /\ stage = "send" /\ request.op = "produce"
          /\ request.partitions = {} \/ p \in request.partitions
          /\ kafka' = [kafka EXCEPT ![p].high = @ + 1]
      BY <3>1 DEF Produce
    <3>3. area = "records" BY <1>1, <3>2 DEF WritesInv, Places, Underway, Ops, Areas
    <3>4. \A q \in DOMAIN kafka : q # p => kafka'[q] = kafka[q] BY <3>2
    <3>5. \A q \in DOMAIN kafka :
            request.partitions = {} \/ q \in request.partitions \/ kafka'[q] = kafka[q]
      BY <3>2, <3>4
    <3> QED BY <3>3, <3>5 DEF Untouched
  <2> QED BY <1>1, <2>1, <2>2, <2>3, <2>4, WhoChanges
<1>2. WritesInv /\ [Next]_vars => [kafka' # kafka /\ others' = others => Untouched]_vars
  BY <1>1
<1> QED BY <1>2, WritesAreSound, PTL DEF Spec, OnlyWhatWasNamed
------------------------------------------------------------------------------
(* The order of the schemas that a schema refers to.  The graph of the        *)
(* references does not change while it is walked.                             *)

Graph(refs) ==
  RootSchema \in DOMAIN refs /\ \A s \in DOMAIN refs : refs[s] \in Seq(DOMAIN refs)

\* What a schema refers to is reached from it, and what is reached from that as well.
LEMMA DirectReach ==
  ASSUME NEW refs, Graph(refs), NEW s \in DOMAIN refs, NEW r \in Range(refs[s])
  PROVE  r \in DOMAIN refs /\ r \in Reachable(refs, s)
<1>1. refs[s] \in Seq(DOMAIN refs) BY DEF Graph
<1>2. r \in DOMAIN refs BY <1>1 DEF Range
<1> QED BY <1>2 DEF Reachable

LEMMA FurtherReach ==
  ASSUME NEW refs, Graph(refs), NEW s \in DOMAIN refs, NEW x \in Reachable(refs, s),
         NEW r \in Range(refs[x])
  PROVE  r \in Reachable(refs, s)
<1>1. x \in DOMAIN refs BY DEF Reachable
<1>2. r \in DOMAIN refs BY <1>1, DirectReach
<1>3. ASSUME NEW closed \in SUBSET DOMAIN refs, Range(refs[s]) \subseteq closed,
             \A y \in closed : Range(refs[y]) \subseteq closed
      PROVE  r \in closed
  <2>1. x \in closed BY <1>3 DEF Reachable
  <2> QED BY <1>3, <2>1
<1> QED BY <1>2, <1>3 DEF Reachable

\* A set that has what a schema refers to and what its members refer to has all that is
\* reached.
LEMMA ReachStaysInside ==
  ASSUME NEW refs, NEW s, NEW closed \in SUBSET DOMAIN refs,
         Range(refs[s]) \subseteq closed, \A x \in closed : Range(refs[x]) \subseteq closed
  PROVE  Reachable(refs, s) \subseteq closed
BY DEF Reachable

\* The walk while its schemas are fetched, in waves.
Closed(set, refs) == \A s \in set : Range(refs[s]) \subseteq set
Visits(refs) == Seq([enter : BOOLEAN, schema : DOMAIN refs])
Walks(refs) == [pending : SUBSET DOMAIN refs, fetched : SUBSET DOMAIN refs,
                visits : Visits(refs), entered : SUBSET DOMAIN refs,
                ordered : Seq(DOMAIN refs)]

Fetching(w, refs) ==
  /\ w \in Walks(refs)
  /\ w.visits = Enters(refs[RootSchema]) /\ w.entered = {} /\ w.ordered = <<>>
  /\ Range(refs[RootSchema]) \subseteq w.fetched \union w.pending
  /\ \A s \in w.fetched : Range(refs[s]) \subseteq w.fetched \union w.pending

\* The walk while they are ordered.  A leave is a schema that was entered and waits for
\* the ones above it on the stack, all of which are reached from it.
Leaves(w, i) == i \in DOMAIN w.visits /\ ~w.visits[i].enter
Awaits(w, s) == \E i \in DOMAIN w.visits : w.visits[i].enter /\ w.visits[i].schema = s
Opened(w, s) == \E i \in DOMAIN w.visits : Leaves(w, i) /\ w.visits[i].schema = s

HasAll(w, refs) ==
  /\ Range(refs[RootSchema]) \subseteq w.fetched /\ Closed(w.fetched, refs)
  /\ \A i \in DOMAIN w.visits : w.visits[i].schema \in w.fetched
EachOnce(w) ==
  /\ \A i, j \in DOMAIN w.ordered : w.ordered[i] = w.ordered[j] => i = j
  /\ \A i, j \in DOMAIN w.visits :
       Leaves(w, i) /\ Leaves(w, j) /\ w.visits[i].schema = w.visits[j].schema => i = j
  /\ \A i \in DOMAIN w.visits : Leaves(w, i) => w.visits[i].schema \notin Range(w.ordered)
  /\ \A s : s \in w.entered <=> s \in Range(w.ordered) \/ Opened(w, s)
NoneLeftOut(w, refs) ==
  \A x \in {RootSchema} \union w.entered : \A r \in Range(refs[x]) :
    r \in w.entered \/ Awaits(w, r)
AboveIsReached(w, refs) ==
  \A i, j \in DOMAIN w.visits :
    i < j /\ Leaves(w, i) => w.visits[j].schema \in Reachable(refs, w.visits[i].schema)
LeavesLast(w, refs) ==
  \A i \in DOMAIN w.visits : Leaves(w, i) =>
    \A r \in Range(refs[w.visits[i].schema]) :
      r \in Range(w.ordered) \/ \E j \in DOMAIN w.visits : j > i /\ w.visits[j].schema = r
OrderedAfter(ordered, refs) ==
  \A i \in DOMAIN ordered : \A r \in Range(refs[ordered[i]]) :
    \E j \in DOMAIN ordered : j < i /\ ordered[j] = r
Ordering(w, refs) ==
  /\ w \in Walks(refs)
  /\ HasAll(w, refs) /\ EachOnce(w) /\ NoneLeftOut(w, refs) /\ AboveIsReached(w, refs)
  /\ Acyclic(refs) => LeavesLast(w, refs) /\ OrderedAfter(w.ordered, refs)

\* References make entries of the stack.
LEMMA EntersAreVisits ==
  ASSUME NEW refs, NEW schemas \in Seq(DOMAIN refs)
  PROVE  Enters(schemas) \in Visits(refs) /\ Len(Enters(schemas)) = Len(schemas)
<1> DEFINE visit == [enter : BOOLEAN, schema : DOMAIN refs]
<1>1. \A i \in 1..Len(schemas) : [enter |-> TRUE, schema |-> schemas[i]] \in visit
  OBVIOUS
<1>2. Enters(schemas) \in [1..Len(schemas) -> visit] BY <1>1 DEF Enters
<1> HIDE DEF visit
<1>3. Enters(schemas) \in Seq(visit) /\ Len(Enters(schemas)) = Len(schemas) BY <1>2
<1> QED BY <1>3 DEF Visits, visit

\* A walk starts with all to fetch that its schema refers to.
LEMMA WalkStarts ==
  ASSUME NEW refs, Graph(refs)
  PROVE  Fetching(NoWalk(refs), refs)
<1> DEFINE w == NoWalk(refs)
<1>1. refs[RootSchema] \in Seq(DOMAIN refs) BY DEF Graph
<1>2. Enters(refs[RootSchema]) \in Visits(refs) BY <1>1, EntersAreVisits
<1>3. Range(refs[RootSchema]) \subseteq DOMAIN refs BY <1>1 DEF Range
<1>4. w \in Walks(refs) BY <1>2, <1>3 DEF NoWalk, Walks
<1> QED BY <1>4 DEF NoWalk, Fetching

\* A wave fetches what was pending, and what that refers to is pending next.
LEMMA WaveFetches ==
  ASSUME NEW refs, Graph(refs), NEW w, Fetching(w, refs)
  PROVE  Fetching(Wave(w, refs), refs)
<1> DEFINE wave == w.pending \ w.fetched
           next == UNION {Range(refs[s]) : s \in wave}
           v == [w EXCEPT !.fetched = @ \union wave]
           u == [v EXCEPT !.pending = next]
<1>1. w \in Walks(refs) BY DEF Fetching
<1>2. wave \subseteq DOMAIN refs BY <1>1 DEF Walks
<1>3. \A s \in wave : Range(refs[s]) \subseteq DOMAIN refs BY <1>2, DirectReach
<1>4. next \subseteq DOMAIN refs BY <1>3
<1>5. Wave(w, refs) = u BY <1>1 DEF Wave, Walks
<1> HIDE DEF next
<1>6. u \in Walks(refs) BY <1>1, <1>2, <1>4 DEF Walks
<1>7. /\ u.fetched = w.fetched \union wave /\ u.pending = next
      /\ u.visits = w.visits /\ u.entered = w.entered /\ u.ordered = w.ordered
  BY <1>1 DEF Walks
<1>8. u.fetched = w.fetched \union w.pending BY <1>7
<1>9. \A s \in wave : Range(refs[s]) \subseteq next BY DEF next
<1>10. \A s \in u.fetched : Range(refs[s]) \subseteq u.fetched \union u.pending
  BY <1>7, <1>8, <1>9 DEF Fetching
<1> QED BY <1>5, <1>6, <1>7, <1>8, <1>10 DEF Fetching

\* With all of them fetched, the ordering begins.
LEMMA OrderingBegins ==
  ASSUME NEW refs, Graph(refs), NEW w, Fetching(w, refs), w.pending \ w.fetched = {}
  PROVE  Ordering(w, refs)
<1>1. w \in Walks(refs) BY DEF Fetching
<1>2. /\ w.visits = Enters(refs[RootSchema]) /\ w.entered = {} /\ w.ordered = <<>>
      /\ Range(refs[RootSchema]) \subseteq w.fetched /\ Closed(w.fetched, refs)
  BY DEF Fetching, Closed
<1>3. \A i \in DOMAIN w.visits :
        /\ w.visits[i].enter /\ w.visits[i].schema = refs[RootSchema][i]
        /\ i \in DOMAIN refs[RootSchema]
  BY <1>2 DEF Enters
<1>4. \A i : ~Leaves(w, i) BY <1>3 DEF Leaves
<1>5. HasAll(w, refs) BY <1>2, <1>3 DEF HasAll, Range
<1>6. DOMAIN w.ordered = {} BY <1>2
<1>7. EachOnce(w) BY <1>2, <1>4, <1>6 DEF EachOnce, Opened, Range
<1>8. \A r \in Range(refs[RootSchema]) : Awaits(w, r)
  <2>1. SUFFICES ASSUME NEW i \in DOMAIN refs[RootSchema]
                 PROVE  Awaits(w, refs[RootSchema][i])
    BY DEF Range
  <2>2. i \in DOMAIN w.visits BY <1>2 DEF Enters
  <2> QED BY <1>3, <2>2 DEF Awaits
<1>9. NoneLeftOut(w, refs) BY <1>2, <1>8 DEF NoneLeftOut
<1>10. AboveIsReached(w, refs) /\ LeavesLast(w, refs)
  BY <1>4 DEF AboveIsReached, LeavesLast
<1>11. OrderedAfter(w.ordered, refs) BY <1>6 DEF OrderedAfter
<1> QED BY <1>1, <1>5, <1>7, <1>9, <1>10, <1>11 DEF Ordering

\* What one turn does to the stack.
LEMMA Popped ==
  ASSUME NEW T, NEW visits \in Seq(T), visits # <<>>
  PROVE  /\ Len(visits) \in Nat \ {0}
         /\ Last(visits) = visits[Len(visits)] /\ Last(visits) \in T
         /\ Front(visits) \in Seq(T) /\ Len(Front(visits)) = Len(visits) - 1
         /\ \A i \in 1..(Len(visits) - 1) : Front(visits)[i] = visits[i]
<1>1. Len(visits) \in Nat /\ Len(visits) # 0 OBVIOUS
<1>2. Front(visits) = SubSeq(visits, 1, Len(visits) - 1) /\ Last(visits) = visits[Len(visits)]
  BY DEF Front, Last
<1>3. Last(visits) \in T BY <1>1, <1>2
<1> DEFINE n == Len(visits) - 1
<1>4. n \in Nat /\ n <= Len(visits) BY <1>1
<1> HIDE DEF n
<1>5. /\ SubSeq(visits, 1, n) \in Seq(T) /\ Len(SubSeq(visits, 1, n)) = n
      /\ \A i \in 1..n : SubSeq(visits, 1, n)[i] = visits[i]
  BY <1>4
<1> QED BY <1>1, <1>2, <1>3, <1>5 DEF n

LEMMA Pushed ==
  ASSUME NEW T, NEW rest \in Seq(T), NEW leave \in T, NEW above \in Seq(T)
  PROVE  rest \o <<leave>> \o above \in Seq(T)
OBVIOUS

\* The walk is the same but for its stack, its schemas entered and its schemas ordered.
Becomes(w, u, visits, entered, ordered) ==
  /\ u.pending = w.pending /\ u.fetched = w.fetched
  /\ u.visits = visits /\ u.entered = entered /\ u.ordered = ordered

\* A schema is left: it is ordered.
LEMMA TurnLeaves ==
  ASSUME NEW refs, NEW w \in Walks(refs), w.visits # <<>>, ~Last(w.visits).enter
  PROVE  /\ Visit(w, refs) \in Walks(refs)
         /\ Becomes(w, Visit(w, refs), Front(w.visits), w.entered,
                    Append(w.ordered, Last(w.visits).schema))
<1> DEFINE T == [enter : BOOLEAN, schema : DOMAIN refs]
           rest == Front(w.visits)
           more == Append(w.ordered, Last(w.visits).schema)
           v == [w EXCEPT !.visits = rest]
           u == [v EXCEPT !.ordered = more]
<1>1. w.visits \in Seq(T) /\ w.ordered \in Seq(DOMAIN refs) BY DEF Walks, Visits
<1>2. Last(w.visits) \in T /\ rest \in Seq(T) BY <1>1, Popped
<1>3. more \in Seq(DOMAIN refs) BY <1>1, <1>2
<1>4. Visit(w, refs) = u BY DEF Visit, Walks
<1> HIDE DEF rest, more
<1>5. u \in Walks(refs) BY <1>2, <1>3 DEF Walks, Visits
<1>6. Becomes(w, u, rest, w.entered, more) BY DEF Becomes, Walks
<1> QED BY <1>4, <1>5, <1>6 DEF rest, more

\* A schema that was entered before is not entered again.
LEMMA TurnSkips ==
  ASSUME NEW refs, NEW w \in Walks(refs), w.visits # <<>>, Last(w.visits).enter,
         Last(w.visits).schema \in w.entered \/ Last(w.visits).schema \notin w.fetched
  PROVE  /\ Visit(w, refs) \in Walks(refs)
         /\ Becomes(w, Visit(w, refs), Front(w.visits), w.entered, w.ordered)
<1> DEFINE T == [enter : BOOLEAN, schema : DOMAIN refs]
           rest == Front(w.visits)
           u == [w EXCEPT !.visits = rest]
<1>1. w.visits \in Seq(T) BY DEF Walks, Visits
<1>2. rest \in Seq(T) BY <1>1, Popped
<1>3. Visit(w, refs) = u BY DEF Visit
<1> HIDE DEF rest
<1>4. u \in Walks(refs) BY <1>2 DEF Walks, Visits
<1>5. Becomes(w, u, rest, w.entered, w.ordered) BY DEF Becomes, Walks
<1> QED BY <1>3, <1>4, <1>5 DEF rest

\* A schema is entered: what it refers to goes above it.
LEMMA TurnEnters ==
  ASSUME NEW refs, Graph(refs), NEW w \in Walks(refs), w.visits # <<>>,
         Last(w.visits).enter,
         Last(w.visits).schema \notin w.entered, Last(w.visits).schema \in w.fetched
  PROVE  /\ Visit(w, refs) \in Walks(refs)
         /\ Becomes(w, Visit(w, refs),
                    Front(w.visits) \o <<[enter |-> FALSE, schema |-> Last(w.visits).schema]>>
                      \o Enters(refs[Last(w.visits).schema]),
                    w.entered \union {Last(w.visits).schema}, w.ordered)
<1> DEFINE T == [enter : BOOLEAN, schema : DOMAIN refs]
           s == Last(w.visits).schema
           leave == [enter |-> FALSE, schema |-> s]
           pushed == Front(w.visits) \o <<leave>> \o Enters(refs[s])
           v == [w EXCEPT !.entered = @ \union {s}]
           u == [v EXCEPT !.visits = pushed]
<1>1. w.visits \in Seq(T) BY DEF Walks, Visits
<1>2. Last(w.visits) \in T /\ Front(w.visits) \in Seq(T) BY <1>1, Popped
<1>3. s \in DOMAIN refs /\ leave \in T BY <1>2
<1>4. Enters(refs[s]) \in Seq(T) BY <1>3, EntersAreVisits DEF Graph, Visits
<1> HIDE DEF T
<1>5. pushed \in Seq(T) BY <1>2, <1>3, <1>4, Pushed
<1>6. Visit(w, refs) = u BY DEF Visit, Walks
<1> HIDE DEF pushed
<1>7. u \in Walks(refs) BY <1>3, <1>5 DEF Walks, Visits, T
<1>8. Becomes(w, u, pushed, w.entered \union {s}, w.ordered) BY DEF Becomes, Walks
<1> QED BY <1>6, <1>7, <1>8 DEF pushed

\* What the stack without its top still holds.
LEMMA TopGone ==
  ASSUME NEW refs, NEW w \in Walks(refs), w.visits # <<>>, NEW u,
         u.visits = Front(w.visits)
  PROVE  /\ Len(w.visits) \in Nat \ {0} /\ DOMAIN w.visits = 1..Len(w.visits)
         /\ DOMAIN u.visits = 1..(Len(w.visits) - 1)
         /\ \A i \in DOMAIN u.visits : i \in DOMAIN w.visits /\ u.visits[i] = w.visits[i]
         /\ \A i : Leaves(u, i) <=> Leaves(w, i) /\ i \in DOMAIN u.visits
         /\ Last(w.visits) = w.visits[Len(w.visits)]
<1> DEFINE T == [enter : BOOLEAN, schema : DOMAIN refs]
           n == Len(w.visits)
<1>1. w.visits \in Seq(T) BY DEF Walks, Visits
<1>2. /\ n \in Nat \ {0} /\ Last(w.visits) = w.visits[n]
      /\ u.visits \in Seq(T) /\ Len(u.visits) = n - 1
      /\ \A i \in 1..(n - 1) : u.visits[i] = w.visits[i]
  BY <1>1, Popped
<1>3. DOMAIN w.visits = 1..n /\ DOMAIN u.visits = 1..(n - 1) BY <1>1, <1>2
<1>4. \A i \in DOMAIN u.visits : i \in DOMAIN w.visits /\ u.visits[i] = w.visits[i]
  BY <1>2, <1>3
<1>5. \A i : Leaves(u, i) <=> Leaves(w, i) /\ i \in DOMAIN u.visits BY <1>4 DEF Leaves
<1> QED BY <1>2, <1>3, <1>4, <1>5

\* To order a schema that is left keeps the invariant: what it refers to is ordered.
LEMMA LeaveKeeps ==
  ASSUME NEW refs, Graph(refs), NEW w, Ordering(w, refs), w.visits # <<>>,
         ~Last(w.visits).enter
  PROVE  Ordering(Visit(w, refs), refs)
<1> DEFINE u == Visit(w, refs)
           n == Len(w.visits)
           m == Len(w.ordered)
           s == w.visits[n].schema
<1>1. w \in Walks(refs) BY DEF Ordering
<1>2. /\ u \in Walks(refs)
      /\ Becomes(w, u, Front(w.visits), w.entered,
                 Append(w.ordered, Last(w.visits).schema))
  BY <1>1, TurnLeaves
<1> HIDE DEF u
<1>3. /\ n \in Nat \ {0} /\ DOMAIN w.visits = 1..n /\ DOMAIN u.visits = 1..(n - 1)
      /\ \A i \in DOMAIN u.visits : i \in DOMAIN w.visits /\ u.visits[i] = w.visits[i]
      /\ \A i : Leaves(u, i) <=> Leaves(w, i) /\ i \in DOMAIN u.visits
      /\ Last(w.visits) = w.visits[n]
  BY <1>1, <1>2, TopGone DEF Becomes
<1>4. u.fetched = w.fetched /\ u.entered = w.entered /\ u.ordered = Append(w.ordered, s)
  BY <1>2, <1>3 DEF Becomes
<1>5. w.ordered \in Seq(DOMAIN refs) BY <1>1 DEF Walks
<1>6. Leaves(w, n) /\ n \in DOMAIN w.visits /\ n \notin DOMAIN u.visits BY <1>3 DEF Leaves
<1> HIDE DEF n, s
<1>7. /\ m \in Nat /\ DOMAIN w.ordered = 1..m /\ DOMAIN u.ordered = 1..(m + 1)
      /\ u.ordered[m + 1] = s /\ \A i \in 1..m : u.ordered[i] = w.ordered[i]
  BY <1>4, <1>5
<1> HIDE DEF m
<1>8. Range(u.ordered) = Range(w.ordered) \union {s}
  <2>1. \A x \in Range(u.ordered) : x \in Range(w.ordered) \union {s} BY <1>7 DEF Range
  <2>2. s \in Range(u.ordered) BY <1>7 DEF Range
  <2>3. \A x \in Range(w.ordered) : x \in Range(u.ordered)
    <3>1. SUFFICES ASSUME NEW i \in 1..m PROVE w.ordered[i] \in Range(u.ordered)
      BY <1>7 DEF Range
    <3>2. i \in DOMAIN u.ordered /\ u.ordered[i] = w.ordered[i] BY <1>7
    <3> QED BY <3>2 DEF Range
  <2> QED BY <2>1, <2>2, <2>3
<1>9. s \notin Range(w.ordered) BY <1>6 DEF Ordering, EachOnce, s
<1>10. HasAll(u, refs) BY <1>3, <1>4 DEF Ordering, HasAll
<1>11. EachOnce(u)
  <2>1. \A i, j \in DOMAIN u.ordered : u.ordered[i] = u.ordered[j] => i = j
    <3>1. \A i \in 1..m : u.ordered[i] # s BY <1>7, <1>9 DEF Range
    <3>2. \A i, j \in 1..m : u.ordered[i] = u.ordered[j] => i = j
      BY <1>7 DEF Ordering, EachOnce
    <3>3. \A i \in DOMAIN u.ordered : i \in 1..m \/ i = m + 1 BY <1>7
    <3> QED BY <1>7, <3>1, <3>2, <3>3
  <2>2. \A i, j \in DOMAIN w.visits :
          Leaves(w, i) /\ Leaves(w, j) /\ w.visits[i].schema = w.visits[j].schema => i = j
    BY DEF Ordering, EachOnce
  <2>3. \A i, j \in DOMAIN u.visits :
          Leaves(u, i) /\ Leaves(u, j) /\ u.visits[i].schema = u.visits[j].schema => i = j
    BY <1>3, <2>2
  <2>4. \A i \in DOMAIN u.visits : Leaves(u, i) => u.visits[i].schema \notin Range(u.ordered)
    <3>1. SUFFICES ASSUME NEW i \in DOMAIN u.visits, Leaves(u, i)
                   PROVE  u.visits[i].schema \notin Range(u.ordered)
      OBVIOUS
    <3>2. i \in DOMAIN w.visits /\ Leaves(w, i) /\ u.visits[i] = w.visits[i] /\ i # n
      BY <1>3, <1>6, <3>1
    <3>3. w.visits[i].schema # s BY <1>6, <2>2, <3>2 DEF s
    <3>4. w.visits[i].schema \notin Range(w.ordered) BY <3>2 DEF Ordering, EachOnce
    <3> QED BY <1>8, <3>2, <3>3, <3>4
  <2>5. \A x : Opened(w, x) <=> Opened(u, x) \/ x = s
    <3>1. \A i \in DOMAIN w.visits : i \in DOMAIN u.visits \/ i = n BY <1>3
    <3> QED BY <1>3, <1>6, <3>1 DEF Opened, s
  <2>6. \A x : x \in w.entered <=> x \in Range(w.ordered) \/ Opened(w, x)
    BY DEF Ordering, EachOnce
  <2>7. \A x : x \in u.entered <=> x \in Range(u.ordered) \/ Opened(u, x)
    BY <1>4, <1>8, <2>5, <2>6
  <2> QED BY <2>1, <2>3, <2>4, <2>7 DEF EachOnce
<1>12. NoneLeftOut(u, refs)
  <2>1. \A r : Awaits(w, r) => Awaits(u, r)
    <3>1. \A i \in DOMAIN w.visits : w.visits[i].enter => i \in DOMAIN u.visits
      BY <1>3, <1>6 DEF Leaves
    <3> QED BY <1>3, <3>1 DEF Awaits
  <2> QED BY <1>4, <2>1 DEF Ordering, NoneLeftOut
<1>13. AboveIsReached(u, refs) BY <1>3 DEF Ordering, AboveIsReached
<1>14. ASSUME Acyclic(refs) PROVE LeavesLast(u, refs) /\ OrderedAfter(u.ordered, refs)
  <2>1. LeavesLast(w, refs) /\ OrderedAfter(w.ordered, refs) BY <1>14 DEF Ordering
  <2>2. LeavesLast(u, refs)
    <3>1. SUFFICES ASSUME NEW i \in DOMAIN u.visits, Leaves(u, i),
                          NEW r \in Range(refs[u.visits[i].schema])
                   PROVE  r \in Range(u.ordered)
                          \/ \E j \in DOMAIN u.visits : j > i /\ u.visits[j].schema = r
      BY DEF LeavesLast
    <3>2. i \in DOMAIN w.visits /\ Leaves(w, i) /\ r \in Range(refs[w.visits[i].schema])
      BY <1>3, <3>1
    <3>3. \/ r \in Range(w.ordered)
          \/ \E j \in DOMAIN w.visits : j > i /\ w.visits[j].schema = r
      BY <2>1, <3>2 DEF LeavesLast
    <3>4. ASSUME NEW j \in DOMAIN w.visits, j > i, w.visits[j].schema = r
          PROVE  r = s \/ (j \in DOMAIN u.visits /\ u.visits[j].schema = r)
      <4>1. j \in DOMAIN u.visits \/ j = n BY <1>3
      <4> QED BY <1>3, <3>4, <4>1 DEF s
    <3> QED BY <1>8, <3>3, <3>4
  <2>3. \A r \in Range(refs[s]) : r \in Range(w.ordered)
    <3>1. ~\E j \in DOMAIN w.visits : j > n BY <1>3
    <3> QED BY <1>6, <2>1, <3>1 DEF LeavesLast, s
  <2>4. OrderedAfter(u.ordered, refs)
    <3>1. SUFFICES ASSUME NEW i \in DOMAIN u.ordered, NEW r \in Range(refs[u.ordered[i]])
                   PROVE  \E j \in DOMAIN u.ordered : j < i /\ u.ordered[j] = r
      BY DEF OrderedAfter
    <3>2. CASE i = m + 1
      <4>1. PICK j \in DOMAIN w.ordered : w.ordered[j] = r
        BY <1>7, <2>3, <3>1, <3>2 DEF Range
      <4> QED BY <1>7, <3>2, <4>1
    <3>3. CASE i \in 1..m
      <4>1. PICK j \in DOMAIN w.ordered : j < i /\ w.ordered[j] = r
        BY <1>7, <2>1, <3>1, <3>3 DEF OrderedAfter
      <4> QED BY <1>7, <4>1
    <3> QED BY <1>7, <3>2, <3>3
  <2> QED BY <2>2, <2>4
<1> QED BY <1>2, <1>10, <1>11, <1>12, <1>13, <1>14 DEF Ordering, u

\* What is on the stack is a schema.
LEMMA VisitedIsSchema ==
  ASSUME NEW refs, NEW w \in Walks(refs), NEW i \in DOMAIN w.visits
  PROVE  w.visits[i].schema \in DOMAIN refs
<1> DEFINE T == [enter : BOOLEAN, schema : DOMAIN refs]
<1>1. w.visits \in Seq(T) BY DEF Walks, Visits
<1>2. DOMAIN w.visits = 1..Len(w.visits) BY <1>1
<1> HIDE DEF T
<1>3. w.visits[i] \in T BY <1>1, <1>2
<1> QED BY <1>3 DEF T

\* To skip a schema keeps it: where nothing refers to itself, a schema that waits for this
\* one finds it ordered, or above it on the stack.
LEMMA SkipKeeps ==
  ASSUME NEW refs, Graph(refs), NEW w, Ordering(w, refs), w.visits # <<>>,
         Last(w.visits).enter, Last(w.visits).schema \in w.entered
  PROVE  Ordering(Visit(w, refs), refs)
<1> DEFINE u == Visit(w, refs)
           n == Len(w.visits)
           s == w.visits[n].schema
<1>1. w \in Walks(refs) BY DEF Ordering
<1>2. u \in Walks(refs) /\ Becomes(w, u, Front(w.visits), w.entered, w.ordered)
  BY <1>1, TurnSkips
<1> HIDE DEF u
<1>3. /\ n \in Nat \ {0} /\ DOMAIN w.visits = 1..n /\ DOMAIN u.visits = 1..(n - 1)
      /\ \A i \in DOMAIN u.visits : i \in DOMAIN w.visits /\ u.visits[i] = w.visits[i]
      /\ \A i : Leaves(u, i) <=> Leaves(w, i) /\ i \in DOMAIN u.visits
      /\ Last(w.visits) = w.visits[n]
  BY <1>1, <1>2, TopGone DEF Becomes
<1>4. u.fetched = w.fetched /\ u.entered = w.entered /\ u.ordered = w.ordered
  BY <1>2, <1>3 DEF Becomes
<1>5. s \in w.entered /\ w.visits[n].enter BY <1>3
<1>6. ~Leaves(w, n) /\ n \in DOMAIN w.visits BY <1>3, <1>5 DEF Leaves
<1> HIDE DEF n
<1>7. \A i \in DOMAIN w.visits : i \in DOMAIN u.visits \/ i = n BY <1>3
<1>8. \A i : Leaves(w, i) <=> Leaves(u, i) BY <1>3, <1>6, <1>7 DEF Leaves
<1>9. HasAll(u, refs) BY <1>3, <1>4 DEF Ordering, HasAll
<1>10. EachOnce(u)
  <2>1. \A x : Opened(w, x) <=> Opened(u, x)
    BY <1>3, <1>6, <1>7, <1>8 DEF Opened
  <2>2. \A x : x \in u.entered <=> x \in Range(u.ordered) \/ Opened(u, x)
    BY <1>4, <2>1 DEF Ordering, EachOnce
  <2>3. /\ \A i, j \in DOMAIN u.ordered : u.ordered[i] = u.ordered[j] => i = j
        /\ \A i \in DOMAIN u.visits : Leaves(u, i) => u.visits[i].schema \notin Range(u.ordered)
    BY <1>3, <1>4 DEF Ordering, EachOnce
  <2>4. \A i, j \in DOMAIN u.visits :
          Leaves(u, i) /\ Leaves(u, j) /\ u.visits[i].schema = u.visits[j].schema => i = j
    BY <1>3 DEF Ordering, EachOnce
  <2> QED BY <2>2, <2>3, <2>4 DEF EachOnce
<1>11. NoneLeftOut(u, refs)
  <2>1. \A r : Awaits(w, r) => Awaits(u, r) \/ r \in w.entered
    BY <1>3, <1>5, <1>7 DEF Awaits
  <2> QED BY <1>4, <2>1 DEF Ordering, NoneLeftOut
<1>12. AboveIsReached(u, refs) BY <1>3 DEF Ordering, AboveIsReached
<1>13. ASSUME Acyclic(refs) PROVE LeavesLast(u, refs) /\ OrderedAfter(u.ordered, refs)
  <2>1. LeavesLast(w, refs) /\ OrderedAfter(w.ordered, refs) BY <1>13 DEF Ordering
  <2>2. OrderedAfter(u.ordered, refs) BY <1>4, <2>1
  <2>3. LeavesLast(u, refs)
    <3>1. SUFFICES ASSUME NEW i \in DOMAIN u.visits, Leaves(u, i),
                          NEW r \in Range(refs[u.visits[i].schema])
                   PROVE  r \in Range(u.ordered)
                          \/ \E j \in DOMAIN u.visits : j > i /\ u.visits[j].schema = r
      BY DEF LeavesLast
    <3> DEFINE x == w.visits[i].schema
    <3>2. i \in DOMAIN w.visits /\ Leaves(w, i) /\ r \in Range(refs[x])
      BY <1>3, <3>1
    <3>3. \/ r \in Range(w.ordered)
          \/ \E j \in DOMAIN w.visits : j > i /\ w.visits[j].schema = r
      BY <2>1, <3>2 DEF LeavesLast
    <3>4. CASE r \in Range(w.ordered) BY <1>4, <3>4
    <3>5. CASE \E j \in DOMAIN u.visits : j > i /\ w.visits[j].schema = r BY <1>3, <3>5
    <3>6. CASE r \notin Range(w.ordered) /\ r = s
      <4>1. PICK k \in DOMAIN w.visits : Leaves(w, k) /\ w.visits[k].schema = r
        BY <1>5, <3>6 DEF Ordering, EachOnce, Opened
      <4>2. k \in DOMAIN u.visits BY <1>6, <1>7, <4>1
      <4>3. r \in DOMAIN refs /\ x \in DOMAIN refs
        BY <1>1, <3>2, <4>1, VisitedIsSchema
      <4>4. k # i
        <5>1. SUFFICES ASSUME k = i PROVE FALSE OBVIOUS
        <5>2. r \in Reachable(refs, r) BY <3>2, <4>1, <4>3, <5>1, DirectReach
        <5> QED BY <1>13, <4>3, <5>2 DEF Acyclic
      <4>5. ~(k < i)
        <5>1. SUFFICES ASSUME k < i PROVE FALSE OBVIOUS
        <5>2. x \in Reachable(refs, r)
          BY <3>2, <4>1, <5>1 DEF Ordering, AboveIsReached
        <5> HIDE DEF x
        <5>3. r \in Reachable(refs, r) BY <3>2, <4>3, <5>2, FurtherReach
        <5> QED BY <1>13, <4>3, <5>3 DEF Acyclic
      <4>6. k > i BY <1>3, <3>2, <4>4, <4>5
      <4> QED BY <1>3, <4>1, <4>2, <4>6
    <3> QED BY <1>7, <3>3, <3>4, <3>5, <3>6
  <2> QED BY <2>2, <2>3
<1> QED BY <1>2, <1>9, <1>10, <1>11, <1>12, <1>13 DEF Ordering, u

\* To enter a schema keeps it: what it refers to is above it.
LEMMA EnterKeeps ==
  ASSUME NEW refs, Graph(refs), NEW w, Ordering(w, refs), w.visits # <<>>,
         Last(w.visits).enter, Last(w.visits).schema \notin w.entered
  PROVE  Ordering(Visit(w, refs), refs)
<1> DEFINE u == Visit(w, refs)
           n == Len(w.visits)
           s == w.visits[n].schema
           T == [enter : BOOLEAN, schema : DOMAIN refs]
           leave == [enter |-> FALSE, schema |-> s]
           rest == Front(w.visits)
           above == Enters(refs[s])
<1>1. w \in Walks(refs) BY DEF Ordering
<1>2. w.visits \in Seq(T) BY <1>1 DEF Walks, Visits
<1>3. /\ n \in Nat \ {0} /\ Last(w.visits) = w.visits[n] /\ w.visits[n] \in T
      /\ rest \in Seq(T) /\ Len(rest) = n - 1
      /\ \A i \in 1..(n - 1) : rest[i] = w.visits[i]
  BY <1>2, Popped
<1>4. DOMAIN w.visits = 1..n BY <1>2
<1>5. s \in DOMAIN refs /\ leave \in T /\ s \in w.fetched
  BY <1>3, <1>4 DEF Ordering, HasAll
<1>6. refs[s] \in Seq(DOMAIN refs) BY <1>5 DEF Graph
<1>7. above \in Seq(T) /\ Len(above) = Len(refs[s]) BY <1>6, EntersAreVisits DEF Visits
<1>8. /\ u \in Walks(refs)
      /\ Becomes(w, u, rest \o <<leave>> \o above, w.entered \union {s}, w.ordered)
  BY <1>1, <1>3, <1>5, TurnEnters
<1>9. \A i \in 1..Len(refs[s]) : above[i] = [enter |-> TRUE, schema |-> refs[s][i]]
  BY <1>6 DEF Enters
<1> DEFINE l == Len(refs[s])
           last == n + l
<1>10. l \in Nat BY <1>6
<1> HIDE DEF u, T, rest, above, l
<1>11. /\ u.visits \in Seq(T) /\ Len(u.visits) = last
       /\ \A i \in 1..(n - 1) : u.visits[i] = w.visits[i]
       /\ u.visits[n] = leave
       /\ \A i \in 1..l : u.visits[n + i] = above[i]
  <2>1. u.visits = rest \o <<leave>> \o above BY <1>8 DEF Becomes
  <2>3. Len(rest) + 1 = n BY <1>3
  <2>4. leave \in T /\ rest \in Seq(T) /\ above \in Seq(T) /\ Len(above) = l
    BY <1>3, <1>5, <1>7 DEF l
  <2> HIDE DEF leave, n
  <2>2. /\ u.visits \in Seq(T) /\ Len(u.visits) = Len(rest) + 1 + Len(above)
        /\ \A i \in 1..Len(rest) : u.visits[i] = rest[i]
        /\ u.visits[Len(rest) + 1] = leave
        /\ \A i \in 1..Len(above) : u.visits[Len(rest) + 1 + i] = above[i]
    <3>1. PICK all : all = u.visits OBVIOUS
    <3>2. PICK one : one = leave OBVIOUS
    <3>3. all = rest \o <<one>> \o above BY <2>1, <3>1, <3>2
    <3>4. one \in T BY <2>4, <3>2
    <3>5. /\ all \in Seq(T) /\ Len(all) = Len(rest) + 1 + Len(above)
          /\ \A i \in 1..Len(rest) : all[i] = rest[i]
          /\ all[Len(rest) + 1] = one
          /\ \A i \in 1..Len(above) : all[Len(rest) + 1 + i] = above[i]
      <4>1. rest \in Seq(T) /\ above \in Seq(T) BY <2>4
      <4>2. Len(rest) \in Nat /\ Len(above) \in Nat BY <4>1
      <4> DEFINE low == rest \o <<one>>
      <4>3. /\ low \in Seq(T) /\ Len(low) = Len(rest) + 1
            /\ \A i \in 1..Len(rest) : low[i] = rest[i]
            /\ low[Len(rest) + 1] = one
        BY <3>4, <4>1
      <4>4. all = low \o above BY <3>3
      <4> HIDE DEF low
      <4>5. all \in Seq(T) /\ Len(all) = Len(low) + Len(above)
        <5>1. low \in Seq(T) BY <4>3
        <5> QED BY <4>1, <4>4, <5>1
      <4>6. \A i \in 1..Len(low) : all[i] = low[i] BY <4>1, <4>3, <4>4
      <4>7. \A i \in 1..Len(above) : all[Len(low) + i] = above[i] BY <4>1, <4>3, <4>4
      <4> QED BY <4>2, <4>3, <4>5, <4>6, <4>7
    <3> QED BY <3>1, <3>2, <3>5
  <2> QED BY <1>3, <2>2, <2>3, <2>4
<1>12. \A i \in 1..l : above[i] = [enter |-> TRUE, schema |-> refs[s][i]] BY <1>9 DEF l
<1>13. DOMAIN refs[s] = 1..l BY <1>6 DEF l
<1>14. n \in Nat \ {0} BY <1>3
<1>15. w.visits[n].enter /\ s \notin w.entered BY <1>3
<1>16. s = w.visits[n].schema /\ leave = [enter |-> FALSE, schema |-> s] OBVIOUS
<1> HIDE DEF n, s, leave
<1>17. last \in Nat /\ last >= n /\ DOMAIN u.visits = 1..last BY <1>10, <1>14, <1>11
<1> HIDE DEF last
<1>18. \A i \in 1..(n - 1) :
         i \in DOMAIN w.visits /\ i \in DOMAIN u.visits /\ u.visits[i] = w.visits[i]
  BY <1>14, <1>4, <1>11, <1>17
<1>19. /\ n \in DOMAIN w.visits /\ n \in DOMAIN u.visits
       /\ ~u.visits[n].enter /\ u.visits[n].schema = s
  BY <1>14, <1>16, <1>4, <1>11, <1>17
<1>20. \A i \in (n + 1)..last :
         /\ u.visits[i].enter /\ u.visits[i].schema \in Range(refs[s])
  <2>1. SUFFICES ASSUME NEW i \in (n + 1)..last
                 PROVE  u.visits[i].enter /\ u.visits[i].schema \in Range(refs[s])
    OBVIOUS
  <2>2. i - n \in 1..l /\ n + (i - n) = i BY <1>14, <1>10 DEF last
  <2>3. u.visits[i] = above[i - n] BY <1>11, <2>2
  <2>4. u.visits[i] = [enter |-> TRUE, schema |-> refs[s][i - n]] BY <1>12, <2>2, <2>3
  <2> QED BY <1>13, <2>2, <2>4 DEF Range
<1>21. \A r \in Range(refs[s]) :
         \E i \in (n + 1)..last : u.visits[i].enter /\ u.visits[i].schema = r
  <2>1. SUFFICES ASSUME NEW k \in DOMAIN refs[s]
                 PROVE  \E i \in (n + 1)..last :
                          u.visits[i].enter /\ u.visits[i].schema = refs[s][k]
    BY DEF Range
  <2>2. k \in 1..l BY <1>13
  <2>3. u.visits[n + k] = [enter |-> TRUE, schema |-> refs[s][k]] BY <1>12, <1>11, <2>2
  <2>4. n + k \in (n + 1)..last BY <1>14, <1>10, <2>2 DEF last
  <2>5. u.visits[n + k].enter /\ u.visits[n + k].schema = refs[s][k] BY <2>3
  <2> QED BY <2>4, <2>5
<1>22. u.fetched = w.fetched /\ u.entered = w.entered \union {s} /\ u.ordered = w.ordered
  BY <1>8 DEF Becomes
<1>23. \A i \in DOMAIN u.visits : i \in 1..(n - 1) \/ i = n \/ i \in (n + 1)..last
  BY <1>14, <1>17
<1>24. \A i \in DOMAIN w.visits : i \in 1..(n - 1) \/ i = n BY <1>14, <1>4
<1>25. \A i : Leaves(u, i) <=> (Leaves(w, i) /\ i \in 1..(n - 1)) \/ i = n
  BY <1>18, <1>19, <1>20, <1>23 DEF Leaves
<1>26. \A i : Leaves(w, i) => i \in 1..(n - 1) BY <1>15, <1>24 DEF Leaves
<1>27. HasAll(u, refs)
  <2>1. Range(refs[s]) \subseteq w.fetched BY <1>5 DEF Ordering, HasAll, Closed, s
  <2>2. \A i \in DOMAIN u.visits : u.visits[i].schema \in w.fetched
    BY <1>5, <1>18, <1>19, <1>20, <1>23, <2>1 DEF Ordering, HasAll, s
  <2> QED BY <1>22, <2>2 DEF Ordering, HasAll
<1>28. EachOnce(u)
  <2>1. \A x : x \in w.entered <=> x \in Range(w.ordered) \/ Opened(w, x)
    BY DEF Ordering, EachOnce
  <2>2. \A i : Leaves(w, i) => w.visits[i].schema # s
    BY <1>15, <2>1 DEF Opened, Leaves
  <2>3. s \notin Range(w.ordered) BY <1>15, <2>1
  <2>4. \A x : Opened(u, x) <=> Opened(w, x) \/ x = s
    BY <1>18, <1>19, <1>25, <1>26 DEF Opened
  <2>5. \A x : x \in u.entered <=> x \in Range(u.ordered) \/ Opened(u, x)
    BY <1>22, <2>1, <2>4
  <2>6. /\ \A i, j \in DOMAIN u.ordered : u.ordered[i] = u.ordered[j] => i = j
        /\ \A i \in DOMAIN u.visits : Leaves(u, i) => u.visits[i].schema \notin Range(u.ordered)
    BY <1>18, <1>19, <1>22, <1>25, <2>3 DEF Ordering, EachOnce
  <2>7. \A i, j \in DOMAIN u.visits :
          Leaves(u, i) /\ Leaves(u, j) /\ u.visits[i].schema = u.visits[j].schema => i = j
    BY <1>18, <1>19, <1>25, <2>2 DEF Ordering, EachOnce
  <2> QED BY <2>5, <2>6, <2>7 DEF EachOnce
<1>29. NoneLeftOut(u, refs)
  <2>1. \A r : Awaits(w, r) => Awaits(u, r) \/ r \in u.entered
    BY <1>18, <1>22, <1>24 DEF Awaits, s
  <2>2. \A r \in Range(refs[s]) : Awaits(u, r)
    <3>1. \A i \in (n + 1)..last : i \in DOMAIN u.visits BY <1>3, <1>17 DEF n
    <3> QED BY <1>21, <3>1 DEF Awaits
  <2> QED BY <1>22, <2>1, <2>2 DEF Ordering, NoneLeftOut
<1>30. AboveIsReached(u, refs)
  <2>1. SUFFICES ASSUME NEW i \in DOMAIN u.visits, NEW j \in DOMAIN u.visits,
                        i < j, Leaves(u, i)
                 PROVE  u.visits[j].schema \in Reachable(refs, u.visits[i].schema)
    BY DEF AboveIsReached
  <2>2. CASE i = n
    <3>1. j \in (n + 1)..last BY <1>17, <1>14, <2>1, <2>2
    <3>2. u.visits[i].schema = s /\ u.visits[j].schema \in Range(refs[s])
      BY <1>19, <1>20, <2>2, <3>1
    <3>3. s \in DOMAIN refs BY <1>5 DEF s
    <3> QED BY <3>2, <3>3, DirectReach
  <2>3. CASE Leaves(w, i) /\ i \in 1..(n - 1)
    <3> DEFINE x == w.visits[i].schema
    <3>1. u.visits[i].schema = x /\ i \in DOMAIN w.visits BY <1>18, <2>3
    <3>2. x \in DOMAIN refs BY <1>1, <3>1, VisitedIsSchema
    <3>3. \A k \in DOMAIN w.visits : i < k => w.visits[k].schema \in Reachable(refs, x)
      BY <2>3, <3>1 DEF Ordering, AboveIsReached
    <3>4. i < n BY <1>3, <2>3 DEF n
    <3>5. s \in Reachable(refs, x) BY <1>19, <3>3, <3>4 DEF s
    <3>6. CASE j \in 1..(n - 1) BY <1>18, <2>1, <3>1, <3>3, <3>6
    <3>7. CASE j = n BY <1>19, <3>1, <3>5, <3>7
    <3>8. CASE j \in (n + 1)..last
      <4>1. u.visits[j].schema \in Range(refs[s]) BY <1>20, <3>8
      <4> HIDE DEF x
      <4> QED BY <3>1, <3>2, <3>5, <4>1, FurtherReach
    <3> QED BY <1>23, <3>6, <3>7, <3>8
  <2> QED BY <1>25, <2>1, <2>2, <2>3
<1>31. ASSUME Acyclic(refs) PROVE LeavesLast(u, refs) /\ OrderedAfter(u.ordered, refs)
  <2>1. LeavesLast(w, refs) /\ OrderedAfter(w.ordered, refs) BY <1>31 DEF Ordering
  <2>2. OrderedAfter(u.ordered, refs) BY <1>22, <2>1
  <2>3. LeavesLast(u, refs)
    <3>1. SUFFICES ASSUME NEW i \in DOMAIN u.visits, Leaves(u, i),
                          NEW r \in Range(refs[u.visits[i].schema])
                   PROVE  r \in Range(u.ordered)
                          \/ \E j \in DOMAIN u.visits : j > i /\ u.visits[j].schema = r
      BY DEF LeavesLast
    <3>2. CASE i = n
      <4>1. PICK j \in (n + 1)..last : u.visits[j].schema = r BY <1>19, <1>21, <3>1, <3>2
      <4>2. j \in DOMAIN u.visits /\ j > i BY <1>3, <1>17, <3>2, <4>1 DEF n
      <4> QED BY <4>1, <4>2
    <3>3. CASE Leaves(w, i) /\ i \in 1..(n - 1)
      <4>1. i \in DOMAIN w.visits /\ r \in Range(refs[w.visits[i].schema]) BY <1>18, <3>1, <3>3
      <4>2. \/ r \in Range(w.ordered)
            \/ \E j \in DOMAIN w.visits : j > i /\ w.visits[j].schema = r
        BY <2>1, <3>3, <4>1 DEF LeavesLast
      <4>3. \A j \in DOMAIN w.visits :
              j \in DOMAIN u.visits /\ u.visits[j].schema = w.visits[j].schema
        BY <1>18, <1>19, <1>24 DEF s
      <4> QED BY <1>22, <4>2, <4>3
    <3> QED BY <1>25, <3>1, <3>2, <3>3
  <2> QED BY <2>2, <2>3
<1> QED BY <1>8, <1>27, <1>28, <1>29, <1>30, <1>31 DEF Ordering, u

\* A turn of the loop keeps the order.
LEMMA TurnKeeps ==
  ASSUME NEW refs, Graph(refs), NEW w, Ordering(w, refs), w.visits # <<>>
  PROVE  Ordering(Visit(w, refs), refs)
<1>1. CASE ~Last(w.visits).enter BY <1>1, LeaveKeeps
<1>2. CASE Last(w.visits).enter /\ Last(w.visits).schema \in w.entered BY <1>2, SkipKeeps
<1>3. CASE Last(w.visits).enter /\ Last(w.visits).schema \notin w.entered BY <1>3, EnterKeeps
<1> QED BY <1>1, <1>2, <1>3

\* Once the stack is empty, every schema that is reached is ordered, once.
LEMMA AllOrdered ==
  ASSUME NEW refs, Graph(refs), NEW w, Ordering(w, refs), w.visits = <<>>
  PROVE  \A s \in Reachable(refs, RootSchema) :
           Cardinality({i \in DOMAIN w.ordered : w.ordered[i] = s}) = 1
<1>1. w \in Walks(refs) BY DEF Ordering
<1>2. DOMAIN w.visits = {} OBVIOUS
<1>3. \A s : ~Opened(w, s) /\ ~Awaits(w, s) BY <1>2 DEF Opened, Awaits
<1>4. w.entered = Range(w.ordered) BY <1>3 DEF Ordering, EachOnce
<1>5. /\ Range(refs[RootSchema]) \subseteq w.entered
      /\ \A x \in w.entered : Range(refs[x]) \subseteq w.entered
  BY <1>3 DEF Ordering, NoneLeftOut
<1>6. w.entered \in SUBSET DOMAIN refs BY <1>1 DEF Walks
<1>7. Reachable(refs, RootSchema) \subseteq w.entered BY <1>5, <1>6, ReachStaysInside
<1>8. SUFFICES ASSUME NEW s \in Reachable(refs, RootSchema)
               PROVE  Cardinality({i \in DOMAIN w.ordered : w.ordered[i] = s}) = 1
  OBVIOUS
<1>9. PICK i \in DOMAIN w.ordered : w.ordered[i] = s BY <1>4, <1>7 DEF Range
<1>10. {j \in DOMAIN w.ordered : w.ordered[j] = s} = {i}
  BY <1>9 DEF Ordering, EachOnce
<1> QED BY <1>10, FS_Singleton

\* A walk is of a graph that the registry has, and is fetching or ordering.
WalkInv ==
  /\ area = "encode" => kafka \in References
  /\ stage = "fetch" => Fetching(plan, kafka)
  /\ stage \in {"order", "encoded"} => Ordering(plan, kafka)
  /\ stage = "encoded" => plan.visits = <<>>

\* No step changes the area, and in this one no step changes the cluster.
LEMMA WalkFrame ==
  ASSUME WritesInv, [Next]_vars
  PROVE  /\ area' = area
         /\ area = "encode" =>
              \/ kafka' = kafka /\ stage' = "idle"
              \/ UNCHANGED <<kafka, stage, plan>>
              \/ \E r \in Requests : Admitted(r)
              \/ FetchWave \/ OrderStep
<1>1. CASE UNCHANGED vars BY <1>1 DEF vars, progress
<1>2. CASE \E r \in Requests : Submit(r) \/ Admitted(r) BY <1>2 DEF Submit, Admitted, Finish
<1>3. area = "encode" => stage \in {"idle", "fetch", "order", "encoded"}
  BY DEF WritesInv, Underway
<1>4. CASE ReadCommitted \/ ReadMarks \/ ReadTimes
  BY <1>3, <1>4 DEF ReadCommitted, ReadMarks, ReadTimes, KeepKafka, Keep
<1>5. CASE ReadFails BY <1>5 DEF ReadFails, KeepKafka, Keep, Finish
<1>6. CASE SoftDelete \/ HardDelete \/ LookUp
  BY <1>3, <1>6 DEF SoftDelete, HardDelete, LookUp, KeepKafka, Keep
<1>7. CASE FetchWave \/ OrderStep BY <1>7 DEF FetchWave, OrderStep, KeepKafka, Keep
<1>8. CASE OtherClient BY <1>8 DEF OtherClient, OthersMake
<1>9. CASE \E failed \in SUBSET Items(request) : Send(failed) BY <1>3, <1>9 DEF Send
<1>10. CASE \E p \in 1..2 : Produce(p) BY <1>3, <1>10 DEF Produce
<1>11. CASE ProduceFails \/ Settled \/ SettleTimesOut
  BY <1>3, <1>11 DEF ProduceFails, Settled, SettleTimesOut
<1>12. CASE Poll \/ PollTopology BY <1>12 DEF Poll, PollTopology, progress
<1> QED BY <1>1, <1>2, <1>4, <1>5, <1>6, <1>7, <1>8, <1>9, <1>10, <1>11, <1>12 DEF Next

\* Every step keeps a walk in order.
LEMMA WalkStep == WritesInv /\ WritesInv' /\ WalkInv /\ [Next]_vars => WalkInv'
<1>1. SUFFICES ASSUME WritesInv, WritesInv', WalkInv, [Next]_vars PROVE WalkInv' OBVIOUS
<1>2. area' = area BY <1>1, WalkFrame
<1>3. CASE area # "encode"
  <2>1. stage' \notin {"fetch", "order", "encoded"} BY <1>1, <1>2, <1>3 DEF WritesInv, Underway
  <2> QED BY <1>2, <1>3, <2>1 DEF WalkInv
<1>4. CASE area = "encode"
  <2>1. kafka \in References BY <1>1, <1>4 DEF WalkInv
  <2>2. Graph(kafka) BY <2>1, ReferencesAssumption DEF Graph
  <2>3. CASE kafka' = kafka /\ stage' = "idle" BY <2>1, <2>3 DEF WalkInv
  <2>4. CASE UNCHANGED <<kafka, stage, plan>> BY <1>1, <1>2, <2>4 DEF WalkInv
  <2>5. CASE \E r \in Requests : Admitted(r)
    <3>1. kafka' = kafka /\ plan' = NoWalk(kafka) /\ stage' \in {"plan", "fetch"}
      BY <1>4, <2>5 DEF Admitted
    <3>2. stage' = "fetch" BY <1>1, <1>2, <1>4, <3>1 DEF WritesInv, Underway
    <3>3. Fetching(NoWalk(kafka), kafka) BY <2>2, WalkStarts
    <3>4. Fetching(plan', kafka') BY <3>1, <3>3
    <3> QED BY <2>1, <3>1, <3>2, <3>4 DEF WalkInv
  <2>6. CASE FetchWave
    <3>1. Fetching(plan, kafka) /\ kafka' = kafka
      BY <1>1, <2>6 DEF FetchWave, KeepKafka, Keep, WalkInv
    <3>2. CASE plan.pending \ plan.fetched = {}
      <4>1. plan' = plan /\ stage' = "order" BY <2>6, <3>2 DEF FetchWave, KeepKafka, Keep
      <4>2. Ordering(plan, kafka) BY <2>2, <3>1, <3>2, OrderingBegins
      <4>3. Ordering(plan', kafka') BY <3>1, <4>1, <4>2
      <4> QED BY <2>1, <3>1, <4>1, <4>3 DEF WalkInv
    <3>3. CASE plan.pending \ plan.fetched # {}
      <4>1. plan' = Wave(plan, kafka) /\ stage' = "fetch"
        BY <2>6, <3>3 DEF FetchWave, KeepKafka, Keep
      <4>2. Fetching(Wave(plan, kafka), kafka) BY <2>2, <3>1, WaveFetches
      <4>3. Fetching(plan', kafka') BY <3>1, <4>1, <4>2
      <4> QED BY <2>1, <3>1, <4>1, <4>3 DEF WalkInv
    <3> QED BY <3>2, <3>3
  <2>7. CASE OrderStep
    <3>1. Ordering(plan, kafka) /\ kafka' = kafka
      BY <1>1, <2>7 DEF OrderStep, KeepKafka, Keep, WalkInv
    <3>2. CASE plan.visits = <<>>
      <4>1. plan' = plan /\ stage' = "encoded" BY <2>7, <3>2 DEF OrderStep, KeepKafka, Keep
      <4>2. Ordering(plan', kafka') BY <3>1, <4>1
      <4> QED BY <2>1, <3>1, <3>2, <4>1, <4>2 DEF WalkInv
    <3>3. CASE plan.visits # <<>>
      <4>1. plan' = Visit(plan, kafka) /\ stage' = "order"
        BY <2>7, <3>3 DEF OrderStep, KeepKafka, Keep
      <4>2. Ordering(Visit(plan, kafka), kafka) BY <2>2, <3>1, <3>3, TurnKeeps
      <4>3. Ordering(plan', kafka') BY <3>1, <4>1, <4>2
      <4> QED BY <2>1, <3>1, <4>1, <4>3 DEF WalkInv
    <3> QED BY <3>2, <3>3
  <2> QED BY <1>1, <1>4, <2>3, <2>4, <2>5, <2>6, <2>7, WalkFrame
<1> QED BY <1>3, <1>4

\* A codec gets every schema that is referred to, once, and after the ones it refers to
\* itself, for every graph of references: any number of schemas, shared, repeated or in
\* circles (dependencies, in_dependency_order).
THEOREM SchemasComeInOrder == Spec => []ReferencesFirst
<1>1. Init => WalkInv BY DEF Init, Stored, WalkInv
<1>2. ASSUME WritesInv, WalkInv PROVE ReferencesFirst
  <2>1. SUFFICES ASSUME stage = "encoded"
                 PROVE  /\ \A s \in Reachable(kafka, RootSchema) :
                             Cardinality({i \in DOMAIN plan.ordered : plan.ordered[i] = s}) = 1
                        /\ Acyclic(kafka) => OrderedAfter(plan.ordered, kafka)
    BY DEF ReferencesFirst, OrderedAfter
  <2>2. area = "encode" BY <1>2, <2>1 DEF WritesInv, Underway
  <2>3. kafka \in References /\ Ordering(plan, kafka) /\ plan.visits = <<>>
    BY <1>2, <2>1, <2>2 DEF WalkInv
  <2>4. Graph(kafka) BY <2>3, ReferencesAssumption DEF Graph
  <2>5. Acyclic(kafka) => OrderedAfter(plan.ordered, kafka) BY <2>3 DEF Ordering
  <2> QED BY <2>3, <2>4, <2>5, AllOrdered
<1> QED BY <1>1, <1>2, WritesAreSound, WalkStep, PTL DEF Spec

------------------------------------------------------------------------------
(* What each request makes of the cluster, read back, shows the request.     *)

Entities == {{<<"user", "u">>}, {<<"user", "u">>, <<"client-id", "c">>}}

\* What else is kept of what a cluster stores.
Stores(k) ==
  /\ area = "topics" => k \in [Topics -> Nat]
  /\ area = "records" => k \in [1..2 -> [low : Int, high : Int]]
  /\ area = "quotas" => DOMAIN k = Entities
  /\ area = "scram" => DOMAIN k = Mechanisms

\* A request as its handler sends it.
Formed(r) ==
  /\ area = "topics" => r.topic \in Topics
  /\ r.op = "create_topics" => r.count \in Nat
  /\ r.op = "add_partitions" => r.count \in Nat \ {0}
  /\ area = "configs" =>
       /\ r.set \in UNION {[names -> {"v1", "v2"}] : names \in SUBSET ConfigNames}
       /\ r.reset \in SUBSET ConfigNames /\ DOMAIN r.set \cap r.reset = {}
  /\ r.op = "alter_topic_configs" => r.scope = "topic"
  /\ r.op = "alter_broker_configs" => r.scope \in Brokers \union {"default"}
  /\ r.op = "delete_records" => r.before \in Int
  /\ area = "quotas" => \E e \in Entities : r.entity = SortByKey(e)
  /\ area = "scram" => r.mechanism \in Mechanisms

------------------------------------------------------------------------------
\* The topics.
LEMMA CreatedShows ==
  ASSUME area = "topics", Stores(kafka), NEW r, r.op = "create_topics", Formed(r)
  PROVE  CreateTopicShown(r, TopicTable(CreateTopic(r, kafka)))
<1>1. kafka \in [Topics -> Nat] /\ r.topic \in Topics /\ r.count \in Nat
  BY DEF Stores, Formed
<1> DEFINE n == IF ToKrafkaTopic(r) = BROKER_DEFAULT THEN 1 ELSE r.count
<1>2. n \in Nat /\ n > 0 BY <1>1 DEF ToKrafkaTopic, BROKER_DEFAULT
<1>3. CreateTopic(r, kafka) = [kafka EXCEPT ![r.topic] = n] BY DEF CreateTopic
<1> HIDE DEF n
<1>4. [kafka EXCEPT ![r.topic] = n][r.topic] = n BY <1>1
<1> QED BY <1>1, <1>2, <1>3, <1>4 DEF CreateTopicShown, TopicTable

LEMMA DeletedShows ==
  ASSUME area = "topics", Stores(kafka), NEW r, Formed(r)
  PROVE  DeleteTopicShown(r, TopicTable(DeleteTopic(r, kafka)))
<1>1. kafka \in [Topics -> Nat] /\ r.topic \in Topics BY DEF Stores, Formed
<1>2. DeleteTopic(r, kafka)[r.topic] = 0 BY <1>1 DEF DeleteTopic
<1> QED BY <1>1, <1>2 DEF DeleteTopicShown, TopicTable

LEMMA AddedShows ==
  ASSUME area = "topics", Stores(kafka), NEW r, r.op = "add_partitions", Formed(r)
  PROVE  AddPartitionsShown(r, TopicTable(AddPartitions(r, kafka)))
<1>1. kafka \in [Topics -> Nat] /\ r.topic \in Topics /\ r.count \in Nat /\ r.count > 0
  BY DEF Stores, Formed
<1>2. AddPartitions(r, kafka)[r.topic] = r.count BY <1>1 DEF AddPartitions
<1>3. /\ r.topic \in DOMAIN TopicTable(AddPartitions(r, kafka))
      /\ TopicTable(AddPartitions(r, kafka))[r.topic].partitions = 1..r.count
  BY <1>1, <1>2 DEF TopicTable
<1>4. Cardinality(1..r.count) = r.count BY <1>1, FS_Interval
<1> QED BY <1>1, <1>3, <1>4 DEF AddPartitionsShown

\* Configs: of the levels that set a config, describe answers with the most specific.
LEMMA MostSpecific ==
  ASSUME NEW set, NEW l \in set, \A o \in set : Source(o) \in 1..4
  PROVE  \E top \in set : \A o \in set : Source(top) <= Source(o)
<1>1. CASE \E a \in set : Source(a) = 1 BY <1>1
<1>2. CASE (\A a \in set : Source(a) # 1) /\ \E a \in set : Source(a) = 2 BY <1>2
<1>3. CASE (\A a \in set : Source(a) \notin {1, 2}) /\ \E a \in set : Source(a) = 3 BY <1>3
<1>4. CASE \A a \in set : Source(a) = 4 BY <1>4
<1> QED BY <1>1, <1>2, <1>3, <1>4

LEMMA Sources ==
  /\ Source("topic") = 1 /\ Source("default") = 3 /\ Source("static") = 4
  /\ \A b \in Brokers : Source(b) = 2 /\ b \notin {"topic", "default", "static"}
BY TopicsAssumption DEF Source

\* The entry of a config that is set on a level of a resource, and of one that is not.
LEMMA EntryOfLevel ==
  ASSUME NEW k, NEW levels, \A l \in levels : Source(l) \in 1..4,
         NEW level \in levels, NEW name \in ConfigNames,
         \A l \in levels : Source(l) = Source(level) => l = level
  PROVE  LET entry == Described(k, levels)[name] IN
         /\ k[name][level] # Unset =>
              \/ entry.source < Source(level)
              \/ /\ entry.source = Source(level)
                 /\ entry.sensitive \/ entry.value = k[name][level]
         /\ k[name][level] = Unset => entry.source # Source(level)
<1> DEFINE set == {l \in levels : k[name][l] # Unset}
           top == CHOOSE l \in set : \A o \in set : Source(l) <= Source(o)
           entry == Described(k, levels)[name]
<1>1. entry = IF set = {} THEN [source |-> 5, value |-> Unset, sensitive |-> name = "secret"]
              ELSE [source |-> Source(top), sensitive |-> name = "secret",
                    value |-> IF name = "secret" THEN Unset ELSE k[name][top]]
  BY DEF Described
<1> HIDE DEF entry
<1>2. CASE set = {}
  <2>1. k[name][level] = Unset BY <1>2
  <2>2. entry.source = 5 BY <1>1, <1>2
  <2> QED BY <2>1, <2>2 DEF entry
<1>3. CASE set # {}
  <2>1. \A o \in set : Source(o) \in 1..4 OBVIOUS
  <2>2. \E l \in set : \A o \in set : Source(l) <= Source(o)
    <3> HIDE DEF set
    <3> QED BY <1>3, <2>1, MostSpecific
  <2>3. top \in set /\ \A o \in set : Source(top) <= Source(o)
    <3> HIDE DEF set
    <3> QED BY <2>2
  <2>4. top \in levels /\ k[name][top] # Unset BY <2>3
  <2>5. k[name][level] # Unset => Source(top) <= Source(level) BY <2>3
  <2> HIDE DEF set, top
  <2>6. /\ entry.source = Source(top)
        /\ entry.sensitive <=> name = "secret"
        /\ name # "secret" => entry.value = k[name][top]
    BY <1>1, <1>3
  <2>7. Source(top) = Source(level) => top = level BY <2>4
  <2>8. Source(top) \in 1..4 /\ Source(level) \in 1..4 BY <2>4
  <2>9. CASE k[name][level] = Unset BY <2>4, <2>6, <2>7, <2>9 DEF entry
  <2>10. CASE k[name][level] # Unset
    <3>1. CASE Source(top) < Source(level) BY <2>6, <2>10, <3>1 DEF entry
    <3>2. CASE Source(top) = Source(level)
      <4>1. entry.source = Source(level) /\ (entry.sensitive \/ entry.value = k[name][level])
        BY <2>6, <2>7, <3>2
      <4> QED BY <2>10, <4>1 DEF entry
    <3> QED BY <2>5, <2>8, <2>10, <3>1, <3>2
  <2> QED BY <2>9, <2>10
<1> QED BY <1>2, <1>3

\* An edit of a level shows in the configs of every resource that has the level.
LEMMA EditShows ==
  ASSUME area = "configs", NEW r, Formed(r), r.scope \in Levels,
         NEW levels, r.scope \in levels,
         \A l \in levels : Source(l) \in 1..4,
         \A l \in levels : Source(l) = Source(r.scope) => l = r.scope
  PROVE  ShowsIn(r, Described(AlterConfigs(r, kafka), levels), Source(r.scope))
<1> DEFINE k == AlterConfigs(r, kafka)
           entries == Described(k, levels)
<1>1. PICK names \in SUBSET ConfigNames : r.set \in [names -> {"v1", "v2"}]
  BY DEF Formed
<1>2. DOMAIN r.set \subseteq ConfigNames /\ \A name \in DOMAIN r.set : r.set[name] # Unset
  BY <1>1 DEF Unset
<1>3. r.reset \subseteq ConfigNames /\ DOMAIN r.set \cap r.reset = {} BY DEF Formed
<1>4. \A name \in DOMAIN r.set : k[name][r.scope] = r.set[name] BY <1>2 DEF AlterConfigs
<1>5. \A name \in r.reset : k[name][r.scope] = Unset BY <1>3 DEF AlterConfigs
<1> HIDE DEF k
<1>6. ASSUME NEW name \in ConfigNames
      PROVE  /\ k[name][r.scope] # Unset =>
                  \/ entries[name].source < Source(r.scope)
                  \/ /\ entries[name].source = Source(r.scope)
                     /\ entries[name].sensitive \/ entries[name].value = k[name][r.scope]
             /\ k[name][r.scope] = Unset => entries[name].source # Source(r.scope)
  BY <1>6, EntryOfLevel
<1> HIDE DEF entries
<1>7. \A name \in DOMAIN r.set :
        \/ entries[name].source < Source(r.scope)
        \/ /\ entries[name].source = Source(r.scope)
           /\ entries[name].sensitive \/ entries[name].value = r.set[name]
  <2>1. SUFFICES ASSUME NEW name \in DOMAIN r.set
                 PROVE  \/ entries[name].source < Source(r.scope)
                        \/ /\ entries[name].source = Source(r.scope)
                           /\ entries[name].sensitive \/ entries[name].value = r.set[name]
    OBVIOUS
  <2>2. k[name][r.scope] = r.set[name] /\ k[name][r.scope] # Unset /\ name \in ConfigNames
    BY <1>2, <1>4
  <2> QED BY <1>6, <2>2
<1>8. \A name \in r.reset : entries[name].source # Source(r.scope) BY <1>3, <1>5, <1>6
<1>9. ShowsIn(r, entries, Source(r.scope)) BY <1>7, <1>8 DEF ShowsIn
<1> QED BY <1>9 DEF entries, k

LEMMA TopicEditShows ==
  ASSUME area = "configs", NEW r, r.op = "alter_topic_configs", Formed(r)
  PROVE  TopicConfigsShown(r, ConfigTable(AlterConfigs(r, kafka)))
<1>1. r.scope = "topic" /\ r.scope \in Levels BY DEF Formed, Levels
<1> DEFINE levels == {"topic", "default", "static"}
<1>2. ShowsIn(r, Described(AlterConfigs(r, kafka), levels), Source(r.scope))
  <2>1. /\ \A l \in levels : Source(l) \in 1..4
        /\ \A l \in levels : Source(l) = Source(r.scope) => l = r.scope
    BY <1>1, Sources
  <2>2. r.scope \in levels BY <1>1
  <2> HIDE DEF levels
  <2> QED BY <1>1, <2>1, <2>2, EditShows
<1>3. ConfigTable(AlterConfigs(r, kafka))["topic"] = Described(AlterConfigs(r, kafka), levels)
  BY DEF ConfigTable, TopicConfigs
<1> QED BY <1>2, <1>3 DEF TopicConfigsShown

LEMMA BrokerEditShows ==
  ASSUME area = "configs", NEW r, r.op = "alter_broker_configs", Formed(r)
  PROVE  BrokerConfigsShown(r, ConfigTable(AlterConfigs(r, kafka)))
<1>1. r.scope \in Brokers \union {"default"} /\ r.scope \in Levels BY DEF Formed, Levels
<1>2. SUFFICES ASSUME NEW broker \in IF r.scope = "default" THEN Brokers ELSE {r.scope}
               PROVE  ShowsIn(r, ConfigTable(AlterConfigs(r, kafka))[broker], Source(r.scope))
  BY DEF BrokerConfigsShown
<1>3. broker \in Brokers /\ r.scope \in {broker, "default"} BY <1>1, <1>2
<1> DEFINE levels == {broker, "default", "static"}
<1>4. ShowsIn(r, Described(AlterConfigs(r, kafka), levels), Source(r.scope))
  <2>1. /\ \A l \in levels : Source(l) \in 1..4
        /\ \A l \in levels : Source(l) = Source(r.scope) => l = r.scope
    BY <1>3, Sources
  <2>2. r.scope \in levels BY <1>3
  <2> HIDE DEF levels
  <2> QED BY <1>1, <2>1, <2>2, EditShows
<1>5. broker # "topic" BY <1>3, Sources
<1>6. ConfigTable(AlterConfigs(r, kafka))[broker] = Described(AlterConfigs(r, kafka), levels)
  BY <1>3, <1>5 DEF ConfigTable, BrokerConfigs
<1> QED BY <1>4, <1>6

\* Records.
LEMMA DeletedRecords ==
  ASSUME area = "records", Stores(kafka), NEW r, r.before \in Int, NEW parts
  PROVE  /\ DeleteRecords(r, kafka, parts) \in [1..2 -> [low : Int, high : Int]]
<1>1. kafka \in [1..2 -> [low : Int, high : Int]] BY DEF Stores
<1>2. ASSUME NEW p \in 1..2
      PROVE  [kafka[p] EXCEPT !.low = LowAfter(kafka[p], r.before)] \in [low : Int, high : Int]
  <2>1. kafka[p] \in [low : Int, high : Int] BY <1>1, <1>2
  <2>2. LowAfter(kafka[p], r.before) \in Int BY <2>1 DEF LowAfter
  <2> QED BY <2>1, <2>2
<1> QED BY <1>1, <1>2 DEF DeleteRecords

LEMMA DeletionShows ==
  ASSUME area = "records", NEW k \in [1..2 -> [low : Int, high : Int]],
         NEW parts \in SUBSET (1..2)
  PROVE  DeleteRecordsShown([p \in parts |-> k[p].low], k)
BY DEF DeleteRecordsShown

\* ACLs.
LEMMA AclsComeBack ==
  ASSUME NEW acl \in Acls, acl.pattern = "Literal"
  PROVE  /\ FromWire(StoredAcl(acl)) = acl /\ OperationKnown(StoredAcl(acl).operation)
         /\ StoredAcl(acl) = [name |-> acl.name, pattern |-> 3, operation |-> acl.operation]
<1> DEFINE row == [name |-> acl.name, pattern |-> 3, operation |-> acl.operation]
<1>1. /\ acl = [name |-> acl.name, pattern |-> acl.pattern, operation |-> acl.operation]
      /\ acl.operation = "Read"
  BY DEF Acls
<1>2. StoredAcl(acl) = [acl EXCEPT !.pattern = 3] BY LiteralRow
<1>3. StoredAcl(acl) = row BY <1>1, <1>2
<1>4. PatternFromKrafka(KrafkaPattern(3)) = "Literal" BY DEF PatternFromKrafka, KrafkaPattern
<1>5. FromWire(row) = [row EXCEPT !.pattern = "Literal"] BY <1>4 DEF FromWire
<1>6. FromWire(row) = acl BY <1>1, <1>5
<1>7. OperationKnown(row.operation) BY <1>1 DEF OperationKnown
<1> QED BY <1>3, <1>6, <1>7

LEMMA CreatedAclsShow ==
  ASSUME NEW k, NEW r, r.rows \subseteq {acl \in Acls : acl.pattern = "Literal"}
  PROVE  CreateAclsShown(r, AclTable(CreateAcls(k, r.rows), TRUE))
<1>1. SUFFICES ASSUME NEW acl \in r.rows
               PROVE  acl \in AclTable(CreateAcls(k, r.rows), TRUE)
  BY DEF CreateAclsShown
<1>2. FromWire(StoredAcl(acl)) = acl /\ OperationKnown(StoredAcl(acl).operation)
  BY AclsComeBack
<1>3. StoredAcl(acl) \in CreateAcls(k, r.rows) BY DEF CreateAcls
<1> QED BY <1>2, <1>3 DEF AclTable

LEMMA DeletedAclsGone ==
  ASSUME NEW k \in SUBSET AclRows, NEW r,
         r.rows \subseteq {acl \in Acls : acl.pattern = "Literal"}
  PROVE  DeleteAclShown(r, AclTable(DeleteAcl(k, r), TRUE))
<1>1. SUFFICES ASSUME NEW acl \in r.rows, acl \in AclTable(DeleteAcl(k, r), TRUE) PROVE FALSE
  BY DEF DeleteAclShown
<1>2. PICK row \in DeleteAcl(k, r) : acl = FromWire(row) BY <1>1 DEF AclTable
<1>3. row \in k /\ row \in AclRows /\ row \notin Deleted(k, StoredAcl(acl))
  BY <1>1, <1>2 DEF DeleteAcl
<1>4. acl.pattern = "Literal" /\ acl \in Acls OBVIOUS
<1>5. acl.name = row.name /\ acl.operation = row.operation
      /\ acl.pattern = PatternFromKrafka(KrafkaPattern(row.pattern))
  BY <1>2, <1>3 DEF FromWire, AclRows
<1>6. row.pattern = 3
  BY <1>3, <1>4, <1>5 DEF AclRows, KrafkaPattern, PatternFromKrafka
<1>7. StoredAcl(acl) = [name |-> acl.name, pattern |-> 3, operation |-> acl.operation]
  BY <1>4, AclsComeBack
<1> QED BY <1>3, <1>5, <1>6, <1>7 DEF Deleted

\* Quotas: the parts of an entity have an order, and come back in it.
LEMMA Ranks ==
  /\ (CHOOSE i \in 1..3 : <<"user", "client-id", "ip">>[i] = "user") = 1
  /\ (CHOOSE i \in 1..3 : <<"user", "client-id", "ip">>[i] = "client-id") = 2
<1> DEFINE kinds == <<"user", "client-id", "ip">>
<1>1. kinds[1] = "user" /\ kinds[2] = "client-id" /\ kinds[3] = "ip" OBVIOUS
<1> HIDE DEF kinds
<1>2. \A i \in 1..3 : (kinds[i] = "user" <=> i = 1) /\ (kinds[i] = "client-id" <=> i = 2)
  <2>1. \A i \in 1..3 : i = 1 \/ i = 2 \/ i = 3 OBVIOUS
  <2> QED BY <1>1, <2>1
<1>3. (CHOOSE i \in 1..3 : kinds[i] = "user") = 1 BY <1>2
<1>4. (CHOOSE i \in 1..3 : kinds[i] = "client-id") = 2 BY <1>2
<1> QED BY <1>3, <1>4 DEF kinds

LEMMA UserFirst == EntityOrder(<<"user", "u">>, <<"client-id", "c">>)
BY Ranks DEF EntityOrder

LEMMA PairCounts ==
  ASSUME NEW x, NEW y, x # y
  PROVE  Cardinality({x, y}) = 2 /\ IsFiniteSet({x, y})
<1>1. IsFiniteSet({x}) /\ Cardinality({x}) = 1 BY FS_Singleton
<1>2. Cardinality({x} \union {y}) = 2 /\ IsFiniteSet({x} \union {y}) BY <1>1, FS_AddElement
<1>3. {x, y} = {x} \union {y} OBVIOUS
<1> QED BY <1>2, <1>3

LEMMA PartsSort ==
  ASSUME NEW e \in Entities
  PROVE  SortByKey(e) \in [1..Cardinality(e) -> e] /\ Range(SortByKey(e)) = e
<1> DEFINE Sorted(s) == Range(s) = e /\ \A i, j \in DOMAIN s : i < j => EntityOrder(s[i], s[j])
<1>1. \E s \in [1..Cardinality(e) -> e] : Sorted(s)
  <2>1. PICK x : x = <<"user", "u">> OBVIOUS
  <2>2. PICK y : y = <<"client-id", "c">> OBVIOUS
  <2>3. x # y BY <2>1, <2>2
  <2>4. CASE e = {x}
    <3>1. Cardinality(e) = 1 BY <2>4, FS_Singleton
    <3> DEFINE s == [i \in 1..1 |-> x]
    <3>2. s \in [1..Cardinality(e) -> e] BY <2>4, <3>1
    <3>3. Sorted(s) BY <2>4 DEF Range
    <3> QED BY <3>2, <3>3
  <2>5. CASE e = {x, y}
    <3>1. Cardinality(e) = 2 BY <2>3, <2>5, PairCounts
    <3> DEFINE s == [i \in 1..2 |-> IF i = 1 THEN x ELSE y]
    <3>2. s \in [1..Cardinality(e) -> e] BY <2>5, <3>1
    <3>3. EntityOrder(x, y) BY <2>1, <2>2, UserFirst
    <3>4. s[1] = x /\ s[2] = y /\ DOMAIN s = 1..2 OBVIOUS
    <3>5. Range(s) = e
      <4>1. x \in Range(s) /\ y \in Range(s) BY <3>4 DEF Range
      <4>2. Range(s) \subseteq e BY <3>2 DEF Range
      <4> QED BY <2>5, <4>1, <4>2
    <3> HIDE DEF s
    <3>6. \A i, j \in DOMAIN s : i < j => i = 1 /\ j = 2 BY <3>4
    <3>7. Sorted(s) BY <3>3, <3>4, <3>5, <3>6
    <3> QED BY <3>2, <3>7
  <2> QED BY <2>1, <2>2, <2>4, <2>5 DEF Entities
<1>2. SortByKey(e) = CHOOSE s \in [1..Cardinality(e) -> e] : Sorted(s) BY DEF SortByKey
<1> HIDE DEF Sorted
<1>3. SortByKey(e) \in [1..Cardinality(e) -> e] /\ Sorted(SortByKey(e)) BY <1>1, <1>2
<1> QED BY <1>3 DEF Sorted

LEMMA PartsComeBack ==
  ASSUME NEW e \in Entities
  PROVE  FromDescribed(e) = SortByKey(e)
<1> DEFINE s == SortByKey(e)
           n == Cardinality(e)
<1>1. s \in [1..n -> e] /\ Range(s) = e BY PartsSort
<1>2. n \in Nat
  <2>1. IsFiniteSet(e)
    <3>1. PICK x, y : x = <<"user", "u">> /\ y = <<"client-id", "c">> OBVIOUS
    <3>2. x # y /\ (e = {x} \/ e = {x, y}) BY <3>1 DEF Entities
    <3>3. IsFiniteSet({x}) BY FS_Singleton
    <3>4. IsFiniteSet({x, y}) BY <3>2, PairCounts
    <3> QED BY <3>2, <3>3, <3>4
  <2> QED BY <2>1, FS_CardinalityType
<1> HIDE DEF s, n
<1>3. Len(s) = n BY <1>1, <1>2
<1>4. Range(Reverse(s)) = Range(s)
  <2>1. DOMAIN s = 1..n BY <1>1
  <2>2. Reverse(s) = [i \in 1..n |-> s[(n - i) + 1]] BY <1>3 DEF Reverse
  <2>3. ASSUME NEW x \in Range(Reverse(s)) PROVE x \in Range(s)
    <3>1. PICK i \in 1..n : x = s[(n - i) + 1] BY <2>2, <2>3 DEF Range
    <3>2. (n - i) + 1 \in 1..n BY <1>2, <3>1
    <3> QED BY <2>1, <3>1, <3>2 DEF Range
  <2>4. ASSUME NEW x \in Range(s) PROVE x \in Range(Reverse(s))
    <3>1. PICK i \in 1..n : x = s[i] BY <2>1, <2>4 DEF Range
    <3>2. (n - i) + 1 \in 1..n /\ (n - ((n - i) + 1)) + 1 = i BY <1>2, <3>1
    <3>3. Reverse(s)[(n - i) + 1] = x BY <2>2, <3>1, <3>2
    <3>4. DOMAIN Reverse(s) = 1..n BY <2>2
    <3> QED BY <3>2, <3>3, <3>4 DEF Range
  <2> QED BY <2>3, <2>4
<1>5. Range(WireParts(e)) = e BY <1>1, <1>4 DEF WireParts, s
<1> QED BY <1>5 DEF FromDescribed, s

LEMMA QuotaShows ==
  ASSUME NEW k, DOMAIN k = Entities, NEW r, NEW e \in Entities, r.entity = SortByKey(e)
  PROVE  /\ QuotaShown(r, QuotaTable(AlterQuota(r, k), TRUE))
         /\ DOMAIN AlterQuota(r, k) = Entities
<1> DEFINE u == AlterQuota(r, k)
           table == QuotaTable(u, TRUE)
           values == QuotaValues(r.entity, table)
<1>1. Range(r.entity) = e BY PartsSort
<1>2. DOMAIN u = Entities /\ u[e] = r.values BY <1>1 DEF AlterQuota
<1> HIDE DEF u
<1>3. table = {[entity |-> FromDescribed(x), values |-> u[x]] :
                 x \in {y \in Entities : u[y] # NoValues}}
  BY <1>2 DEF QuotaTable
<1> HIDE DEF table
<1>4. ASSUME NEW row \in table, row.entity = r.entity
      PROVE  row.values = r.values /\ r.values # NoValues
  <2>1. PICK x \in {y \in Entities : u[y] # NoValues} :
          row = [entity |-> FromDescribed(x), values |-> u[x]]
    BY <1>3, <1>4
  <2>2. row.entity = SortByKey(x) /\ row.values = u[x] BY <2>1, PartsComeBack
  <2>3. Range(SortByKey(x)) = x BY <2>1, PartsSort
  <2>4. x = e BY <1>1, <1>4, <2>2, <2>3
  <2> QED BY <1>2, <2>1, <2>2, <2>4
<1>5. CASE r.values = NoValues
  <2>1. values = {} BY <1>4, <1>5 DEF QuotaValues
  <2>2. QuotaShown(r, table) BY <1>5, <2>1 DEF QuotaShown
  <2> QED BY <1>2, <2>2 DEF u, table
<1>6. CASE r.values # NoValues
  <2>1. PICK row : row = [entity |-> FromDescribed(e), values |-> u[e]] OBVIOUS
  <2>2. row \in table BY <1>2, <1>3, <1>6, <2>1
  <2>3. row.entity = r.entity /\ row.values = r.values BY <1>2, <2>1, PartsComeBack
  <2>4. values = {r.values} BY <1>4, <2>2, <2>3 DEF QuotaValues
  <2>5. QuotaShown(r, table) BY <2>4 DEF QuotaShown
  <2> QED BY <1>2, <2>5 DEF u, table
<1> QED BY <1>5, <1>6

\* SCRAM credentials.
LEMMA SetScramShows ==
  ASSUME NEW k, DOMAIN k = Mechanisms, NEW r, r.mechanism \in Mechanisms
  PROVE  SetScramShown(r, ScramTable(SetScram(r, k), TRUE))
BY DEF ScramTable, SetScram, SetScramShown

LEMMA DeletedScramShows ==
  ASSUME NEW k, DOMAIN k = Mechanisms, NEW r, r.mechanism \in Mechanisms
  PROVE  DeleteScramShown(r, ScramTable(DeleteScram(r, k), TRUE))
BY DEF ScramTable, DeleteScram, DeleteScramShown

\* Groups.
LEMMA ResetShows ==
  ASSUME NEW k \in GroupData, NEW moves, DOMAIN moves \subseteq 1..2
  PROVE  ResetShown(moves, GroupTable(AlterGroupOffsets(k, moves, DOMAIN moves)))
<1> DEFINE st == IF k.state = "Gone" THEN "Empty" ELSE k.state
           c == [p \in DOMAIN k.committed |->
                   IF p \in DOMAIN moves THEN moves[p] ELSE k.committed[p]]
           v == [k EXCEPT !.state = st]
           u == [v EXCEPT !.committed = c]
<1>1. DOMAIN k.committed = 1..2 BY DEF GroupData, Commits
<1>2. \A p \in DOMAIN moves : c[p] = moves[p] BY <1>1
<1>3. AlterGroupOffsets(k, moves, DOMAIN moves) = u BY DEF AlterGroupOffsets, GroupData
<1> HIDE DEF c, st
<1>4. u.committed = c BY DEF GroupData
<1> HIDE DEF u
<1> QED BY <1>2, <1>3, <1>4 DEF ResetShown, GroupTable

LEMMA DeletedOffsetsShow ==
  ASSUME NEW k \in GroupData, NEW items,
         items = {p \in DOMAIN k.committed : k.committed[p] # NoOffset}
  PROVE  DeleteOffsetsShown(GroupTable(DeleteGroupOffsets(k, items)))
<1> DEFINE c == [p \in DOMAIN k.committed |-> IF p \in items THEN NoOffset ELSE k.committed[p]]
           u == [k EXCEPT !.committed = c]
<1>1. \A p \in DOMAIN c : c[p] = NoOffset OBVIOUS
<1>2. DeleteGroupOffsets(k, items) = u BY DEF DeleteGroupOffsets
<1> HIDE DEF c
<1>3. u.committed = c BY DEF GroupData
<1> HIDE DEF u
<1> QED BY <1>1, <1>2, <1>3 DEF DeleteOffsetsShown, GroupTable

LEMMA DeletedGroupShows ==
  ASSUME NEW k \in GroupData
  PROVE  DeleteGroupShown(GroupTable(DeleteGroup(k)))
<1> DEFINE c == [p \in DOMAIN k.committed |-> NoOffset]
           v == [k EXCEPT !.state = "Gone"]
           u == [v EXCEPT !.committed = c]
<1>1. DeleteGroup(k) = u BY DEF DeleteGroup, GroupData
<1> HIDE DEF c
<1>2. u.state = "Gone" BY DEF GroupData
<1> HIDE DEF u
<1> QED BY <1>1, <1>2 DEF DeleteGroupShown, GroupTable

\* Schemas: a set of versions has a last one.
LEMMA LastVersion ==
  ASSUME NEW N \in Nat, NEW S \in SUBSET (1..N), S # {}
  PROVE  Max(S) \in S
<1> DEFINE tails == {i..N : i \in S}
           smaller == StrictSubsetOrdering(Nat)
<1>1. tails \subseteq FiniteSubsetsOf(Nat)
  <2>1. ASSUME NEW i \in S PROVE i..N \in SUBSET Nat /\ IsFiniteSet(i..N) BY FS_Interval
  <2> QED BY <2>1 DEF FiniteSubsetsOf
<1>2. tails # {} OBVIOUS
<1>3. IsWellFoundedOn(smaller, FiniteSubsetsOf(Nat)) BY FS_StrictSubsetOrderingWellFounded
<1>4. PICK tail \in tails : \A other \in tails : <<other, tail>> \notin smaller
  <2> HIDE DEF tails, smaller
  <2> QED BY <1>1, <1>2, <1>3, WFMin
<1>5. PICK i \in S : tail = i..N OBVIOUS
<1>6. ASSUME NEW j \in S, j > i PROVE FALSE
  <2>1. j..N \subseteq i..N /\ i \in i..N /\ i \notin j..N BY <1>6
  <2>2. <<j..N, i..N>> \in smaller BY <1>6, <2>1 DEF StrictSubsetOrdering
  <2> QED BY <1>4, <1>5, <2>2, j..N \in tails
<1>7. i \in S /\ \A j \in S : i >= j BY <1>6
<1> QED BY <1>7, Zenon DEF Max

LEMMA RegisteredShows ==
  ASSUME NEW k \in SubjectData, NEW schema, Lookup(k, schema) # {}
  PROVE  RegisterShown(Max(Lookup(k, schema)), SubjectTable(k, NoSubject))
<1>1. DOMAIN k.versions = 1..Len(k.versions) /\ Len(k.versions) \in Nat
  BY DEF SubjectData, Versions
<1>2. Lookup(k, schema) \in SUBSET (1..Len(k.versions))
  BY <1>1 DEF Lookup, LiveVersions, Having
<1>3. Max(Lookup(k, schema)) \in Lookup(k, schema) BY <1>1, <1>2, LastVersion
<1>4. Max(Lookup(k, schema)) \in LiveVersions(k) BY <1>3 DEF Lookup
<1>5. SubjectTable(k, NoSubject).versions = LiveVersions(k)
  BY <1>4 DEF SubjectTable, LoadSubject
<1> QED BY <1>4, <1>5 DEF RegisterShown

LEMMA LevelShows ==
  ASSUME NEW k \in SubjectData, NEW r, r.level \in CompatibilityLevels,
         LiveVersions(SetCompatibility(r, k)) # {}
  PROVE  SetCompatibilityShown(r, SubjectTable(SetCompatibility(r, k), NoSubject))
<1> DEFINE u == SetCompatibility(r, k)
<1>1. u.level = r.level BY DEF SetCompatibility, SubjectData
<1>2. r.level # NoLevel BY DEF CompatibilityLevels, NoLevel
<1> HIDE DEF u
<1>3. SubjectTable(u, NoSubject).level = r.level BY <1>1, <1>2 DEF SubjectTable, LoadSubject, u
<1> QED BY <1>3 DEF SetCompatibilityShown, u

\* None of the versions that were named is live.
NamedGone(k, r) ==
  IF r.version = 0 THEN LiveVersions(k) = {} ELSE r.version \notin LiveVersions(k)

LEMMA GoneShows ==
  ASSUME NEW k, NEW r, NamedGone(k, r)
  PROVE  DeleteSchemaShown(r, SubjectTable(k, NoSubject))
<1>1. CASE LiveVersions(k) = {}
  <2>1. SubjectTable(k, NoSubject) = NoSubject BY <1>1 DEF SubjectTable
  <2> QED BY <2>1 DEF DeleteSchemaShown
<1>2. CASE LiveVersions(k) # {}
  <2>1. r.version # 0 /\ r.version \notin LiveVersions(k) BY <1>2 DEF NamedGone
  <2>2. SubjectTable(k, NoSubject).versions = LiveVersions(k)
    BY <1>2 DEF SubjectTable, LoadSubject
  <2> QED BY <2>1, <2>2 DEF DeleteSchemaShown
<1> QED BY <1>1, <1>2

LEMMA MarkedLive ==
  ASSUME NEW k \in SubjectData, NEW versions, NEW from, NEW to \in {"soft", "hard"}
  PROVE  \A v \in LiveVersions(Mark(k, versions, from, to)) :
           v \in LiveVersions(k) /\ (from = "live" => v \notin versions)
<1> DEFINE S == [schema : Schemas, is : {"live", "soft", "hard"}]
           marked == [v \in DOMAIN k.versions |->
                        IF v \in versions /\ k.versions[v].is = from
                        THEN [k.versions[v] EXCEPT !.is = to] ELSE k.versions[v]]
           vs == IF \A v \in DOMAIN marked : marked[v].is = "hard" THEN <<>> ELSE marked
<1>1. \A v \in DOMAIN k.versions : k.versions[v] \in S
  <2> DEFINE q == k.versions
  <2>1. q \in Seq(S) BY DEF SubjectData, Versions
  <2> HIDE DEF q, S
  <2>2. \A v \in DOMAIN q : q[v] \in S BY <2>1
  <2> QED BY <2>2 DEF q
<1>2. ASSUME NEW v \in DOMAIN k.versions, marked[v].is = "live"
      PROVE  k.versions[v].is = "live" /\ (from = "live" => v \notin versions)
  <2>1. k.versions[v] \in S BY <1>1, <1>2
  <2>2. CASE v \in versions /\ k.versions[v].is = from
    <3>1. marked[v] = [k.versions[v] EXCEPT !.is = to] BY <1>2, <2>2
    <3>2. marked[v].is = to BY <2>1, <3>1
    <3> QED BY <1>2, <3>2
  <2>3. CASE ~(v \in versions /\ k.versions[v].is = from)
    <3>1. marked[v] = k.versions[v] BY <1>2, <2>3
    <3> QED BY <1>2, <2>3, <3>1
  <2> QED BY <2>2, <2>3
<1>3. Mark(k, versions, from, to) = [k EXCEPT !.versions = vs] BY DEF Mark
<1>4. DOMAIN marked = DOMAIN k.versions OBVIOUS
<1> HIDE DEF marked, vs
<1>5. Mark(k, versions, from, to).versions = vs BY <1>3 DEF SubjectData
<1>6. SUFFICES ASSUME NEW v \in DOMAIN vs, vs[v].is = "live"
               PROVE  v \in LiveVersions(k) /\ (from = "live" => v \notin versions)
  BY <1>5 DEF LiveVersions, Having
<1>7. v \in DOMAIN k.versions /\ marked[v].is = "live" BY <1>4, <1>6 DEF vs
<1> QED BY <1>2, <1>7 DEF LiveVersions, Having

------------------------------------------------------------------------------
\* Outside of four areas a request needs no more than its operation.
LEMMA OtherwiseFormed ==
  ASSUME NEW r, area \in Areas \ {"topics", "configs", "records", "quotas", "scram"},
         r.op \in Ops(area)
  PROVE  Formed(r)
BY DEF Formed, Ops, Areas

\* A body that is parsed is formed.
LEMMA ParsedFormed ==
  ASSUME Places, Shapes, NEW raw \in Requests, Parsed(raw) # Invalid,
         Known(Parsed(raw)) = "no" \/ area \in {"topics", "records"}
  PROVE  Formed(Parsed(raw))
<1> DEFINE r == Parsed(raw)
<1>1. raw.op \in Ops(area) /\ r.op = raw.op BY RequestOps
<1>2. CASE area = "topics"
  <2>1. raw \in CreateTopicBodies \union DeleteTopicBodies \union AddPartitionsBodies
    BY <1>2 DEF Requests
  <2>2. raw.op = "create_topics" => r = IntoTopic(raw) BY <1>2 DEF Parsed
  <2>3. raw.op # "create_topics" => r = raw BY <1>1, <1>2 DEF Parsed, Ops
  <2>4. r = raw BY <2>2, <2>3 DEF IntoTopic
  <2>5. raw.op = "create_topics" => raw \in CreateTopicBodies /\ raw.topic # "bad name"
    BY <2>1, <2>2 DEF IntoTopic, ValidTopicName, CreateTopicBodies, DeleteTopicBodies,
                      AddPartitionsBodies
  <2>6. raw.op # "create_topics" => raw.topic \in Topics
    BY <2>1 DEF CreateTopicBodies, DeleteTopicBodies, AddPartitionsBodies
  <2>7. raw.op = "add_partitions" => raw.count \in 1..MaxPartitions
    BY <2>1 DEF CreateTopicBodies, DeleteTopicBodies, AddPartitionsBodies
  <2>8. raw.op = "create_topics" => raw.topic \in Topics /\ raw.count \in Nat
    <3>1. SUFFICES ASSUME raw.op = "create_topics"
                   PROVE  raw.topic \in Topics /\ raw.count \in Nat
      OBVIOUS
    <3>2. raw \in CreateTopicBodies /\ raw.topic # "bad name" BY <2>5, <3>1
    <3>3. raw.topic \in Topics \union {"bad name"} /\ raw.count \in 0..MaxPartitions
      BY <3>2 DEF CreateTopicBodies
    <3>4. raw.topic \in Topics BY <3>2, <3>3
    <3>5. MaxPartitions \in Nat BY TopicsAssumption
    <3>6. raw.count \in Nat
      <4>1. PICK n \in 0..MaxPartitions : n = raw.count BY <3>3
      <4> QED BY <3>5, <4>1
    <3> QED BY <3>4, <3>6
  <2>9. raw.op = "add_partitions" => raw.count \in Nat \ {0} BY <2>7, TopicsAssumption
  <2> HIDE DEF r
  <2>10. Formed(raw) BY <1>1, <1>2, <2>6, <2>8, <2>9 DEF Formed, Ops
  <2> QED BY <2>4, <2>10 DEF r
<1>3. CASE area = "configs"
  <2>1. r = raw /\ DOMAIN raw.set \cap raw.reset = {}
    <3>1. raw.op \in {"alter_topic_configs", "alter_broker_configs"} BY <1>1, <1>3 DEF Ops
    <3>2. r = IntoEdit(raw) BY <1>3, <3>1 DEF Parsed
    <3> QED BY <3>2 DEF IntoEdit
  <2>2. raw.op = "alter_broker_configs" => KnownBroker(raw.scope) = "no"
    BY <1>1, <1>3, <2>1 DEF Known, Ops
  <2>3. raw.op = "alter_broker_configs" => raw.scope # "gone" BY <2>2 DEF KnownBroker
  <2>4. raw \in TopicConfigBodies \union BrokerConfigBodies BY <1>3 DEF Requests
  <2>5. \E edit \in Edits : raw.set = edit.set /\ raw.reset = edit.reset
    BY <2>4 DEF TopicConfigBodies, BrokerConfigBodies, EditBody
  <2>6. /\ raw.set \in UNION {[names -> {"v1", "v2"}] : names \in SUBSET ConfigNames}
        /\ raw.reset \in SUBSET ConfigNames
    <3>1. PICK edit \in Edits : raw.set = edit.set /\ raw.reset = edit.reset BY <2>5
    <3> DEFINE sets == UNION {[names -> {"v1", "v2"}] : names \in SUBSET ConfigNames}
    <3>2. edit \in [set : sets, reset : SUBSET ConfigNames] BY <3>1 DEF Edits
    <3> HIDE DEF sets
    <3>3. edit.set \in sets /\ edit.reset \in SUBSET ConfigNames BY <3>2
    <3> QED BY <3>1, <3>3 DEF sets
  <2>7. /\ raw.op = "alter_topic_configs" => raw.scope = "topic"
        /\ raw.op = "alter_broker_configs" => raw.scope \in Brokers \union {"default"}
    BY <2>3, <2>4 DEF TopicConfigBodies, BrokerConfigBodies, EditBody
  <2> HIDE DEF r
  <2>8. Formed(raw) BY <1>1, <1>3, <2>1, <2>6, <2>7 DEF Formed, Ops
  <2> QED BY <2>1, <2>8 DEF r
<1>4. CASE area = "records"
  <2>1. raw \in DeleteRecordsBodies \union ProduceBodies BY <1>4 DEF Requests
  <2>2. r = raw BY <1>1, <1>4 DEF Parsed, Before, Ops
  <2>3. raw.op = "delete_records" => raw.before \in Int
    BY <2>1 DEF DeleteRecordsBodies, ProduceBodies, HIGH_WATERMARK
  <2> HIDE DEF r
  <2>4. Formed(raw) BY <1>1, <1>4, <2>3 DEF Formed, Ops
  <2> QED BY <2>2, <2>4 DEF r
<1>5. CASE area = "quotas"
  <2>1. raw \in QuotaBodies /\ raw.op = "alter_quotas" BY <1>5 DEF Requests, QuotaBodies
  <2>2. r = IntoQuota(raw) BY <1>5, <2>1 DEF Parsed
  <2>3. r = [raw EXCEPT !.entity = SortByKey(Range(raw.entity))]
    BY <2>2 DEF IntoQuota
  <2>4. raw.entity # <<>> /\ \A i, j \in DOMAIN raw.entity : i # j => raw.entity[i][1] # raw.entity[j][1]
    BY <2>2 DEF IntoQuota
  <2>5. r.entity = SortByKey(Range(raw.entity)) BY <2>1, <2>3 DEF QuotaBodies
  <2>6. Range(raw.entity) \in Entities
    <3>1. PICK x, y : x = <<"user", "u">> /\ y = <<"client-id", "c">> OBVIOUS
    <3>2. raw.entity \in {<<>>, <<x>>, <<y, x>>, <<x, x>>} BY <2>1, <3>1 DEF QuotaBodies
    <3>3. raw.entity # <<x, x>>
      <4>1. SUFFICES ASSUME raw.entity = <<x, x>> PROVE FALSE OBVIOUS
      <4>2. DOMAIN raw.entity = {1, 2} /\ raw.entity[1] = x /\ raw.entity[2] = x BY <4>1
      <4> QED BY <2>4, <4>2
    <3>4. CASE raw.entity = <<x>>
      <4>1. Range(raw.entity) = {x} BY <3>4 DEF Range
      <4> QED BY <3>1, <4>1 DEF Entities
    <3>5. CASE raw.entity = <<y, x>>
      <4>1. DOMAIN raw.entity = {1, 2} /\ raw.entity[1] = y /\ raw.entity[2] = x BY <3>5
      <4>2. Range(raw.entity) = {x, y} BY <4>1 DEF Range
      <4> QED BY <3>1, <4>2 DEF Entities
    <3> QED BY <2>4, <3>2, <3>3, <3>4, <3>5
  <2> HIDE DEF r
  <2>7. Formed(r) BY <1>1, <1>5, <2>1, <2>5, <2>6 DEF Formed, Ops
  <2> QED BY <2>7 DEF r
<1>6. CASE area = "scram"
  <2>1. raw \in SetScramBodies \union DeleteScramBodies BY <1>6 DEF Requests
  <2>2. raw.mechanism \in Mechanisms BY <2>1 DEF SetScramBodies, DeleteScramBodies
  <2>3. r.mechanism = raw.mechanism
    <3>1. CASE raw.op = "set_scram_credentials"
      <4>1. raw \in SetScramBodies BY <2>1, <3>1 DEF SetScramBodies, DeleteScramBodies
      <4>2. r = IntoCredential(raw) BY <1>6, <3>1 DEF Parsed
      <4>3. \A n : [raw EXCEPT !.iterations = n].mechanism = raw.mechanism
        BY <4>1 DEF SetScramBodies
      <4> QED BY <4>2, <4>3 DEF IntoCredential
    <3>2. CASE raw.op # "set_scram_credentials"
      BY <1>1, <1>6, <3>2 DEF Ops, Parsed
    <3> QED BY <3>1, <3>2
  <2> HIDE DEF r
  <2>4. Formed(r) BY <1>1, <1>6, <2>2, <2>3 DEF Formed, Ops
  <2> QED BY <2>4 DEF r
<1>7. CASE area \notin {"topics", "configs", "records", "quotas", "scram"}
  BY <1>1, <1>7, OtherwiseFormed DEF Places
<1> QED BY <1>2, <1>3, <1>4, <1>5, <1>6, <1>7

\* What a request makes of a cluster is stored as before.
LEMMA TakeStores ==
  ASSUME area \in Areas, Stores(kafka), NEW r, Formed(r), r.op \in Ops(area), r.op # "produce",
         NEW items
  PROVE  Stores(Take(r, kafka, items))
<1>1. CASE area = "topics"
  <2>1. kafka \in [Topics -> Nat] /\ r.topic \in Topics BY <1>1 DEF Stores, Formed
  <2>2. \A n \in Nat : [kafka EXCEPT ![r.topic] = n] \in [Topics -> Nat] BY <2>1
  <2>3. CASE r.op = "create_topics"
    <3>1. (IF ToKrafkaTopic(r) = BROKER_DEFAULT THEN 1 ELSE r.count) \in Nat
      BY <2>3 DEF Formed
    <3>2. Take(r, kafka, items) \in [Topics -> Nat]
      BY <1>1, <2>2, <2>3, <3>1 DEF Take, CreateTopic
    <3> QED BY <1>1, <3>2 DEF Stores
  <2>4. CASE r.op = "delete_topics"
    <3>1. Take(r, kafka, items) \in [Topics -> Nat] BY <1>1, <2>2, <2>4 DEF Take, DeleteTopic
    <3> QED BY <1>1, <3>1 DEF Stores
  <2>5. CASE r.op = "add_partitions"
    <3>1. r.count \in Nat BY <2>5 DEF Formed
    <3>2. Take(r, kafka, items) \in [Topics -> Nat]
      BY <1>1, <2>2, <2>5, <3>1 DEF Take, AddPartitions
    <3> QED BY <1>1, <3>2 DEF Stores
  <2> QED BY <1>1, <2>3, <2>4, <2>5 DEF Ops
<1>2. CASE area = "records"
  <2>1. r.op = "delete_records" /\ r.before \in Int BY <1>2 DEF Ops, Formed
  <2>2. Take(r, kafka, items) = DeleteRecords(r, kafka, items) BY <1>2, <2>1 DEF Take
  <2>3. Take(r, kafka, items) \in [1..2 -> [low : Int, high : Int]]
    BY <1>2, <2>1, <2>2, DeletedRecords
  <2> QED BY <1>2, <2>3 DEF Stores
<1>3. CASE area = "quotas"
  <2>1. r.op = "alter_quotas" BY <1>3 DEF Ops
  <2>2. Take(r, kafka, items) = AlterQuota(r, kafka) BY <1>3, <2>1 DEF Take
  <2>3. DOMAIN kafka = Entities BY <1>3 DEF Stores
  <2>4. DOMAIN AlterQuota(r, kafka) = Entities BY <2>3 DEF AlterQuota
  <2> QED BY <1>3, <2>2, <2>4 DEF Stores
<1>4. CASE area = "scram"
  <2>1. DOMAIN kafka = Mechanisms BY <1>4 DEF Stores
  <2>2. r.op \in {"set_scram_credentials", "delete_scram_credentials"} BY <1>4 DEF Ops
  <2>3. DOMAIN Take(r, kafka, items) = Mechanisms
    BY <1>4, <2>1, <2>2 DEF Take, SetScram, DeleteScram
  <2> QED BY <1>4, <2>3 DEF Stores
<1>5. CASE area \notin {"topics", "records", "quotas", "scram"} BY <1>5 DEF Stores
<1> QED BY <1>1, <1>2, <1>3, <1>4, <1>5

------------------------------------------------------------------------------
\* A handler that reads before it writes sends what it read, and a deletion for good has
\* taken the named versions out of the live ones.
Prepared ==
  /\ stage = "send" /\ request.op = "reset_offsets" => ~request.dry_run
  /\ stage = "send" /\ request.op = "delete_offsets" /\ ~disturbed =>
       plan = {p \in DOMAIN kafka.committed : kafka.committed[p] # NoOffset}
  /\ stage = "hard" /\ ~disturbed => NamedGone(kafka, request)

SettleInv ==
  /\ Stores(kafka) /\ (stage # "idle" => Formed(request))
  /\ Prepared /\ SettleCanEnd

\* What Kafka took of a request shows in a table that is read back from it.
LEMMA SentShows ==
  ASSUME WritesInv, SettleInv, Send({}), stage' = "settle", readable, ~disturbed,
         request.op = "set_compatibility" => LiveVersions(kafka') # {}
  PROVE  Shows(request, Table(kafka))'
<1> DEFINE items == Items(request)
           op == request.op
<1>1. /\ UNCHANGED <<area, cluster, topic, readable, request, disturbed>> /\ stage = "send"
      /\ op \notin {"produce", "delete_schemas"}
      /\ items # {} => kafka' = Take(request, kafka, items)
      /\ items = {} => kafka' = kafka
      /\ op # "delete_records" => plan' = plan
      /\ op = "delete_records" => plan' = [p \in items |-> kafka'[p].low]
  BY DEF Send
<1>2. op # "register_schemas" BY <1>1 DEF Send, Finish
<1>3. /\ area \in Areas /\ op \in Ops(area) /\ Fits(request) /\ Formed(request)
      /\ Stores(kafka) /\ KafkaFits(kafka)
  BY <1>1 DEF WritesInv, Underway, Fits, Places, Shapes, SettleInv
<1>4. readable' = TRUE BY <1>1
<1>5. CASE area = "topics"
  <2>1. Table(kafka)' = TopicTable(kafka') BY <1>1, <1>5 DEF Table
  <2>2. items = {op} BY <1>3, <1>5 DEF Items, Ops
  <2>3. CASE op = "create_topics"
    <3>1. kafka' = CreateTopic(request, kafka) BY <1>1, <1>5, <2>2, <2>3 DEF Take
    <3>2. CreateTopicShown(request, TopicTable(kafka')) BY <1>3, <1>5, <2>3, <3>1, CreatedShows
    <3> QED BY <1>1, <1>5, <2>1, <2>3, <3>2 DEF Shows
  <2>4. CASE op = "delete_topics"
    <3>1. kafka' = DeleteTopic(request, kafka) BY <1>1, <1>5, <2>2, <2>4 DEF Take
    <3>2. DeleteTopicShown(request, TopicTable(kafka')) BY <1>3, <1>5, <3>1, DeletedShows
    <3> QED BY <1>1, <1>5, <2>1, <2>4, <3>2 DEF Shows
  <2>5. CASE op = "add_partitions"
    <3>1. kafka' = AddPartitions(request, kafka) BY <1>1, <1>5, <2>2, <2>5 DEF Take
    <3>2. AddPartitionsShown(request, TopicTable(kafka')) BY <1>3, <1>5, <2>5, <3>1, AddedShows
    <3> QED BY <1>1, <1>5, <2>1, <2>5, <3>2 DEF Shows
  <2> QED BY <1>3, <1>5, <2>3, <2>4, <2>5 DEF Ops
<1>6. CASE area = "configs"
  <2>1. Table(kafka)' = ConfigTable(kafka') BY <1>1, <1>6 DEF Table
  <2>2. op \in {"alter_topic_configs", "alter_broker_configs"} BY <1>3, <1>6 DEF Ops
  <2>3. items = {op} BY <2>2 DEF Items
  <2>4. kafka' = AlterConfigs(request, kafka) BY <1>1, <1>6, <2>2, <2>3 DEF Take
  <2>5. CASE op = "alter_topic_configs"
    <3>1. TopicConfigsShown(request, ConfigTable(kafka'))
      BY <1>3, <1>6, <2>4, <2>5, TopicEditShows
    <3> QED BY <1>1, <1>6, <2>1, <2>5, <3>1 DEF Shows
  <2>6. CASE op = "alter_broker_configs"
    <3>1. BrokerConfigsShown(request, ConfigTable(kafka'))
      BY <1>3, <1>6, <2>4, <2>6, BrokerEditShows
    <3> QED BY <1>1, <1>6, <2>1, <2>6, <3>1 DEF Shows
  <2> QED BY <2>2, <2>5, <2>6
<1>7. CASE area = "records"
  <2>1. Table(kafka)' = kafka' BY <1>1, <1>7 DEF Table
  <2>2. op = "delete_records" /\ request.before \in Int
    BY <1>1, <1>3, <1>7 DEF Ops, Formed
  <2>3. kafka' \in [1..2 -> [low : Int, high : Int]]
    <3>1. CASE items = {} BY <1>1, <1>3, <1>7, <3>1 DEF Stores
    <3>2. CASE items # {}
      <4>1. kafka' = DeleteRecords(request, kafka, items) BY <1>1, <1>7, <2>2, <3>2 DEF Take
      <4> QED BY <1>3, <1>7, <2>2, <4>1, DeletedRecords
    <3> QED BY <3>1, <3>2
  <2>4. items \in SUBSET (1..2)
    <3>1. \A item \in items : ~Refuses(request, item) BY DEF Send
    <3>2. \A item \in items : item \in DOMAIN kafka BY <1>7, <2>2, <3>1 DEF Refuses
    <3>3. DOMAIN kafka = 1..2 BY <1>3, <1>7 DEF KafkaFits
    <3> HIDE DEF items
    <3> QED BY <3>2, <3>3
  <2>5. DeleteRecordsShown(plan', kafka') BY <1>1, <1>7, <2>2, <2>3, <2>4, DeletionShows
  <2> QED BY <1>1, <1>7, <2>1, <2>2, <2>5 DEF Shows
<1>8. CASE area = "acls"
  <2>1. Table(kafka)' = AclTable(kafka', TRUE) BY <1>1, <1>4, <1>8 DEF Table
  <2>2. /\ request.rows \subseteq {acl \in Acls : acl.pattern = "Literal"}
        /\ kafka \in SUBSET AclRows
    BY <1>3, <1>8 DEF Fits, KafkaFits
  <2>3. CASE op = "create_acls"
    <3>1. items = request.rows BY <2>3 DEF Items
    <3>2. CreateAclsShown(request, AclTable(kafka', TRUE))
      <4>1. CASE items = {} BY <3>1, <4>1 DEF CreateAclsShown
      <4>2. CASE items # {}
        <5>1. kafka' = CreateAcls(kafka, request.rows)
          BY <1>1, <1>8, <2>3, <3>1, <4>2 DEF Take
        <5> QED BY <2>2, <5>1, CreatedAclsShow
      <4> QED BY <4>1, <4>2
    <3> QED BY <1>1, <1>8, <2>1, <2>3, <3>2 DEF Shows
  <2>4. CASE op = "delete_acls"
    <3>1. items = {op} BY <2>4 DEF Items
    <3>2. kafka' = DeleteAcl(kafka, request) BY <1>1, <1>8, <2>4, <3>1 DEF Take
    <3>3. DeleteAclShown(request, AclTable(kafka', TRUE)) BY <2>2, <3>2, DeletedAclsGone
    <3> QED BY <1>1, <1>8, <2>1, <2>4, <3>3 DEF Shows
  <2> QED BY <1>3, <1>8, <2>3, <2>4 DEF Ops
<1>9. CASE area = "quotas"
  <2>1. Table(kafka)' = QuotaTable(kafka', TRUE) BY <1>1, <1>4, <1>9 DEF Table
  <2>2. op = "alter_quotas" BY <1>3, <1>9 DEF Ops
  <2>3. items = {op} BY <2>2 DEF Items
  <2>4. kafka' = AlterQuota(request, kafka) BY <1>1, <1>9, <2>2, <2>3 DEF Take
  <2>5. PICK e \in Entities : request.entity = SortByKey(e) BY <1>3, <1>9 DEF Formed
  <2>6. DOMAIN kafka = Entities BY <1>3, <1>9 DEF Stores
  <2>7. QuotaShown(request, QuotaTable(kafka', TRUE)) BY <2>4, <2>5, <2>6, QuotaShows
  <2> QED BY <1>1, <1>9, <2>1, <2>2, <2>7 DEF Shows
<1>10. CASE area = "scram"
  <2>1. Table(kafka)' = ScramTable(kafka', TRUE) BY <1>1, <1>4, <1>10 DEF Table
  <2>2. DOMAIN kafka = Mechanisms /\ request.mechanism \in Mechanisms
    BY <1>3, <1>10 DEF Stores, Formed
  <2>3. CASE op = "set_scram_credentials"
    <3>1. items = {op} BY <2>3 DEF Items
    <3>2. kafka' = SetScram(request, kafka) BY <1>1, <1>10, <2>3, <3>1 DEF Take
    <3>3. SetScramShown(request, ScramTable(kafka', TRUE))
      BY <2>2, <3>2, SetScramShows
    <3> QED BY <1>1, <1>10, <2>1, <2>3, <3>3 DEF Shows
  <2>4. CASE op = "delete_scram_credentials"
    <3>1. items = {op} BY <2>4 DEF Items
    <3>2. kafka' = DeleteScram(request, kafka) BY <1>1, <1>10, <2>4, <3>1 DEF Take
    <3>3. DeleteScramShown(request, ScramTable(kafka', TRUE))
      BY <2>2, <3>2, DeletedScramShows
    <3> QED BY <1>1, <1>10, <2>1, <2>4, <3>3 DEF Shows
  <2> QED BY <1>3, <1>10, <2>3, <2>4 DEF Ops
<1>11. CASE area = "groups"
  <2>1. Table(kafka)' = GroupTable(kafka') BY <1>1, <1>11 DEF Table
  <2>2. kafka \in GroupData BY <1>3, <1>11 DEF KafkaFits
  <2>3. CASE op = "reset_offsets"
    <3>1. ~request.dry_run BY <1>1, <2>3 DEF SettleInv, Prepared
    <3>2. items = DOMAIN plan.moves BY <2>3, <3>1 DEF Items
    <3>3. PlanMade BY <1>1, <2>3 DEF WritesInv, Planning
    <3>4. DOMAIN plan.moves \subseteq 1..2
      <4>1. plan.moves \in UNION {[parts -> Int] : parts \in SUBSET (1..2)}
        BY <3>3 DEF PlanMade
      <4>2. PICK parts \in SUBSET (1..2) : plan.moves \in [parts -> Int] BY <4>1
      <4> QED BY <4>2
    <3>5. ResetShown(plan.moves, GroupTable(kafka'))
      <4>1. CASE items = {} BY <3>2, <4>1 DEF ResetShown
      <4>2. CASE items # {}
        <5>1. kafka' = AlterGroupOffsets(kafka, plan.moves, DOMAIN plan.moves)
          BY <1>1, <1>11, <2>3, <3>2, <4>2 DEF Take
        <5> QED BY <2>2, <3>4, <5>1, ResetShows
      <4> QED BY <4>1, <4>2
    <3> QED BY <1>1, <1>11, <2>1, <2>3, <3>5 DEF Shows
  <2>4. CASE op = "delete_offsets"
    <3>1. items = plan BY <2>4 DEF Items
    <3>2. plan = {p \in DOMAIN kafka.committed : kafka.committed[p] # NoOffset}
      BY <1>1, <2>4 DEF SettleInv, Prepared
    <3>3. DeleteOffsetsShown(GroupTable(kafka'))
      <4>1. CASE items = {}
        <5>1. kafka' = kafka BY <1>1, <4>1
        <5>2. \A p \in DOMAIN kafka.committed : kafka.committed[p] = NoOffset
          BY <3>1, <3>2, <4>1
        <5> QED BY <5>1, <5>2 DEF DeleteOffsetsShown, GroupTable
      <4>2. CASE items # {}
        <5>1. kafka' = DeleteGroupOffsets(kafka, plan)
          BY <1>1, <1>11, <2>4, <3>1, <4>2 DEF Take
        <5> QED BY <2>2, <3>2, <5>1, DeletedOffsetsShow
      <4> QED BY <4>1, <4>2
    <3> QED BY <1>1, <1>11, <2>1, <2>4, <3>3 DEF Shows
  <2>5. CASE op = "delete_groups"
    <3>1. items = {op} BY <2>5 DEF Items
    <3>2. kafka' = DeleteGroup(kafka) BY <1>1, <1>11, <2>5, <3>1 DEF Take
    <3>3. DeleteGroupShown(GroupTable(kafka')) BY <2>2, <3>2, DeletedGroupShows
    <3> QED BY <1>1, <1>11, <2>1, <2>5, <3>3 DEF Shows
  <2> QED BY <1>3, <1>11, <2>3, <2>4, <2>5 DEF Ops
<1>12. CASE area = "subjects"
  <2>1. Table(kafka)' = SubjectTable(kafka', NoSubject) BY <1>1, <1>12 DEF Table
  <2>2. kafka \in SubjectData BY <1>3, <1>12 DEF KafkaFits
  <2>3. op = "set_compatibility" BY <1>1, <1>2, <1>3, <1>12 DEF Ops
  <2>4. items = {op} BY <2>3 DEF Items
  <2>5. kafka' = SetCompatibility(request, kafka) BY <1>1, <1>12, <2>3, <2>4 DEF Take
  <2>6. request.level \in CompatibilityLevels BY <1>3, <2>3 DEF Fits, CompatibilityBodies
  <2>7. SetCompatibilityShown(request, SubjectTable(kafka', NoSubject))
    BY <2>2, <2>3, <2>5, <2>6, LevelShows
  <2> QED BY <1>1, <1>12, <2>1, <2>3, <2>7 DEF Shows
<1>13. CASE area = "encode" BY <1>1, <1>3, <1>13 DEF Ops
<1> QED BY <1>3, <1>5, <1>6, <1>7, <1>8, <1>9, <1>10, <1>11, <1>12, <1>13 DEF Areas

------------------------------------------------------------------------------
\* A handler that is done leaves nothing to wait for.
LEMMA DoneSettles ==
  ASSUME Stores(kafka'), area' = area, stage' = "idle"
  PROVE  SettleInv'
<1>1. Stores(kafka)' BY DEF Stores
<1> QED BY <1>1 DEF SettleInv, Prepared, SettleCanEnd

\* Neither does one that is still reading.
LEMMA ReadingSettles ==
  ASSUME SettleInv, UNCHANGED <<area, kafka, request>>, stage # "idle",
         stage' \notin {"send", "hard", "settle"}
  PROVE  SettleInv'
<1>1. Stores(kafka)' /\ Formed(request)' BY DEF SettleInv, Stores, Formed
<1> QED BY <1>1 DEF SettleInv, Prepared, SettleCanEnd

LEMMA AdmittedSettles ==
  ASSUME WritesInv, SettleInv, NEW raw \in Requests, Admitted(raw)
  PROVE  SettleInv'
<1> DEFINE r == Parsed(raw)
<1>1. /\ UNCHANGED <<area, cluster, topic, readable, kafka, seen>> /\ r # Invalid /\ Known(r) = "no"
      /\ stage' = IF r.op \in {"reset_offsets", "delete_offsets"} THEN "plan"
                  ELSE IF area = "encode" THEN "fetch" ELSE "send"
      /\ r.op \notin {"reset_offsets", "delete_records"} => request' = r
      /\ r.op = "delete_records" => request' \in {r, [r EXCEPT !.partitions = listed]}
  BY DEF Admitted, Resolved
<1>2. request'.op = r.op /\ request'.op \in Ops(area) BY AdmittedFits DEF Fits
<1>3. Formed(request')
  <2>1. CASE r.op \notin {"reset_offsets", "delete_records"}
    <3>1. Formed(r) BY <1>1, ParsedFormed DEF WritesInv
    <3> QED BY <1>1, <2>1, <3>1
  <2>3. CASE r.op = "delete_records"
    <3>1. Formed(r) BY <1>1, ParsedFormed DEF WritesInv
    <3>2. r.before \in Int /\ r \in DeleteRecordsBodies
      BY <1>1, <2>3, <3>1, Deletions DEF Formed, WritesInv
    <3> HIDE DEF r
    <3>3. request'.before \in Int BY <1>1, <2>3, <3>2 DEF DeleteRecordsBodies
    <3>4. area = "records" BY <1>2, <2>3 DEF WritesInv, Places, Ops, Areas
    <3> QED BY <1>2, <2>3, <3>3, <3>4 DEF Formed
  <2>2. CASE r.op = "reset_offsets"
    <3>1. area \in Areas \ {"topics", "configs", "records", "quotas", "scram"}
      BY <1>2, <2>2 DEF WritesInv, Places, Ops
    <3> QED BY <1>2, <3>1, OtherwiseFormed
  <2> QED BY <2>1, <2>2, <2>3
<1>4. Formed(request)' BY <1>1, <1>3 DEF Formed
<1>5. Stores(kafka)' BY <1>1 DEF SettleInv, Stores
<1>6. stage' \notin {"hard", "settle"} BY <1>1
<1>7. stage' = "send" => request'.op \notin {"reset_offsets", "delete_offsets"} BY <1>1, <1>2
<1> HIDE DEF r
<1> QED BY <1>4, <1>5, <1>6, <1>7 DEF SettleInv, Prepared, SettleCanEnd

\* A reset that is sent is no rehearsal, and a deletion of offsets has read them.
LEMMA PlanSettles ==
  ASSUME WritesInv, SettleInv, ReadCommitted \/ ReadMarks \/ ReadTimes
  PROVE  SettleInv'
<1>1. UNCHANGED <<area, kafka, request, disturbed>> /\ stage \in {"plan", "marks", "times"}
  BY DEF ReadCommitted, ReadMarks, ReadTimes, KeepKafka, Keep
<1>2. Stores(kafka)' /\ Formed(request)' BY <1>1 DEF SettleInv, Stores, Formed
<1>3. stage' \in {"idle", "marks", "times", "send"}
  BY DEF ReadCommitted, ReadMarks, ReadTimes, Planned, KeepKafka, Keep, Finish
<1>4. ASSUME stage' = "send"
      PROVE  \/ request.op = "reset_offsets" /\ ~request.dry_run
             \/ /\ request.op = "delete_offsets"
                /\ plan' = {p \in DOMAIN kafka.committed : kafka.committed[p] # NoOffset}
  <2>1. CASE ReadCommitted
    <3>1. stage = "plan" BY <2>1 DEF ReadCommitted
    <3>2. request.op = "delete_offsets" BY <1>4, <2>1 DEF ReadCommitted, KeepKafka, Keep
    <3> QED BY <2>1, <3>2 DEF ReadCommitted, KeepKafka, Keep
  <2>2. CASE ReadMarks \/ ReadTimes
    <3>1. stage \in {"marks", "times"} BY <2>2 DEF ReadMarks, ReadTimes
    <3>2. request.op = "reset_offsets" BY <3>1 DEF WritesInv, Underway
    <3>3. ~request.dry_run
      BY <1>4, <2>2 DEF ReadMarks, ReadTimes, Planned, KeepKafka, Keep, Finish
    <3> QED BY <3>2, <3>3
  <2> QED BY <2>1, <2>2
<1>5. Prepared' BY <1>1, <1>3, <1>4 DEF Prepared
<1> QED BY <1>2, <1>3, <1>5 DEF SettleInv, SettleCanEnd

\* What was sent and taken whole can be waited for; the rest is answered.
LEMMA SendSettles ==
  ASSUME WritesInv, SettleInv, NEW failed, Send(failed)
  PROVE  SettleInv'
<1> DEFINE items == Items(request)
<1>1. /\ UNCHANGED <<area, cluster, topic, readable, request, disturbed>> /\ stage = "send"
      /\ request.op \notin {"produce", "delete_schemas"}
      /\ kafka' = kafka \/ kafka' = Take(request, kafka, items \ failed)
      /\ \/ stage' = "idle"
         \/ /\ failed = {}
            /\ stage' = IF request.op = "register_schemas" THEN "lookup" ELSE "settle"
  BY DEF Send, Finish, AnyFailed
<1>2. area \in Areas /\ request.op \in Ops(area) /\ Formed(request) /\ Stores(kafka)
  BY <1>1 DEF WritesInv, Places, Underway, Fits, SettleInv
<1>3. Stores(kafka')
  <2>1. Stores(Take(request, kafka, items \ failed)) BY <1>1, <1>2, TakeStores
  <2> QED BY <1>1, <1>2, <2>1
<1>4. Stores(kafka)' /\ Formed(request)' BY <1>1, <1>2, <1>3 DEF Stores, Formed
<1>5. CASE stage' = "idle" BY <1>1, <1>3, <1>5, DoneSettles
<1>6. CASE stage' = "lookup" BY <1>4, <1>6 DEF SettleInv, Prepared, SettleCanEnd
<1>7. CASE stage' = "settle"
  <2>1. Send({}) BY <1>1, <1>7
  <2>2. SettleCanEnd'
    <3>1. SUFFICES ASSUME ~disturbed, readable,
                          request.op = "set_compatibility" => LiveVersions(kafka') # {}
                   PROVE  Shows(request, Table(kafka))'
      BY <1>1 DEF SettleCanEnd
    <3> QED BY <1>7, <2>1, <3>1, SentShows
  <2>3. Prepared' BY <1>7 DEF Prepared
  <2> QED BY <1>4, <2>2, <2>3 DEF SettleInv
<1> QED BY <1>1, <1>5, <1>6, <1>7

\* A version that was deleted is not live, and deleting it for good does not revive it.
LEMMA DeletionSettles ==
  ASSUME WritesInv, SettleInv, SoftDelete \/ HardDelete
  PROVE  SettleInv'
<1> DEFINE named == NamedVersions(kafka, request) \cap LiveVersions(kafka)
           soft == NamedVersions(kafka, request) \cap Having(kafka, "soft")
<1>1. UNCHANGED <<area, cluster, topic, readable, request, disturbed>> /\ stage \in {"send", "hard"}
      /\ stage' \in {"idle", "hard", "settle"}
  BY DEF SoftDelete, HardDelete, Keep, Finish
<1>2. request.op = "delete_schemas"
  BY DEF SoftDelete, HardDelete, WritesInv, Underway
<1>3. area = "subjects" BY <1>2 DEF WritesInv, Places, Ops, Areas
<1>4. kafka \in SubjectData BY <1>3 DEF WritesInv, Shapes, KafkaFits
<1>5. Stores(kafka)' /\ Stores(kafka') BY <1>1, <1>3 DEF Stores
<1>6. CASE stage' = "idle" BY <1>1, <1>5, <1>6, DoneSettles
<1>7. CASE stage' # "idle"
  <2>1. Formed(request)' BY <1>1 DEF SettleInv, Formed
  <2>2. ASSUME ~disturbed PROVE NamedGone(kafka', request)
    <3>1. CASE SoftDelete
      <4>1. kafka' = Mark(kafka, named, "live", "soft")
        BY <1>7, <3>1 DEF SoftDelete, Keep, Finish
      <4> HIDE DEF named
      <4>2. \A v \in LiveVersions(kafka') : v \in LiveVersions(kafka) /\ v \notin named
        BY <1>4, <4>1, MarkedLive
      <4>3. CASE request.version = 0
        <5>1. named = LiveVersions(kafka)
          BY <4>3 DEF named, NamedVersions, LiveVersions, Having
        <5>2. LiveVersions(kafka') = {} BY <4>2, <5>1
        <5> QED BY <4>3, <5>2 DEF NamedGone
      <4>4. CASE request.version # 0
        <5>1. request.version \in LiveVersions(kafka) => request.version \in named
          BY <4>4 DEF named, NamedVersions
        <5>2. request.version \notin LiveVersions(kafka') BY <4>2, <5>1
        <5> QED BY <4>4, <5>2 DEF NamedGone
      <4> QED BY <4>3, <4>4
    <3>2. CASE HardDelete
      <4>1. kafka' = Mark(kafka, soft, "soft", "hard")
        BY <1>7, <3>2 DEF HardDelete, Keep, Finish
      <4> HIDE DEF soft
      <4>2. \A v \in LiveVersions(kafka') : v \in LiveVersions(kafka)
        BY <1>4, <4>1, MarkedLive
      <4>3. NamedGone(kafka, request) BY <2>2, <3>2 DEF HardDelete, SettleInv, Prepared
      <4> QED BY <4>2, <4>3 DEF NamedGone
    <3> QED BY <3>1, <3>2
  <2>3. Prepared'
    <3>1. stage' = "hard" /\ ~disturbed' => NamedGone(kafka', request') BY <1>1, <2>2
    <3> QED BY <1>1, <3>1 DEF Prepared, NamedGone
  <2>4. SettleCanEnd'
    <3>1. SUFFICES ASSUME ~disturbed PROVE Shows(request, Table(kafka))'
      BY <1>1 DEF SettleCanEnd
    <3>2. DeleteSchemaShown(request, SubjectTable(kafka', NoSubject))
      BY <2>2, <3>1, GoneShows
    <3>3. Table(kafka)' = SubjectTable(kafka', NoSubject) BY <1>1, <1>3 DEF Table
    <3> QED BY <1>1, <1>2, <1>3, <3>2, <3>3 DEF Shows
  <2> QED BY <1>5, <2>1, <2>3, <2>4 DEF SettleInv
<1> QED BY <1>6, <1>7

LEMMA LookUpSettles ==
  ASSUME WritesInv, SettleInv, LookUp
  PROVE  SettleInv'
<1> DEFINE found == Lookup(kafka, request.schema)
<1>1. UNCHANGED <<area, cluster, topic, readable, kafka, request, disturbed>> /\ stage = "lookup"
      /\ (stage' = "idle" \/ (found # {} /\ plan' = Max(found) /\ stage' = "settle"))
  BY DEF LookUp, KeepKafka, Keep, Finish
<1>2. request.op = "register_schemas" BY <1>1 DEF WritesInv, Underway
<1>3. area = "subjects" BY <1>2 DEF WritesInv, Places, Ops, Areas
<1>4. kafka \in SubjectData BY <1>3 DEF WritesInv, Shapes, KafkaFits
<1>5. Stores(kafka)' /\ Stores(kafka') BY <1>1, <1>3 DEF Stores
<1>6. CASE stage' = "idle" BY <1>1, <1>5, <1>6, DoneSettles
<1>7. CASE stage' = "settle"
  <2>1. RegisterShown(plan', SubjectTable(kafka, NoSubject)) BY <1>1, <1>4, <1>7, RegisteredShows
  <2>2. Table(kafka)' = SubjectTable(kafka, NoSubject) BY <1>1, <1>3 DEF Table
  <2>3. Shows(request, Table(kafka))' BY <1>1, <1>2, <1>3, <2>1, <2>2 DEF Shows
  <2>4. Formed(request)' BY <1>1 DEF SettleInv, Formed
  <2>5. Prepared' BY <1>7 DEF Prepared
  <2> QED BY <1>5, <2>3, <2>4, <2>5 DEF SettleInv, SettleCanEnd
<1> QED BY <1>1, <1>6, <1>7

\* Another client's change is stored like one of klens'; nobody waits for more then.
LEMMA OtherSettles ==
  ASSUME WritesInv, SettleInv, OtherClient
  PROVE  SettleInv'
<1>1. /\ UNCHANGED <<area, request, stage>> /\ disturbed' = TRUE /\ kafka' \in OthersMake
  BY DEF OtherClient, progress
<1>2. Stores(kafka')
  <2>1. CASE area \notin {"topics", "records", "quotas", "scram"}
    BY <2>1 DEF Stores
  <2>2. CASE area \in {"topics", "records", "quotas", "scram"}
    <3>1. PICK raw \in Requests :
            /\ Parsed(raw) # Invalid /\ Parsed(raw).op # "produce"
            /\ Known(Parsed(raw)) = "no" \/ area \in {"topics", "records"}
            /\ kafka' = Take(Parsed(raw), kafka, Items(Parsed(raw)))
      BY <1>1, <2>2 DEF OthersMake
    <3>2. PICK r : r = Parsed(raw) OBVIOUS
    <3>3. Places /\ Shapes /\ Stores(kafka) /\ area \in Areas
      BY DEF WritesInv, SettleInv, Places
    <3>4. r.op \in Ops(area) BY <3>1, <3>2, <3>3, RequestOps
    <3>5. Formed(r) BY <3>1, <3>2, <3>3, ParsedFormed
    <3>6. Stores(Take(r, kafka, Items(r))) BY <3>1, <3>2, <3>3, <3>4, <3>5, TakeStores
    <3> QED BY <3>1, <3>2, <3>6
  <2> QED BY <2>1, <2>2
<1>3. Stores(kafka)' BY <1>1, <1>2 DEF Stores
<1>4. stage' # "idle" => Formed(request)' BY <1>1 DEF SettleInv, Formed
<1>5. Prepared'
  <2>1. stage' = "send" /\ request'.op = "reset_offsets" => ~request'.dry_run
    BY <1>1 DEF SettleInv, Prepared
  <2> QED BY <1>1, <2>1 DEF Prepared
<1> QED BY <1>1, <1>3, <1>4, <1>5 DEF SettleInv, SettleCanEnd

LEMMA ProduceSettles ==
  ASSUME WritesInv, SettleInv, NEW p \in 1..2, Produce(p)
  PROVE  SettleInv'
<1>1. /\ area' = area /\ stage = "send" /\ request.op = "produce" /\ stage' = "idle"
      /\ kafka' = [kafka EXCEPT ![p].high = @ + 1]
  BY DEF Produce, Finish
<1>2. area = "records" BY <1>1 DEF WritesInv, Places, Underway, Ops, Areas
<1>3. kafka \in [1..2 -> [low : Int, high : Int]] BY <1>2 DEF SettleInv, Stores
<1>4. [kafka[p] EXCEPT !.high = @ + 1] \in [low : Int, high : Int]
  <2>1. kafka[p] \in [low : Int, high : Int] /\ kafka[p].high + 1 \in Int BY <1>3
  <2> QED BY <2>1
<1>5. kafka' = [kafka EXCEPT ![p] = [kafka[p] EXCEPT !.high = @ + 1]] BY <1>1
<1>6. kafka' \in [1..2 -> [low : Int, high : Int]] BY <1>3, <1>4, <1>5
<1>7. Stores(kafka') BY <1>2, <1>6 DEF Stores
<1> QED BY <1>1, <1>7, DoneSettles

\* A poll reads the cluster and leaves it.
LEMMA FrameSettles ==
  ASSUME SettleInv, UNCHANGED <<area, cluster, topic, readable, kafka, request, stage, plan, disturbed>>
  PROVE  SettleInv'
<1>1. Stores(kafka)' BY DEF SettleInv, Stores
<1>2. stage' # "idle" => Formed(request)' BY DEF SettleInv, Formed
<1>3. Prepared' BY DEF SettleInv, Prepared, NamedGone
<1>4. Table(kafka)' = Table(kafka) BY DEF Table
<1>5. Shows(request, Table(kafka))' = Shows(request, Table(kafka))
  <2>1. PICK t : t = Table(kafka) OBVIOUS
  <2>2. Shows(request, Table(kafka)) = Shows(request, t) BY <2>1
  <2>3. Shows(request, Table(kafka))' = Shows(request, t) BY <1>4, <2>1 DEF Shows
  <2> QED BY <2>2, <2>3
<1>6. SettleCanEnd' BY <1>5 DEF SettleInv, SettleCanEnd
<1> QED BY <1>1, <1>2, <1>3, <1>6 DEF SettleInv

\* Every step keeps what a settle relies on.
LEMMA SettleStep == WritesInv /\ SettleInv /\ [Next]_vars => SettleInv'
<1>1. SUFFICES ASSUME WritesInv, SettleInv, [Next]_vars PROVE SettleInv' OBVIOUS
<1>2. Stores(kafka) BY <1>1 DEF SettleInv
<1>3. CASE \E r \in Requests : Submit(r)
  BY <1>2, <1>3, DoneSettles DEF Submit, Finish
<1>4. CASE \E r \in Requests : Admitted(r) BY <1>1, <1>4, AdmittedSettles
<1>5. CASE ReadCommitted \/ ReadMarks \/ ReadTimes BY <1>1, <1>5, PlanSettles
<1>6. CASE ReadFails BY <1>2, <1>6, DoneSettles DEF ReadFails, KeepKafka, Keep, Finish
<1>7. CASE SoftDelete \/ HardDelete BY <1>1, <1>7, DeletionSettles
<1>8. CASE LookUp BY <1>1, <1>8, LookUpSettles
<1>9. CASE FetchWave \/ OrderStep
  BY <1>1, <1>9, ReadingSettles DEF FetchWave, OrderStep, KeepKafka, Keep
<1>10. CASE OtherClient BY <1>1, <1>10, OtherSettles
<1>11. CASE \E failed \in SUBSET Items(request) : Send(failed) BY <1>1, <1>11, SendSettles
<1>12. CASE \E p \in 1..2 : Produce(p) BY <1>1, <1>12, ProduceSettles
<1>13. CASE ProduceFails \/ Settled \/ SettleTimesOut
  BY <1>2, <1>13, DoneSettles DEF ProduceFails, Settled, SettleTimesOut, Finish
<1>14. CASE Poll \/ PollTopology
  BY <1>1, <1>14, FrameSettles DEF Poll, PollTopology, progress, history
<1>15. CASE UNCHANGED vars BY <1>1, <1>15, FrameSettles DEF vars, progress, history
<1> QED BY <1>1, <1>3, <1>4, <1>5, <1>6, <1>7, <1>8, <1>9, <1>10, <1>11, <1>12, <1>13,
           <1>14, <1>15
        DEF Next

LEMMA SettleInit == Init => SettleInv
<1>1. SUFFICES ASSUME Init PROVE SettleInv OBVIOUS
<1>2. kafka \in Stored /\ stage = "idle" /\ area \in Areas BY <1>1 DEF Init, Areas
<1>3. CASE area = "topics"
  <2>1. kafka = [t \in Topics |-> IF t \in InternalTopics THEN 1 ELSE 0]
    BY <1>2, <1>3 DEF Stored
  <2>2. kafka \in [Topics -> Nat] BY <2>1
  <2> QED BY <1>2, <1>3, <2>2 DEF Stores, SettleInv, Prepared, SettleCanEnd
<1>4. CASE area = "records"
  <2>1. kafka = [p \in 1..2 |-> [low |-> 0, high |-> MaxOffset - 1]]
    BY <1>2, <1>4 DEF Stored
  <2>2. MaxOffset - 1 \in Int BY TopicsAssumption
  <2>3. kafka \in [1..2 -> [low : Int, high : Int]] BY <2>1, <2>2
  <2> QED BY <1>2, <1>4, <2>3 DEF Stores, SettleInv, Prepared, SettleCanEnd
<1>5. CASE area = "quotas"
  <2>1. DOMAIN kafka = Entities BY <1>2, <1>5 DEF Stored, Entities
  <2> QED BY <1>2, <1>5, <2>1 DEF Stores, SettleInv, Prepared, SettleCanEnd
<1>6. CASE area = "scram"
  <2>1. DOMAIN kafka = Mechanisms BY <1>2, <1>6 DEF Stored
  <2> QED BY <1>2, <1>6, <2>1 DEF Stores, SettleInv, Prepared, SettleCanEnd
<1>7. CASE area \notin {"topics", "records", "quotas", "scram"}
  BY <1>2, <1>7 DEF Stores, SettleInv, Prepared, SettleCanEnd
<1> QED BY <1>3, <1>4, <1>5, <1>6, <1>7

\* As long as nobody else changes the cluster, a table that is read back from it satisfies
\* the predicate that ends the settle, for every handler and every request it admits:
\* through the levels of configs, the codes of ACL patterns, the parts of quota entities
\* and the versions of subjects (settle and the predicates of the write handlers).
THEOREM SettlesCanEnd == Spec => []SettleCanEnd
<1>1. SettleInv => SettleCanEnd BY DEF SettleInv
<1> QED BY <1>1, SettleInit, SettleStep, WritesAreSound, PTL DEF Spec
=============================================================================

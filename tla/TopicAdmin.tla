----------------------------- MODULE TopicAdmin -----------------------------
(***************************************************************************)
(* Topics, their configs and their records, as the handlers that change     *)
(* them see them.  For every operation: the bodies callers may send, what a  *)
(* body is parsed to, what the cluster makes of the request, and the         *)
(* predicate on a table k that ends the settle.                              *)
(***************************************************************************)
EXTENDS Integers, FiniteSets, Bodies

CONSTANTS InternalTopics, Topics, MaxPartitions, Brokers, MaxOffset

ASSUME TopicsAssumption ==
  /\ InternalTopics \subseteq Topics
  /\ {MaxPartitions, MaxOffset} \subseteq Nat
  /\ Brokers \cap {"topic", "default", "static", "gone"} = {}

-----------------------------------------------------------------------------
(* Topics: the cluster stores a number of partitions by topic, 0 for none. *)

TopicTable(k) ==
  [t \in {t \in Topics : k[t] > 0} |->
     [partitions |-> 1..k[t], internal |-> t \in InternalTopics]]

\* Any topic of the table will do.
KnownTopic(topic, table) == IF topic \notin DOMAIN table THEN "unknown_topic" ELSE "no"

\* writable_topic, in the table klens has.
WritableTopic(topic, table) ==
  IF topic \notin DOMAIN table THEN "unknown_topic"
  ELSE IF table[topic].internal THEN "internal_topic" ELSE "no"

CreateTopicBodies ==
  [op : {"create_topics"}, topic : Topics \union {"bad name"}, count : 0..MaxPartitions]
DeleteTopicBodies == [op : {"delete_topics"}, topic : Topics]
AddPartitionsBodies == [op : {"add_partitions"}, topic : Topics, count : 1..MaxPartitions]

\* validate_topic_name.
ValidTopicName(topic) == topic # "bad name"

IntoTopic(r) == IF ValidTopicName(r.topic) THEN r ELSE Invalid

BROKER_DEFAULT == -1

\* NewTopic::to_krafka: without a count, the broker's num.partitions.
ToKrafkaTopic(r) == IF r.count = 0 THEN BROKER_DEFAULT ELSE r.count

CreateTopic(r, k) ==
  [k EXCEPT ![r.topic] = IF ToKrafkaTopic(r) = BROKER_DEFAULT THEN 1 ELSE r.count]
DeleteTopic(r, k) == [k EXCEPT ![r.topic] = 0]
AddPartitions(r, k) == [k EXCEPT ![r.topic] = r.count]

CreateTopicShown(r, table) == r.topic \in DOMAIN table
DeleteTopicShown(r, table) == r.topic \notin DOMAIN table
AddPartitionsShown(r, table) ==
  r.topic \in DOMAIN table /\ Cardinality(table[r.topic].partitions) >= r.count

\* What Kafka refuses of them.
RefusesTopic(r, k) ==
  CASE r.op = "create_topics" -> k[r.topic] > 0
    [] r.op = "delete_topics" -> k[r.topic] = 0
    [] r.op = "add_partitions" -> r.count <= k[r.topic] \/ k[r.topic] = 0

-----------------------------------------------------------------------------
(* Configs: a level is a topic's, a broker's or every broker's override,   *)
(* or the broker's file; describe answers with the most specific one.      *)

ConfigNames == {"plain", "secret"}
Levels == {"topic", "default", "static"} \union Brokers
Unset == "unset"

\* ConfigSource, in the order of its variants.
Source(level) ==
  IF level = "topic" THEN 1 ELSE IF level \in Brokers THEN 2
  ELSE IF level = "default" THEN 3 ELSE 4

\* describe_configs of a resource: the levels it sees, values of sensitive
\* configs withheld.
Described(k, levels) ==
  [name \in ConfigNames |->
     LET set == {l \in levels : k[name][l] # Unset}
         top == CHOOSE l \in set : \A o \in set : Source(l) <= Source(o) IN
     IF set = {} THEN [source |-> 5, value |-> Unset, sensitive |-> name = "secret"]
     ELSE [source |-> Source(top), sensitive |-> name = "secret",
           value |-> IF name = "secret" THEN Unset ELSE k[name][top]]]

TopicConfigs(k) == Described(k, {"topic", "default", "static"})
BrokerConfigs(k, broker) == Described(k, {broker, "default", "static"})
ConfigTable(k) ==
  [r \in Brokers \union {"topic"} |->
     IF r = "topic" THEN TopicConfigs(k) ELSE BrokerConfigs(k, r)]

Edits == [set : UNION {[names -> {"v1", "v2"}] : names \in SUBSET ConfigNames},
          reset : SUBSET ConfigNames]
EditBody(op, scope, edit) ==
  [op |-> op, scope |-> scope, set |-> edit.set, reset |-> edit.reset]
TopicConfigBodies == {EditBody("alter_topic_configs", "topic", edit) : edit \in Edits}
BrokerConfigBodies ==
  {EditBody("alter_broker_configs", scope, edit) :
     scope \in {"default", "gone"} \union Brokers, edit \in Edits}

\* EditConfigs::into_edit.
IntoEdit(r) ==
  IF DOMAIN r.set \union r.reset = {} \/ DOMAIN r.set \cap r.reset # {} THEN Invalid
  ELSE r

KnownBroker(scope) == IF scope = "gone" THEN "unknown_broker" ELSE "no"

\* incremental_alter_configs of one level.
AlterConfigs(r, k) ==
  [name \in ConfigNames |->
     [l \in Levels |->
        IF l # r.scope THEN k[name][l]
        ELSE IF name \in DOMAIN r.set THEN r.set[name]
        ELSE IF name \in r.reset THEN Unset ELSE k[name][l]]]

\* ConfigEdit::shows_in.
ShowsIn(r, entries, source) ==
  /\ \A name \in DOMAIN r.set :
       \/ entries[name].source < source
       \/ /\ entries[name].source = source
          /\ entries[name].sensitive \/ entries[name].value = r.set[name]
  /\ \A name \in r.reset : entries[name].source # source

TopicConfigsShown(r, table) == ShowsIn(r, table["topic"], Source(r.scope))

\* alter_broker_configs rereads the brokers it changed.
BrokerConfigsShown(r, table) ==
  \A broker \in IF r.scope = "default" THEN Brokers ELSE {r.scope} :
    ShowsIn(r, table[broker], Source(r.scope))

-----------------------------------------------------------------------------
(* Records: [low, high] by partition.  -1 stands for HIGH_WATERMARK.        *)

HIGH_WATERMARK == -1
DeleteRecordsBodies ==
  [op : {"delete_records"}, partitions : {{}, {1}, {1, 3}},
   before : {HIGH_WATERMARK - 1, HIGH_WATERMARK} \union 1..MaxOffset]
ProduceBodies == [op : {"produce"}, partitions : {{}, {2}, {3}}]

\* DeleteParams::before: an offset below 0 is refused.
Before(r) == IF r.before < HIGH_WATERMARK THEN Invalid ELSE r

\* writable_partition, and the partitions of delete_records and of a reset.
WritablePartitions(topic, partitions, table) ==
  IF WritableTopic(topic, table) # "no" THEN WritableTopic(topic, table)
  ELSE IF partitions \subseteq table[topic].partitions THEN "no" ELSE "unknown_partition"

\* DeleteRecords of Kafka: never below the low watermark.
LowAfter(mark, to) ==
  IF to = HIGH_WATERMARK THEN mark.high ELSE IF to < mark.low THEN mark.low ELSE to
DeleteRecords(r, k, partitions) ==
  [p \in DOMAIN k |->
     IF p \in partitions THEN [k[p] EXCEPT !.low = LowAfter(k[p], r.before)] ELSE k[p]]
DeleteRecordsShown(lows, table) == \A p \in DOMAIN lows : table[p].low >= lows[p]
=============================================================================

---------------------------- MODULE MCWritesReads ----------------------------
(***************************************************************************)
(* A change of the cluster, and a page of records.  They share no state,   *)
(* so a behaviour is one or the other.                                     *)
(* Callers of a change: one with every privilege, also on a cluster that   *)
(* is read-only and for an internal topic, one with a few on this cluster, *)
(* and one with none.  The page reads the topic ab, whose values without a *)
(* frame are also read with schemas that the query chose; rules for it by  *)
(* name and by prefix, beside a rule for another topic, and a pair that    *)
(* overlaps and must not load.                                             *)
(***************************************************************************)
EXTENDS ClusterWrites, RecordValues

VARIABLE doing

MCRoles == <<>>
MCAccesses ==
  {Unrestricted, Nobody,
   [open |-> FALSE,
    grants |-> {[role |-> "w", groups |-> {}, scope |-> [all |-> FALSE, names |-> {"c"}],
                 privileges |-> {"delete_topics", "delete_acls", "alter_broker_configs"}]}]}

MCReferences == [1..3 -> {<<>>, <<2>>, <<3>>, <<2, 3>>, <<3, 2>>}]

MCSchemaTypes == <<"PROTOBUF", "JSON">>
MCTopic == <<"a", "b">>

Card(strategy) == [NoRule EXCEPT !.fields = <<[path |-> "card", strategy |-> strategy]>>]
MCRules ==
  {Card("mask"), Card("drop"), [Card("hash") EXCEPT !.unparsed = "allow"],
   [NoRule EXCEPT !.patterns = <<[words |-> {"n"}, strategy |-> "hash"]>>],
   [Card("hash") EXCEPT !.unparsed = "allow",
                        !.patterns = <<[words |-> {"n"}, strategy |-> "drop"]>>],
   [NoRule EXCEPT !.headers = {"h"}],
   [NoRule EXCEPT !.value = "drop"], [NoRule EXCEPT !.key = "hash"]}

Exact == [prefix |-> FALSE, name |-> <<"a", "b">>]
Prefix == [prefix |-> TRUE, name |-> <<"a">>]
Other == [prefix |-> FALSE, name |-> <<"a">>]
MCPolicies ==
  {<<>>}
  \union {<<[topics |-> <<Other>>, rule |-> NoRule],
            [topics |-> <<Exact>>, rule |-> rule]>> : rule \in MCRules}
  \union {<<[topics |-> <<Prefix>>, rule |-> Card("mask")],
            [topics |-> <<Exact>>, rule |-> NoRule]>>,
          <<[topics |-> <<Prefix>>, rule |-> Card("mask")]>>}

MCWords == {"s", "n", "k", "h"}
MCTokens == {MASK, HASH, "kx:s", "kx:n", "kx:k", "kx:h", "kx:kx"}
MCHashes ==
  [word \in MCWords \union MCTokens |->
     CASE word = "s" -> "kx:s" [] word = "n" -> "kx:n" [] word = "k" -> "kx:k"
       [] word = "h" -> "kx:h" [] OTHER -> "kx:kx"]

MCNeedles == {"blank", "s", "n", "k"}
MCFallbacks == {0, 1, 2}
\* A message without a frame may have been written with its fields the other
\* way round than the first schema has them.
MCFieldNames ==
  <<[card |-> "note", note |-> "card"], [card |-> "card", note |-> "note", id |-> "id"]>>

One == {[card |-> "s", note |-> "n"]}
Many == {[card |-> "s", note |-> "n"], [note |-> "n"]}
Bytes(frame, id, form, doc) == [frame |-> frame, id |-> id, form |-> form, doc |-> doc]
MCRecords ==
  LET keys == {Absent, Bytes("none", 0, "TEXT", {[id |-> "k"]}),
               Bytes("id", 2, "JSON", {[id |-> "k"]})}
      values == {Absent, Bytes("none", 0, "TEXT", One), Bytes("none", 0, "JSON", Many),
                 Bytes("guid", 1, "PROTOBUF", One), Bytes("none", 0, "PROTOBUF", One),
                 Bytes("id", 2, "JSON", One),
                 Bytes("id", 1, "TEXT", One)}
      text(words) == [form |-> <<"none", "TEXT">>, words |-> words]
      headers == {[name |-> "h", value |-> text({"h"}), utf8 |-> TRUE],
                  [name |-> "g", value |-> Absent, utf8 |-> TRUE],
                  [name |-> "g", value |-> text({"n"}), utf8 |-> FALSE]} IN
  {[key |-> k, value |-> v, header |-> h] : k \in keys, v \in values,
     h \in {[name |-> "h", value |-> text({"h"}), utf8 |-> TRUE]}}
  \union {[key |-> Absent, value |-> Bytes("none", 0, "TEXT", One), header |-> h] :
            h \in headers}

-----------------------------------------------------------------------------
SumInit ==
  \/ /\ doing = "change"
     /\ policy = <<>> /\ needle = "blank" /\ decodes = FALSE /\ fallback = 0
     /\ there = {} /\ up = FALSE
     /\ Init /\ ValuesInit
     /\ cluster \notin WritableClusters \/ topic \in InternalTopics => access = Unrestricted
     /\ cluster \in WritableClusters \/ topic \notin InternalTopics
  \/ /\ doing = "page"
     /\ area = "encode" /\ access = Nobody /\ cluster = "c"
     /\ kafka = CHOOSE k \in Stored : TRUE
     /\ ValuesInit /\ Init
     /\ decodes \/ fallback = NoId

SumNext ==
  \/ doing = "change" /\ Next /\ UNCHANGED <<doing, valueVars>>
  \/ doing = "page" /\ ValuesNext /\ UNCHANGED <<doing, vars>>

SumSpec == SumInit /\ [][SumNext]_<<doing, vars, valueVars>>
=============================================================================

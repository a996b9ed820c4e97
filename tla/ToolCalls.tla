------------------------------ MODULE ToolCalls ------------------------------
(***************************************************************************)
(* The MCP server: what its one fixed grant lets a tool do, how a call is  *)
(* admitted and refused, what it costs, and how it ends.  A handler is the *)
(* sequence of its checks and awaits, in the order of its lines: a check   *)
(* that fails ends the call with its code, and nothing yields before the   *)
(* first await.  What the tables hold (is the lane read, does the name     *)
(* exist, do the arguments parse) is an input of the call; StoreViews and  *)
(* the Admin modules say what the answers hold.  rmcp, governor's limiter  *)
(* and Kafka are external.                                                 *)
(***************************************************************************)
EXTENDS Access, Errors, Sequences

CONSTANTS Clients,
          Granted,      \* the lists of privileges `mcp.privileges` may name
          Reach,        \* the scopes `mcp.clusters` may give
          MaxCalls, LiveQuota

\* "none" stands for no cluster, and is not the name of one.
ASSUME ToolsAssumption ==
  /\ {MaxCalls, LiveQuota} \subseteq Nat \ {0}
  /\ "none" \notin Configured

VARIABLES
  mcp,       \* the configuration: [privileges, clusters, secret]
  tokens,    \* live calls the limiter would still admit
  calls      \* each client's latest call

toolVars == <<mcp, tokens, calls>>

READS == {"records", "topic_configs", "broker_configs", "schema_text", "acls"}
WRITES == {"create_topics", "produce", "register_schemas"}

\* mcp::access: every caller holds the same grant.
McpAccess ==
  [open |-> FALSE,
   grants |-> {[role |-> "mcp", privileges |-> mcp.privileges,
                scope |-> mcp.clusters, groups |-> {}]}]

Visible == {cluster \in Configured : Shown(McpAccess, cluster)}

May(cluster, privilege) == Allows(McpAccess, cluster, privilege)

\* Each tool with the privilege it needs and the section another one opens.
Gate(needs, section) == [needs |-> needs, section |-> section]

Gates ==
  [clusters        |-> Gate("nothing", "none"),
   access_explain  |-> Gate("nothing", "none"),
   search          |-> Gate("nothing", "none"),
   topics_list     |-> Gate("nothing", "none"),
   topic_create    |-> Gate("create_topics", "none"),
   topic_describe  |-> Gate("nothing", "topic_configs"),
   groups_list     |-> Gate("nothing", "none"),
   group_describe  |-> Gate("nothing", "none"),
   record_get      |-> Gate("records", "none"),
   record_produce  |-> Gate("produce", "none"),
   records_read    |-> Gate("records", "none"),
   schema_get      |-> Gate("schema_text", "none"),
   schema_register |-> Gate("register_schemas", "none"),
   schemas_list    |-> Gate("nothing", "none"),
   acls_list       |-> Gate("acls", "none"),
   brokers_list    |-> Gate("nothing", "broker_configs")]

Tools == DOMAIN Gates

Changes(tool) == Gates[tool].needs \in WRITES

UsableIfAllowed(tool, cluster) ==
  Gates[tool].needs = "nothing" \/ May(cluster, Gates[tool].needs)

UsableOn(tool, cluster) ==
  /\ Gates[tool].needs = "nothing" \/ May(cluster, Gates[tool].needs)
  /\ Changes(tool) => cluster \in WritableClusters

OfferedTo(tool) ==
  \/ Gates[tool].needs = "nothing"
  \/ \E cluster \in Visible : UsableOn(tool, cluster)

ListTools == {tool \in Tools : OfferedTo(tool)}

\* What klens_access_explain says of a tool on a cluster: is it available, and
\* which privilege does it or its section lack?
Missing(cluster, needs) ==
  IF needs \in {"nothing", "none"} \/ May(cluster, needs) THEN "nothing" ELSE needs

Explain(tool, cluster) ==
  [available |-> UsableOn(tool, cluster),
   needs     |-> Missing(cluster, Gates[tool].needs),
   section   |-> Missing(cluster, Gates[tool].section)]

-----------------------------------------------------------------------------
(* What a call brings: the tool, the cluster it names, does it name one     *)
(* entity, and the first of the checks on its arguments and on what klens   *)
(* has read that it would not pass.                                         *)

Lanes == {"topology", "subjects", "acls_lane", "configs"}

Queries ==
  [tool : Tools, named : Configured \cup {"none", "no_such_cluster"},
   single : BOOLEAN,
   misses : Lanes \cup {"nothing", "args", "known", "internal", "partition", "registry"}]

\* Who sends it: the gateway, with one Authorization header that holds the
\* secret; a program without it; or a page, whose browser adds its Origin.
Senders == {"gateway", "program", "page"}

\* GatewaySecret::admits and require_secret.
AdmitsSecret(sender) == sender = "gateway"

\* mcp::router: with a secret configured it stands in for the origin check.
AdmittedToMcp(sender) == IF mcp.secret THEN AdmitsSecret(sender) ELSE sender # "page"

\* SessionExt::cluster_or_only.
ClusterOrOnly(q) ==
  IF q.named # "none" THEN q.named
  ELSE IF Cardinality(Visible) = 1 THEN CHOOSE cluster \in Visible : TRUE
  ELSE "none"

-----------------------------------------------------------------------------
(* The handlers.                                                            *)

OneOrEach(q) == IF q.named = "none" THEN <<>> ELSE <<"named_cluster">>

KlensClusters(q) ==
  IF q.named = "none" THEN <<>> ELSE <<"named_cluster", "topology">>

KlensAccessExplain(q) == OneOrEach(q)

KlensSearch(q) ==
  IF q.named = "none" THEN <<"args">> ELSE <<"args", "named_cluster", "topology">>

KlensTopicsList(q) == <<"cluster", "topology">>

KlensTopicCreate(q) == <<"cluster", "create_topics", "args", "live", "change">>

KlensTopicDescribe(q) == <<"cluster", "topology", "known">>

KlensGroupsList(q) == <<"cluster", "topology">>

\* Looking at a group makes the offsets lane read it more often.
KlensGroupDescribe(q) == <<"cluster", "topology", "live", "known", "watch">>

KlensRecordGet(q) == <<"cluster", "records", "args", "live", "read">>

\* writable_partition: the topic is known and not internal, the partition one
\* of its own.  The payload is read, with a schema of the registry or not, once
\* paid.
KlensRecordProduce(q) ==
  <<"cluster", "produce", "known", "internal", "partition", "live", "encode", "change">>

UnpaidRecordsRead(q) == <<"cluster", "records", "args", "read">>

KlensRecordsRead(q) == <<"cluster", "records", "args", "live", "read">>

\* Without a version the latest one is looked up in the subjects table.
KlensSchemaGet(q) ==
  IF q.single
  THEN <<"cluster", "schema_text", "registry", "args", "live", "read">>
  ELSE <<"cluster", "schema_text", "registry", "subjects", "known", "live", "read">>

KlensSchemaRegister(q) ==
  <<"cluster", "register_schemas", "registry", "live", "change">>

KlensSchemasList(q) == <<"cluster", "registry", "subjects">>

KlensAclsList(q) == <<"cluster", "acls", "acls_lane">>

\* One broker brings its configs, read live, if the caller may see them.
KlensBrokersList(q) ==
  IF ~q.single THEN <<"cluster", "topology">>
  ELSE IF May(ClusterOrOnly(q), "broker_configs")
  THEN <<"cluster", "topology", "args", "known", "live", "read">>
  ELSE <<"cluster", "topology", "args", "known">>

Handler(q) ==
  CASE q.tool = "clusters" -> KlensClusters(q)
    [] q.tool = "access_explain" -> KlensAccessExplain(q)
    [] q.tool = "search" -> KlensSearch(q)
    [] q.tool = "topics_list" -> KlensTopicsList(q)
    [] q.tool = "topic_create" -> KlensTopicCreate(q)
    [] q.tool = "topic_describe" -> KlensTopicDescribe(q)
    [] q.tool = "groups_list" -> KlensGroupsList(q)
    [] q.tool = "group_describe" -> KlensGroupDescribe(q)
    [] q.tool = "record_get" -> KlensRecordGet(q)
    [] q.tool = "record_produce" -> KlensRecordProduce(q)
    [] q.tool = "records_read" -> KlensRecordsRead(q)
    [] q.tool = "schema_get" -> KlensSchemaGet(q)
    [] q.tool = "schema_register" -> KlensSchemaRegister(q)
    [] q.tool = "schemas_list" -> KlensSchemasList(q)
    [] q.tool = "acls_list" -> KlensAclsList(q)
    [] q.tool = "brokers_list" -> KlensBrokersList(q)

Awaits == {"encode", "read", "change"}
Asks == Awaits \cup {"watch"}

\* The privilege check of a capability: a change asks for a writable cluster
\* before it asks for the privilege.
RefusedCapability(q, privilege) ==
  IF privilege \in WRITES
  THEN RefusedWrite(McpAccess, ClusterOrOnly(q), privilege)
  ELSE RefusedRead(McpAccess, ClusterOrOnly(q), privilege)

\* ClusterExt::snapshot, require_schema_registry, the checks of the arguments
\* and the lookups of a name.
RefusedInput(q, step) ==
  CASE step \in Lanes -> "not_ready"
    [] step = "registry" -> "no_schema_registry"
    [] step = "args" -> "unprocessable"
    [] step = "internal" -> "internal_topic"
    [] step = "partition" -> "unknown_partition"
    [] step = "known" -> CASE q.tool = "group_describe" -> "unknown_group"
                           [] q.tool = "schema_get" -> "unknown_subject"
                           [] q.tool = "brokers_list" -> "unknown_broker"
                           [] OTHER -> "unknown_topic"

\* SessionExt::cluster and cluster_or_only, without a cluster to be found.
RefusedCluster(q, step) ==
  IF step = "cluster" /\ ClusterOrOnly(q) = "none" THEN "unprocessable"
  ELSE IF ClusterOrOnly(q) \in Visible THEN "no" ELSE "unknown_cluster"

\* What a step answers when it fails, and "no" when the call goes on.
Refused(q, step) ==
  CASE step \in {"cluster", "named_cluster"} -> RefusedCluster(q, step)
    [] step \in READS \cup WRITES -> RefusedCapability(q, step)
    [] step = q.misses -> RefusedInput(q, step)
    [] step = "live" -> IF tokens > 0 THEN "no" ELSE "too_many_live_calls"
    [] OTHER -> "no"

\* The first of some steps, by their places.
First(places) == CHOOSE i \in places : \A j \in places : i <= j

\* The steps a call takes: all of them, or up to the first that refuses it.
Taken(q) ==
  LET steps == Handler(q)
      bad == {i \in DOMAIN steps : Refused(q, steps[i]) # "no"}
  IN  IF bad = {} THEN steps
      ELSE SubSeq(steps, 1, First(bad))

\* What is left of a handler at its first await: nothing but awaits.
Awaited(steps) ==
  LET awaits == {i \in DOMAIN steps : steps[i] \in Awaits}
  IN  IF awaits = {} THEN <<>> ELSE SubSeq(steps, First(awaits), Len(steps))

Has(steps, wanted) == \E i \in DOMAIN steps : steps[i] \in wanted

LastRefusal(q, steps) ==
  IF steps = <<>> THEN "no" ELSE Refused(q, steps[Len(steps)])

\* ConfigSection: a section without its privilege is left out of the answer,
\* with the privilege it needs, and one that is not read yet says so.
SectionOf(q) ==
  LET needs == Gates[q.tool].section
  IN  IF needs = "none" \/ (q.tool = "brokers_list" /\ ~q.single) THEN "none"
      ELSE IF ~May(ClusterOrOnly(q), needs) THEN "needs"
      ELSE IF q.tool = "topic_describe" /\ q.misses = "configs" THEN "not_read"
      ELSE "shown"

\* refusal.rs: the tools a refusal's hint sends the caller to.
Hint(code) ==
  CASE code \in {"forbidden", "read_only"} -> {"access_explain"}
    [] code \in {"unknown_topic", "unknown_group", "unknown_broker", "unknown_subject"}
         -> {"search"}
    [] code \in {"unknown_partition", "unknown_offset"} -> {"topic_describe"}
    [] code \in {"unencodable", "unknown_schema"} -> {"schemas_list", "schema_get"}
    [] code \in {"unknown_cluster", "not_ready"} \union Failures -> {"clusters"}
    [] code = "too_many_live_calls" -> {"groups_list"}
    [] OTHER -> {}

\* What an await may answer other than what it is asked for.  A payload is not
\* base64, or does not fit its schema; a page of records checks its query and
\* its partitions once it is paid for; a producer looks its topic up again.
Failing(tool, step) ==
  CASE step = "encode" -> {"unprocessable", "unencodable", "unknown_schema",
                           "no_schema_registry", "schema_registry"}
    [] tool = "record_produce" /\ step = "change"
         -> {"unknown_topic", "internal_topic", "unknown_partition", "refused", "client"}
    [] tool = "records_read" -> QueryErrors \cup {"unknown_topic", "unknown_partition", "client"}
    [] tool = "record_get" -> {"unknown_topic", "unknown_partition", "unknown_offset", "client"}
    [] tool = "schema_get" -> {"unknown_subject", "schema_registry"}
    [] tool = "brokers_list" -> {"unknown_broker", "broker_configs", "client"}
    [] tool = "schema_register" -> {"registry_refused", "schema_registry"}
    [] OTHER -> {"refused", "client"}

\* What a handler returns: a page of records may not fit the result.
Returned(tool) == IF tool = "records_read" THEN {"ok", "unprocessable"} ELSE {"ok"}

-----------------------------------------------------------------------------
NoCall ==
  [tool |-> "none", cluster |-> "none", stage |-> "idle", todo |-> <<>>,
   paid |-> FALSE, asked |-> FALSE, applied |-> FALSE,
   section |-> "none", answer |-> "none"]

Answered == {c \in Clients : calls[c].answer # "none"}

Running == {c \in Clients : calls[c].stage = "running"}

\* The request never reaches its handler: it is not from the gateway, every
\* permit is held, or its arguments miss the tool's input schema.
Turned(sender, fits) ==
  IF ~AdmittedToMcp(sender) THEN "not_from_gateway"
  ELSE IF Cardinality(Running) = MaxCalls THEN "rate_limited"
  ELSE IF ~fits THEN "unprocessable"
  ELSE "no"

TurnAway(c) ==
  /\ calls[c] = NoCall /\ Answered = {}
  /\ \E sender \in Senders, fits \in BOOLEAN :
       /\ Turned(sender, fits) # "no"
       /\ calls' = [calls EXCEPT ![c] =
                      [NoCall EXCEPT !.stage = "ended", !.answer = Turned(sender, fits)]]
  /\ UNCHANGED <<mcp, tokens>>

\* call_tool and run: the handler up to its first await.
CallTool(c) ==
  /\ calls[c] = NoCall /\ Answered = {}
  /\ \E sender \in Senders : Turned(sender, TRUE) = "no"
  /\ \E q \in Queries :
       LET steps == Taken(q)
           refusal == LastRefusal(q, steps)
           todo == Awaited(steps)
           paid == Has(steps, {"live"}) /\ refusal # "too_many_live_calls"
           call == [NoCall EXCEPT !.tool = q.tool, !.cluster = ClusterOrOnly(q),
                                  !.paid = paid]
       IN  /\ calls' = [calls EXCEPT ![c] =
                IF refusal # "no"
                THEN [call EXCEPT !.stage = "ended", !.answer = refusal]
                ELSE [call EXCEPT
                        !.stage = IF todo = <<>> THEN "ended" ELSE "running",
                        !.answer = IF todo = <<>> THEN "ok" ELSE "none",
                        !.todo = todo, !.asked = Has(steps, Asks),
                        !.section = SectionOf(q)]]
           /\ tokens' = IF paid THEN tokens - 1 ELSE tokens
  /\ UNCHANGED mcp

End(c, answer) ==
  calls' = [calls EXCEPT ![c].stage = "ended", ![c].answer = answer,
                         ![c].todo = <<>>]

\* Kafka or the registry does what the handler waits for.
Serve(c) ==
  /\ calls[c].stage = "running" /\ calls[c].todo # <<>>
  /\ calls' = [calls EXCEPT ![c].todo = Tail(calls[c].todo),
                            ![c].applied = Head(calls[c].todo) = "change"]
  /\ UNCHANGED <<mcp, tokens>>

\* It fails, or does not answer in time: a change may then have been made.
Fail(c) ==
  /\ calls[c].stage = "running"
  /\ \/ /\ calls[c].todo # <<>>
        /\ \E code \in Failing(calls[c].tool, Head(calls[c].todo)) : End(c, code)
     \/ End(c, "timeout")
  /\ UNCHANGED <<mcp, tokens>>

\* The handler returns, and the permit is dropped.
Return(c) ==
  /\ calls[c].stage = "running" /\ calls[c].todo = <<>>
  /\ \E answer \in Returned(calls[c].tool) : End(c, answer)
  /\ UNCHANGED <<mcp, tokens>>

AlwaysStops(tool) == TRUE

StopsOnCancel(tool) == ~Changes(tool)

\* The client cancels its request.
Cancel(c) ==
  /\ calls[c].stage = "running" /\ StopsOnCancel(calls[c].tool)
  /\ End(c, "cancelled")
  /\ UNCHANGED <<mcp, tokens>>

\* settle: a panic is caught and answered.
Panic(c) ==
  /\ calls[c].stage = "running"
  /\ End(c, "failed")
  /\ UNCHANGED <<mcp, tokens>>

\* The client has its answer.  (One answer is on its way at a time, and a
\* client has one call: a bound on what is remembered, not on what runs.)
Receive(c) ==
  /\ c \in Answered
  /\ calls' = [calls EXCEPT ![c] = NoCall]
  /\ UNCHANGED <<mcp, tokens>>

\* The limiter gives a live call back.
Replenish ==
  /\ tokens < LiveQuota
  /\ tokens' = tokens + 1
  /\ UNCHANGED <<mcp, calls>>

ToolsInit ==
  /\ mcp \in [privileges : Granted, clusters : Reach, secret : BOOLEAN]
  /\ tokens = LiveQuota
  /\ calls = [c \in Clients |-> NoCall]

ToolsNext ==
  \/ \E c \in Clients : TurnAway(c) \/ CallTool(c) \/ Serve(c) \/ Fail(c) \/ Return(c)
                          \/ Cancel(c) \/ Panic(c) \/ Receive(c)
  \/ Replenish

ToolsSpec == ToolsInit /\ [][ToolsNext]_toolVars

-----------------------------------------------------------------------------
(* What klens_access_explain and the tool list say is what a call meets     *)
(* (gate.rs usable_on, against the capabilities each handler asks for): a   *)
(* call that found its cluster is refused for its rights exactly when the   *)
(* tool is explained as not available there, and the refusal sends the      *)
(* caller to that explanation; the privilege of a FORBIDDEN, and the one a  *)
(* left-out section needs, is the one explained; a tool that is not offered *)
(* never answers, and no hint names one.  But UNENCODABLE and               *)
(* UNKNOWN_SCHEMA name klens_schema_get to whoever produces, also under a   *)
(* grant that does not offer it (refusal.rs:119-122).                       *)
ExplainedAsCalled ==
  \A c \in Clients :
    LET call == calls[c]
        told == Explain(call.tool, call.cluster)
    IN  /\ call.stage = "ended" /\ call.cluster \in Visible
             => /\ ("access_explain" \in Hint(call.answer)) <=> ~told.available
                /\ call.answer = "forbidden" => told.needs # "nothing"
                /\ (call.section = "needs") => told.section # "nothing"
                /\ (call.section \in {"shown", "not_read"}) => told.section = "nothing"
        /\ call.answer = "ok" => call.tool \in ListTools
        /\ \A named \in Hint(call.answer) \ ListTools :
             named = "schema_get" /\ call.tool = "record_produce"

(* A tool costs Kafka nothing unless the limiter let it (server.rs:36,      *)
(* live_call, called by hand in each handler): whatever reads from Kafka or *)
(* the registry, changes them or watches a group was paid for before, and a *)
(* call that its rights, a lane that is not read or the limit of calls      *)
(* rules out pays nothing.  Nor does one with arguments that cannot be      *)
(* read, but for two that are found out too late: a payload that is not     *)
(* base64 (mcp/tools/records.rs:198) and a page of records that does not    *)
(* fit the result (236).                                                    *)
LiveCallsArePaid ==
  \A c \in Clients :
    /\ calls[c].asked => calls[c].paid
    /\ calls[c].answer \in {"forbidden", "read_only", "unknown_cluster",
                            "not_ready", "rate_limited"}
         => ~calls[c].paid
    /\ calls[c].answer = "unprocessable" /\ calls[c].paid
         => calls[c].tool \in {"record_produce", "records_read"}

(* A change that was made is answered with what became of it (server.rs:128, *)
(* run): a client that cancels stops a read and frees its permit, and never *)
(* drops a call whose change may be on its way.                             *)
ChangesAreAnswered ==
  \A c \in Clients :
    /\ calls[c].applied => calls[c].answer # "cancelled"
    /\ calls[c].answer = "cancelled" => ~Changes(calls[c].tool)
=============================================================================

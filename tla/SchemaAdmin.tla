----------------------------- MODULE SchemaAdmin -----------------------------
(***************************************************************************)
(* The schema registry as klens writes to it and reads it back: one subject *)
(* with its versions, each [schema, is] with is "live", "soft" deleted or    *)
(* "hard" deleted, and its compatibility level; and the order in which klens *)
(* hands the schemas that a schema refers to over to a codec.                *)
(***************************************************************************)
EXTENDS Integers, Sequences, SequencesExt, FiniteSetsExt

Schemas == {"x", "y"}
CompatibilityLevels == {"NONE", "FULL"}
GlobalLevel == "FULL"
NoLevel == "unconfigured"

Having(k, is) == {v \in DOMAIN k.versions : k.versions[v].is = is}
LiveVersions(k) == Having(k, "live")
Lookup(k, schema) == {v \in LiveVersions(k) : k.versions[v].schema = schema}

\* The registry keeps a schema it has, or makes it the next version.
Register(k, schema) ==
  IF Lookup(k, schema) # {} THEN k
  ELSE [k EXCEPT !.versions = Append(@, [schema |-> schema, is |-> "live"])]

\* A version, or all of them; numbers start over once all are gone for good.
NamedVersions(k, r) == IF r.version = 0 THEN DOMAIN k.versions ELSE {r.version}
Mark(k, versions, from, to) ==
  LET marked == [v \in DOMAIN k.versions |->
                   IF v \in versions /\ k.versions[v].is = from
                   THEN [k.versions[v] EXCEPT !.is = to] ELSE k.versions[v]] IN
  [k EXCEPT !.versions = IF \A v \in DOMAIN marked : marked[v].is = "hard" THEN <<>>
                         ELSE marked]

\* RegistryClient::subjects of one subject: a failed load leaves it out, the
\* schema of a latest version that was seen before is not read again, and a
\* level that cannot be read shows as NONE.
NoSubject == [versions |-> {}, latest |-> 0, id |-> "none", level |-> NoLevel]
LoadSubject(k, known, levelFails) ==
  LET latest == Max(LiveVersions(k)) IN
  [versions |-> LiveVersions(k), latest |-> latest,
   id |-> IF known.latest = latest THEN known.id ELSE k.versions[latest].schema,
   level |-> IF levelFails THEN "NONE"
             ELSE IF k.level = NoLevel THEN GlobalLevel ELSE k.level]
SubjectTable(k, known) ==
  IF LiveVersions(k) = {} THEN NoSubject ELSE LoadSubject(k, known, FALSE)
SubjectReads(k, known) ==
  {NoSubject, SubjectTable(k, known)}
  \union (IF LiveVersions(k) = {} THEN {} ELSE {LoadSubject(k, known, TRUE)})

-----------------------------------------------------------------------------
(* The requests. *)

RegisterBodies == [op : {"register_schemas"}, schema : Schemas]
DeleteSchemaBodies == [op : {"delete_schemas"}, version : 0..2, permanent : BOOLEAN]
CompatibilityBodies == [op : {"set_compatibility"}, level : CompatibilityLevels]

KnownSubject(table) == IF table = NoSubject THEN "unknown_subject" ELSE "no"
KnownVersion(r, table) ==
  IF r.version # 0 /\ r.version \notin table.versions THEN "unknown_subject"
  ELSE KnownSubject(table)

SetCompatibility(r, k) == [k EXCEPT !.level = r.level]

RegisterShown(version, table) == version \in table.versions
DeleteSchemaShown(r, table) ==
  table = NoSubject \/ (r.version # 0 /\ r.version \notin table.versions)
SetCompatibilityShown(r, table) == table.level = r.level

-----------------------------------------------------------------------------
(* References: a graph maps a schema to the sequence of those it refers to. *)

RootSchema == 1
CONSTANT References
ASSUME ReferencesAssumption ==
  \A refs \in References :
    RootSchema \in DOMAIN refs /\ \A s \in DOMAIN refs : refs[s] \in Seq(DOMAIN refs)

Reachable(refs, from) ==
  {s \in DOMAIN refs : \A closed \in SUBSET DOMAIN refs :
     /\ Range(refs[from]) \subseteq closed
     /\ \A x \in closed : Range(refs[x]) \subseteq closed
     => s \in closed}
Acyclic(refs) == \A s \in DOMAIN refs : s \notin Reachable(refs, s)

Enters(schemas) == [i \in DOMAIN schemas |-> [enter |-> TRUE, schema |-> schemas[i]]]

\* dependencies, before its first wave.
NoWalk(refs) == [pending |-> Range(refs[RootSchema]), fetched |-> {},
                 visits |-> Enters(refs[RootSchema]),
                 entered |-> {}, ordered |-> <<>>]

\* One wave of fetches, of references that no wave before had.
Wave(walk, refs) ==
  LET wave == walk.pending \ walk.fetched IN
  [walk EXCEPT !.fetched = @ \union wave, !.pending = UNION {Range(refs[s]) : s \in wave}]

\* in_dependency_order, with a schema written down when it is entered.
VisitEnterFirst(walk, refs) ==
  LET visit == Last(walk.visits)
      rest == Front(walk.visits) IN
  IF visit.schema \in walk.entered THEN [walk EXCEPT !.visits = rest]
  ELSE [walk EXCEPT !.entered = @ \union {visit.schema},
                    !.ordered = Append(@, visit.schema),
                    !.visits = rest \o Enters(refs[visit.schema])]

\* in_dependency_order, one turn of its loop.
Visit(walk, refs) ==
  LET visit == Last(walk.visits)
      rest == Front(walk.visits)
      leave == [enter |-> FALSE, schema |-> visit.schema] IN
  IF ~visit.enter
  THEN [walk EXCEPT !.visits = rest, !.ordered = Append(@, visit.schema)]
  ELSE IF visit.schema \in walk.entered \/ visit.schema \notin walk.fetched
  THEN [walk EXCEPT !.visits = rest]
  ELSE [walk EXCEPT !.entered = @ \union {visit.schema},
                    !.visits = rest \o <<leave>> \o Enters(refs[visit.schema])]
=============================================================================

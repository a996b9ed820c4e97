------------------------------- MODULE SchemaIds -------------------------------
(***************************************************************************)
(* The ids of a subject's schema versions, as two lanes read them from the   *)
(* registry.  The subjects lane does not read the schema of a latest version *)
(* that it knows; the schema ids lane keeps the ids it holds when one of     *)
(* them is confirmed.  A subject that is deleted for good numbers its        *)
(* versions from 1 again, so what either lane keeps may be of a former life. *)
(***************************************************************************)
EXTENDS Integers, Sequences, FiniteSets, FiniteSetsExt, Functions

CONSTANTS MaxVersion, MaxId, MaxLives, Absent

ASSUME IdsAssumption == Absent \notin Nat /\ {MaxVersion, MaxId, MaxLives} \subseteq Nat \ {0}

VARIABLES registered,           \* the registry: version -> id of what is not deleted
          given,                \* the ids of this life's versions, deleted ones included
          nextId,               \* what the next schema gets that the registry has not seen
          life,                 \* how often the subject was deleted for good, plus one
          earlier,              \* history: the versions of former lives with their ids
          sweep,                \* the subjects lane at work
          subject,              \* what the subjects table holds of the subject
          idFetch, ids,         \* the schema ids lane and its table
          mixed                 \* history: a poll has seen two lives of the subject

registry == <<registered, given, nextId, life, earlier>>
schemaVars == <<registry, sweep, subject, idFetch, ids, mixed>>

-----------------------------------------------------------------------------
(* The registry *)

\* A table of ids with one more.
Added(before, v, id) == [w \in DOMAIN before \union {v} |-> IF w = v THEN id ELSE before[w]]

\* A version with a schema that the subject does not have; one that the registry
\* has seen before, in a former life too, keeps its id.
RegisterVersion ==
  /\ Len(given) < MaxVersion
  /\ \E id \in 1..nextId \ Range(registered) :
       /\ id <= MaxId
       /\ registered' = Added(registered, Len(given) + 1, id)
       /\ given' = Append(given, id)
       /\ nextId' = IF id = nextId THEN nextId + 1 ELSE nextId
  /\ UNCHANGED <<life, earlier, sweep, subject, idFetch, ids, mixed>>

DeleteVersion(v) ==
  /\ registered' = Restrict(registered, DOMAIN registered \ {v})
  /\ UNCHANGED <<given, nextId, life, earlier, sweep, subject, idFetch, ids, mixed>>

\* Nothing of the subject is left.  A poll under way may see both lives.
PurgeSubject ==
  /\ given # <<>> /\ life < MaxLives /\ life' = life + 1
  /\ registered' = Restrict(registered, {}) /\ given' = <<>>
  /\ earlier' = earlier \union {<<v, given[v]>> : v \in DOMAIN given}
  /\ mixed' = (mixed \/ sweep # Absent \/ idFetch # Absent)
  /\ UNCHANGED <<nextId, sweep, subject, idFetch, ids>>

-----------------------------------------------------------------------------
(* The subjects lane *)

\* load_subject up to its versions; without any it is left out.
ReadVersions ==
  /\ sweep = Absent /\ DOMAIN registered # {}
  /\ sweep' = [versions |-> DOMAIN registered, latest |-> Max(DOMAIN registered), life |-> life]
  /\ UNCHANGED <<registry, subject, idFetch, ids, mixed>>

\* The latest schema, unless it is known; a poll that fails to read it leaves
\* the subject out.
ReadLatest ==
  LET known == subject # Absent /\ subject.latest = sweep.latest IN
  /\ sweep # Absent /\ sweep' = Absent
  /\ \/ /\ known \/ sweep.latest \in DOMAIN registered
        /\ subject' = [versions |-> sweep.versions, latest |-> sweep.latest, life |-> sweep.life,
                       latestId |-> IF known THEN subject.latestId ELSE registered[sweep.latest]]
        /\ mixed' = (mixed \/ (known /\ subject.life # sweep.life))
     \/ ~known /\ subject' = Absent /\ UNCHANGED mixed
  /\ UNCHANGED <<registry, idFetch, ids>>

\* A subject that the registry lists no more, or that a poll fails to read.
SubjectGone ==
  /\ sweep = Absent /\ subject # Absent /\ subject' = Absent
  /\ UNCHANGED <<registry, sweep, idFetch, ids, mixed>>

-----------------------------------------------------------------------------
(* The schema ids lane *)

Holds(v) == ids # Absent /\ v \in DOMAIN ids

\* fetch up to its first request: the last version it holds is to be confirmed,
\* unless it holds the latest one.
StartIds ==
  /\ idFetch = Absent /\ subject # Absent
  /\ idFetch' = [info |-> subject, step |-> "check",
               table |-> Restrict(registered, {}), wanted |-> {}]
  /\ mixed' = (mixed \/ subject.life # life)
  /\ UNCHANGED <<registry, sweep, subject, ids>>

\* Whatever it holds is taken as confirmed.
CheckAnyway(found) == TRUE

Check(found) ==
  /\ ~Holds(idFetch.info.latest) /\ ids # Absent /\ DOMAIN ids # {}
  /\ found # Absent /\ ids[Max(DOMAIN ids)] = found

\* What the registry answers for a version, or nothing.
VersionId(v) == (IF v \in DOMAIN registered THEN {registered[v]} ELSE {}) \union {Absent}

\* The ids it may keep, the latest one from the subjects table.
HeldIds(confirmed) ==
  LET info == idFetch.info
      trusted == IF Holds(info.latest) THEN ids[info.latest] = info.latestId ELSE confirmed IN
  [v \in {info.latest} \union {v \in info.versions : Holds(v) /\ trusted} |->
     IF v = info.latest THEN info.latestId ELSE ids[v]]

CheckHeld ==
  /\ idFetch # Absent /\ idFetch.step = "check"
  /\ \E found \in IF ids = Absent \/ ids = <<>> THEN {Absent} ELSE VersionId(Max(DOMAIN ids)) :
       LET kept == HeldIds(Check(found)) IN
       idFetch' = [idFetch EXCEPT !.step = "read", !.table = kept,
                              !.wanted = idFetch.info.versions \ DOMAIN kept]
  /\ UNCHANGED <<registry, sweep, subject, ids, mixed>>

\* One of version_ids; a version without an answer stays without an id.
ReadId(v) ==
  /\ idFetch # Absent /\ v \in idFetch.wanted
  /\ \E found \in VersionId(v) :
       idFetch' = [idFetch EXCEPT !.wanted = @ \ {v},
                              !.table = IF found = Absent THEN @ ELSE Added(@, v, found)]
  /\ UNCHANGED <<registry, sweep, subject, ids, mixed>>

CommitIds ==
  /\ idFetch # Absent /\ idFetch.step = "read" /\ idFetch.wanted = {}
  /\ ids' = idFetch.table /\ idFetch' = Absent
  /\ UNCHANGED <<registry, sweep, subject, mixed>>

\* A poll for subjects without this one.
IdsGone ==
  /\ idFetch = Absent /\ subject = Absent /\ ids # Absent /\ ids' = Absent
  /\ UNCHANGED <<registry, sweep, subject, idFetch, mixed>>

\* SubjectRow::all: the latest id from the subjects table, the others if held.
SubjectRow(info, table) ==
  [v \in info.versions |->
     IF v = info.latest THEN info.latestId
     ELSE IF v \in DOMAIN table THEN table[v] ELSE Absent]

SchemaInit ==
  /\ registered = [v \in {} |-> 0] /\ given = <<>> /\ nextId = 1 /\ life = 1 /\ earlier = {}
  /\ sweep = Absent /\ subject = Absent /\ idFetch = Absent /\ ids = Absent
  /\ mixed = FALSE

SchemaNext ==
  \/ RegisterVersion \/ (\E v \in DOMAIN registered : DeleteVersion(v))
  \/ PurgeSubject \/ ReadVersions \/ ReadLatest \/ SubjectGone
  \/ StartIds \/ CheckHeld \/ (\E v \in 1..MaxVersion : ReadId(v)) \/ CommitIds \/ IdsGone

SchemaSpec == SchemaInit /\ [][SchemaNext]_schemaVars

-----------------------------------------------------------------------------
\* An id of a former life that the confirmation of one id cannot tell: a later
\* version has the schema, and so the id, that its number had in a former life.
Unnoticed(v, id) ==
  /\ <<v, id>> \in earlier
  /\ \E w \in DOMAIN given : w > v /\ <<w, given[w]>> \in earlier

\* The ids that klens keeps from one poll to the next are those of the subject
\* as it is now: a row made of a table as it is committed shows for every
\* version that is still there its own id, or none yet.  Excepted are an id of
\* the version in a former life when a later version has the same id in both
\* lives, which is all that the lane confirms, and a subject of which one poll
\* has seen two lives: one deleted for good while a poll was under way, or whose
\* latest version had the number it has now.
IdsOfThisLife ==
  [][ids' # ids /\ idFetch # Absent /\ idFetch' = Absent /\ ~mixed' =>
       LET row == SubjectRow(idFetch.info, ids') IN
       \A v \in DOMAIN row \intersect DOMAIN registered :
         row[v] \in {Absent, registered[v]} \/ Unnoticed(v, row[v])]_schemaVars
=============================================================================

--------------------------- MODULE PrincipalAdmin ---------------------------
(***************************************************************************)
(* ACLs, client quotas and SCRAM credentials, as the handlers that change   *)
(* them see them: the form on the wire, what the lanes read back of it, and  *)
(* the predicates that end a settle.                                         *)
(***************************************************************************)
EXTENDS Integers, FiniteSets, Sequences, SequencesExt, Bodies

-----------------------------------------------------------------------------
(* ACLs: a stored row is [name, pattern, operation] with Kafka's pattern    *)
(* codes: 2 is MATCH (in filters only), 3 LITERAL and 4 PREFIXED.           *)

KrafkaCode(pattern) == IF pattern = "Literal" THEN 2 ELSE 3
KrafkaPattern(code) ==
  IF code = 2 THEN "Literal" ELSE IF code = 3 THEN "Prefixed" ELSE "Unknown"

\* What krafka's names say, one below what Kafka reads.
PlainToKrafka(pattern) == pattern

ToKrafka(pattern) == IF pattern = "Literal" THEN "Prefixed" ELSE "error"

PatternFromKrafka(pattern) ==
  CASE pattern = "Prefixed" -> "Literal" [] pattern = "Unknown" -> "Prefixed"
    [] OTHER -> "sentinel"

\* An operation krafka has no name for: its row is dropped from the listing.
Acls == [name : {"a", "*"}, pattern : {"Literal", "Prefixed"}, operation : {"Read"}]
OperationKnown(operation) == operation = "Read"
NewerAcl == [name |-> "a", pattern |-> 3, operation |-> "newer"]

StoredAcl(acl) == [acl EXCEPT !.pattern = KrafkaCode(ToKrafka(acl.pattern))]
FromWire(row) == [row EXCEPT !.pattern = PatternFromKrafka(KrafkaPattern(row.pattern))]

\* A listing that is denied, or disabled, is an answer.
AclTable(k, readable) ==
  IF ~readable THEN {} ELSE {FromWire(row) : row \in {r \in k : OperationKnown(r.operation)}}

CreateAclsBodies ==
  [op : {"create_acls"}, rows : {acls \in SUBSET Acls : Cardinality(acls) <= 2}]
DeleteAclBodies == [op : {"delete_acls"}, rows : {{acl} : acl \in Acls}]

IntoAcls(r) == IF r.rows = {} THEN Invalid ELSE r

\* Rows that krafka cannot send are refused before anything is.
Sendable(r) ==
  IF \E acl \in r.rows : ToKrafka(acl.pattern) = "error" THEN "prefixed_acl" ELSE "no"

CreateAcls(k, acls) == k \union {StoredAcl(acl) : acl \in acls}

\* What a filter of DeleteAcls takes away.
Deleted(k, filter) ==
  {row \in k :
     /\ row.operation = filter.operation
     /\ IF filter.pattern # 2 THEN row.name = filter.name /\ row.pattern = filter.pattern
        ELSE row.name = filter.name \/ (row.pattern = 3 /\ row.name = "*")}

DeleteAcl(k, r) == k \ UNION {Deleted(k, StoredAcl(acl)) : acl \in r.rows}

CreateAclsShown(r, table) == r.rows \subseteq table
DeleteAclShown(r, table) == r.rows \cap table = {}

-----------------------------------------------------------------------------
(* Client quotas: an entity is a set of <<type, name>>, stored with values   *)
(* by key; the rows of the listing have the parts in the order of the type. *)

EntityOrder(left, right) ==
  LET rank(part) == CHOOSE i \in 1..3 : <<"user", "client-id", "ip">>[i] = part[1]
  IN rank(left) <= rank(right)

\* sort_by_key, of parts whose types are distinct.
SortByKey(parts) ==
  CHOOSE s \in [1..Cardinality(parts) -> parts] :
    Range(s) = parts /\ \A i, j \in DOMAIN s : i < j => EntityOrder(s[i], s[j])

\* The parts come from a map, in no order that klens could rely on.
WireParts(entity) == Reverse(SortByKey(entity))

\* ClientQuota::from_described, without its sort.
UnsortedQuota(entity) == WireParts(entity)

FromDescribed(entity) == SortByKey(Range(WireParts(entity)))

Keys == {"producer_byte_rate", "consumer_byte_rate"}
NoValues == [key \in Keys |-> 0]

QuotaTable(k, readable) ==
  IF ~readable THEN {}
  ELSE {[entity |-> FromDescribed(entity), values |-> k[entity]] :
          entity \in {e \in DOMAIN k : k[e] # NoValues}}

QuotaBodies ==
  [op : {"alter_quotas"}, values : [Keys -> 0..1],
   entity : {<<>>, <<<<"user", "u">>>>, <<<<"client-id", "c">>, <<"user", "u">>>>,
             <<<<"user", "u">>, <<"user", "u">>>>}]

\* ClientQuota::into_quota.
IntoQuota(r) ==
  IF r.entity = <<>> \/ \E i, j \in DOMAIN r.entity : i # j /\ r.entity[i][1] = r.entity[j][1]
  THEN Invalid
  ELSE [r EXCEPT !.entity = SortByKey(Range(@))]

\* A value that is not given is removed.
AlterQuota(r, k) == [k EXCEPT ![Range(r.entity)] = r.values]

\* QuotaListing::values, and the predicate of set_client_quota.
QuotaValues(entity, table) == {row.values : row \in {row \in table : row.entity = entity}}
QuotaShown(r, table) ==
  LET values == QuotaValues(r.entity, table) IN
  IF values = {} THEN r.values = NoValues ELSE values = {r.values}

-----------------------------------------------------------------------------
(* SCRAM credentials: iterations by mechanism of one user, 0 for none.      *)

ITERATIONS == 4096..16384
Mechanisms == {"sha256", "sha512"}

ScramTable(k, readable) == IF readable THEN k ELSE [m \in Mechanisms |-> 0]

SetScramBodies ==
  [op : {"set_scram_credentials"}, mechanism : Mechanisms,
   iterations : {0, 4095, 4096, 8192, 16385}, password : {"blank", "pw"}]
DeleteScramBodies == [op : {"delete_scram_credentials"}, mechanism : Mechanisms]

IntoCredential(r) ==
  LET iterations == IF r.iterations = 0 THEN 4096 ELSE r.iterations IN
  IF iterations \notin ITERATIONS \/ r.password = "blank" THEN Invalid
  ELSE [r EXCEPT !.iterations = iterations]

\* Kafka has no credential to delete.
RefusesScram(r, k) == r.op = "delete_scram_credentials" /\ k[r.mechanism] = 0

SetScram(r, k) == [k EXCEPT ![r.mechanism] = r.iterations]
DeleteScram(r, k) == [k EXCEPT ![r.mechanism] = 0]
SetScramShown(r, table) == table[r.mechanism] = r.iterations
DeleteScramShown(r, table) == table[r.mechanism] = 0
=============================================================================

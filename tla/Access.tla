------------------------------- MODULE Access -------------------------------
(***************************************************************************)
(* Who may do what on which cluster: roles bound to groups, the grants a   *)
(* set of groups resolves to, and the order in which a request is refused. *)
(* A binding is [groups, scope] and a scope [all, names]: with all, every   *)
(* name is in it; a list without names holds none.                         *)
(***************************************************************************)
EXTENDS FiniteSets

CONSTANTS Roles,        \* config: role name -> [privileges, bindings]
          HasRoles,     \* are roles configured at all?
          Configured,   \* the clusters of the configuration
          WritableClusters

ASSUME AccessAssumption == WritableClusters \subseteq Configured /\ HasRoles \in BOOLEAN

Holds(scope, cluster) == scope.all \/ cluster \in scope.names

Grant(role, binding) ==
  [role |-> role, privileges |-> Roles[role].privileges,
   scope |-> binding.scope, groups |-> binding.groups]

\* Every binding of every role is one grant, found by each of its groups.
RoleTable ==
  UNION {{Grant(role, binding) : binding \in Roles[role].bindings} :
           role \in DOMAIN Roles}

Resolve(groups) == {grant \in RoleTable : grant.groups \cap groups # {}}

Nobody == [open |-> FALSE, grants |-> {}]

Unrestricted == [open |-> TRUE, grants |-> {}]

\* AccessPolicy::admit: without roles everybody who signed in may do
\* everything; with roles no grant is no access.
Admit(groups) ==
  IF HasRoles THEN [open |-> FALSE, grants |-> Resolve(groups)] ELSE Unrestricted

InScope(access, cluster) ==
  {grant \in access.grants : Holds(grant.scope, cluster)}

\* The union over the grants in scope: a role without privileges still shows
\* the cluster.
Allows(access, cluster, privilege) ==
  access.open \/ \E grant \in InScope(access, cluster) :
                   privilege \in grant.privileges

\* A cluster outside every grant looks like one that does not exist.
Shown(access, cluster) ==
  /\ access.open \/ InScope(access, cluster) # {}
  /\ cluster \in Configured

RefusedRead(access, cluster, privilege) ==
  IF ~Shown(access, cluster) THEN "unknown_cluster"
  ELSE IF ~Allows(access, cluster, privilege) THEN "forbidden"
  ELSE "no"

\* A write asks for a writable cluster before it asks for the privilege.
RefusedWrite(access, cluster, privilege) ==
  IF ~Shown(access, cluster) THEN "unknown_cluster"
  ELSE IF cluster \notin WritableClusters THEN "read_only"
  ELSE IF ~Allows(access, cluster, privilege) THEN "forbidden"
  ELSE "no"
=============================================================================

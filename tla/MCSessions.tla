----------------------------- MODULE MCSessions -----------------------------
(***************************************************************************)
(* The two doors of the server: browsers with their sessions, and MCP      *)
(* clients with their one grant.  They share the access policy and no      *)
(* state, so a behaviour uses one of them.                                 *)
(* Two roles: one of them reads records of the cluster, one sees it only.  *)
(***************************************************************************)
EXTENDS Sessions, ToolCalls, TLC

VARIABLE door

MCRoles ==
  [reader |-> [privileges |-> {"records"},
               bindings |-> {[groups |-> {"r"}, scope |-> [all |-> TRUE, names |-> {}]]}],
   viewer |-> [privileges |-> {},
               bindings |-> {[groups |-> {"v"}, scope |-> [all |-> FALSE, names |-> {"c"}]]}]]
MCMemberships == {{"r"}, {"v"}, {"x"}}

MCGranted == {READS, WRITES}
MCReach == {[all |-> TRUE, names |-> {}], [all |-> FALSE, names |-> {"c"}]}

\* Browsers come in under one MCP configuration, MCP clients without auth.
FrontInit ==
  \/ /\ door = "browsers"
     /\ mcp = [privileges |-> READS, clusters |-> [all |-> TRUE, names |-> {}],
               secret |-> FALSE]
     /\ Init /\ ToolsInit
  \/ /\ door = "mcp"
     /\ enabled = FALSE
     /\ Init /\ ToolsInit

FrontNext ==
  \/ door = "browsers" /\ Next /\ UNCHANGED <<door, toolVars>>
  \/ door = "mcp" /\ ToolsNext /\ UNCHANGED <<door, vars>>

FrontSpec == FrontInit /\ [][FrontNext]_<<door, vars, toolVars>>

Symmetry == Permutations(Browsers) \cup Permutations(Clients)
=============================================================================

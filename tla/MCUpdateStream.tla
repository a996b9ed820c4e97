--------------------------- MODULE MCUpdateStream ---------------------------
(* UpdateStream for TLC: one page of every scope, with each of its queries. *)
EXTENDS UpdateStream, TLC

\* Nothing is said of a page that has given up its stream: TLC leaves it there.
HasStream == \E p \in Pages : stream[p] # "stopped"
=============================================================================

------------------------------- MODULE MCLane -------------------------------
(* Lane for TLC: a writer that settles on a lane with a cache.               *)
EXTENDS Lane
=============================================================================

----------------------------- MODULE MCScanPool -----------------------------
(* Instances of ScanPool for TLC.                                          *)
EXTENDS ScanPool

CONSTANTS r1, r2, c1, c2, c3

PoolSymmetry ==
    Permutations(Pages) \cup Permutations(Readers) \cup Permutations(Topics)
=============================================================================

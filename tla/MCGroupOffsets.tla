--------------------------- MODULE MCGroupOffsets ---------------------------
(* Instances of GroupOffsets for TLC.                                      *)
EXTENDS GroupOffsets, TLC
=============================================================================

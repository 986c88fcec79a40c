--------------------------- MODULE MCGapirClient ----------------------------
(***************************************************************************)
(* Small instances of GapirClient.                                         *)
(***************************************************************************)
EXTENDS GapirClient, TLC

CONSTANTS p1, p2

MCSymmetry == Permutations(Replayers)
=============================================================================

----------------------------- MODULE MCDatabase -----------------------------
(***************************************************************************)
(* Small instances of Database.                                            *)
(***************************************************************************)
EXTENDS Database, TLC

CONSTANTS c1, c2, k1, k2, k3, k4, top, leaf, blob

\* A Resolvable that resolves another one while it builds.
MCResolvables == {top, leaf}
MCDeps == [i \in Ids |-> IF i = top THEN Ids \ {top} ELSE {}]
MCTop == {top}

MCSymmetry == Permutations(Callers) \cup Permutations(Builds)
=============================================================================

----------------------------- MODULE MCSnapshot -----------------------------
(* Instances of Snapshot for TLC.                                          *)
EXTENDS Snapshot, TLC

CONSTANTS a, b, c, s1, s2

Symmetry == Permutations({a, b, c})
PairSymmetry == Permutations({a, b})
=============================================================================

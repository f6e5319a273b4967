-------------------------- MODULE MCSnapshotFaults --------------------------
(* Instances of SnapshotFaults for TLC.                                    *)
EXTENDS SnapshotFaults, TLC

CONSTANTS a, b, s1, s2

PairSymmetry == Permutations({a, b})
=============================================================================

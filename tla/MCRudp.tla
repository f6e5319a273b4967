------------------------------- MODULE MCRudp -------------------------------
(* Instances of Rudp for TLC: one flow between two servers.                *)
EXTENDS Rudp, TLC

CONSTANTS a, b, m1, m2

OneWay  == {<<a, b>>}
Payloads == {m1, m2}
Symmetry == Permutations(Payloads)
=============================================================================

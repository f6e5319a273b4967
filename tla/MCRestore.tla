----------------------------- MODULE MCRestore -----------------------------
(* Instances of CounterClient, and with it of Restore, for TLC.            *)
EXTENDS CounterClient, TLC

CONSTANTS a, b

OneScript == {{a, b}}      \* local_mesh.sh: run_restore.sh <id> a b
Hosts     == <<a, b>>
=============================================================================

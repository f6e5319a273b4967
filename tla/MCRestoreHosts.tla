--------------------------- MODULE MCRestoreHosts ---------------------------
(* Restore with one run_restore.sh per host (RUNBOOK.md), for TLC.         *)
EXTENDS Restore, TLC

CONSTANTS a, b

TwoScripts == {{a}, {b}}
=============================================================================

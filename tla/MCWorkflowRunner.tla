------------------------- MODULE MCWorkflowRunner -------------------------
(* run() under every combination of settings: one queued execution, one  *)
(* subprocess execution whose worker may start two nested executions, or *)
(* two in-process executions under the workflow timeout settings unset,  *)
(* -1 (no timeout), 0 and a value above the maximum.                       *)
EXTENDS WorkflowRunner

CONSTANTS c1, c2
MCChildren == {c1, c2}
MCSettings == {-1, 0, 3}
=============================================================================

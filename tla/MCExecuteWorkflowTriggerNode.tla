------------------- MODULE MCExecuteWorkflowTriggerNode -------------------
(* Two items, one field name declared at most twice, with a type that     *)
(* accepts anything and one that validates.                                *)
EXTENDS ExecuteWorkflowTriggerNode
=============================================================================

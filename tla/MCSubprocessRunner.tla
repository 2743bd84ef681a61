------------------------- MODULE MCSubprocessRunner -------------------------
(* One subprocess execution whose worker may start two nested executions. *)
EXTENDS SubprocessRunner

CONSTANTS c1, c2
MCChildren == {c1, c2}
=============================================================================

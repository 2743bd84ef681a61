-------------------------- MODULE MCRunnerWsServer --------------------------
(* Instances of RunnerWsServer: sockets opened by runners that share a      *)
(* runner id (a runner reconnecting while its old socket is still there).   *)
EXTENDS RunnerWsServer

CONSTANTS k1, k2, r1

\* Two sockets of runner r1.
MCConnsPair == {k1, k2}
MCIdOfPair == [k \in MCConnsPair |-> r1]
=============================================================================

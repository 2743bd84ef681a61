------------------------ MODULE MCConcurrencyControl ------------------------
(* Model-checking instance: four throttled executions (two webhook, two   *)
(* trigger) compete for a production limit of 2, beside one manual         *)
(* execution that bypasses the queue and one of an unknown mode.  A run    *)
(* either never shuts down (Normal) or may call removeAll at any moment    *)
(* (Shutdown): the variable shutdownPath picks which instance steps, the   *)
(* other keeps its initial state.                                          *)
EXTENDS Naturals

CONSTANTS w1, w2, t1, t2, m1, u1, ProductionLimit, ExecutionsMode

MCExecutions == {w1, w2, t1, t2, m1, u1}

MCModeOf ==
  [e \in MCExecutions |->
     CASE e \in {w1, w2} -> "webhook"
       [] e \in {t1, t2}  -> "trigger"
       [] e = m1         -> "manual"
       [] e = u1         -> "evaluation"]

MCResponsePromise == {w1, t1}

VARIABLES
  shutdownPath,
  nStatus, nCapacity, nQueue, nStartedAtReset, nCanceledInDb, nDrained,
  sStatus, sCapacity, sQueue, sStartedAtReset, sCanceledInDb, sDrained

Normal == INSTANCE ConcurrencyControl WITH
  Executions <- MCExecutions, ModeOf <- MCModeOf,
  ResponsePromise <- MCResponsePromise, WithShutdown <- FALSE,
  status <- nStatus, capacity <- nCapacity, queue <- nQueue,
  startedAtReset <- nStartedAtReset, canceledInDb <- nCanceledInDb,
  drained <- nDrained

Shutdown == INSTANCE ConcurrencyControl WITH
  Executions <- MCExecutions, ModeOf <- MCModeOf,
  ResponsePromise <- MCResponsePromise, WithShutdown <- TRUE,
  status <- sStatus, capacity <- sCapacity, queue <- sQueue,
  startedAtReset <- sStartedAtReset, canceledInDb <- sCanceledInDb,
  drained <- sDrained

nVars == <<nStatus, nCapacity, nQueue, nStartedAtReset, nCanceledInDb, nDrained>>
sVars == <<sStatus, sCapacity, sQueue, sStartedAtReset, sCanceledInDb, sDrained>>
vars == <<shutdownPath, nVars, sVars>>

Init == shutdownPath \in BOOLEAN /\ Normal!Init /\ Shutdown!Init

Next ==
  \/ ~shutdownPath /\ Normal!Next /\ UNCHANGED <<shutdownPath, sVars>>
  \/ shutdownPath /\ Shutdown!Next /\ UNCHANGED <<shutdownPath, nVars>>

Fairness ==
  \A e \in MCExecutions :
    /\ WF_vars(~shutdownPath /\ Normal!Release(e) /\ UNCHANGED <<shutdownPath, sVars>>)
    /\ WF_vars(shutdownPath /\ Shutdown!Release(e) /\ UNCHANGED <<shutdownPath, nVars>>)

Spec == Init /\ [][Next]_vars /\ Fairness

(* Without shutdown, the service's state keeps its type (capacity within  *)
(* 0..limit).  With shutdown, a remove of a drained id counts as a dequeue *)
(* and takes capacity above the limit, so only the other paths are typed.  *)
TypeOK == Normal!TypeOK

(* Without shutdown, never more webhook or trigger executions run than the *)
(* production limit, whatever order throttle, release and remove come in.  *)
AdmissionBound == Normal!AdmissionBound

(* On both paths, every waiting execution eventually runs unless shutdown  *)
(* drained the wait line first.                                            *)
WaitersEventuallyRun == Normal!WaitersEventuallyRun /\ Shutdown!WaitersEventuallyRun

=============================================================================

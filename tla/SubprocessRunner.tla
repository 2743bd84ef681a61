--------------------------- MODULE SubprocessRunner ---------------------------
(***************************************************************************)
(* WorkflowRunner.runSubprocess (src/packages/cli/src/WorkflowRunner.ts):  *)
(* the main process forks a worker process for one execution, arms the     *)
(* execution timeout, and reacts to the worker's IPC messages and to its   *)
(* 'exit' event.  Every handler is a step of the main process's event      *)
(* loop; an async handler is split at each await where other events may    *)
(* run.  The worker (WorkflowRunnerProcess, not part of the repository) is *)
(* the environment: it sends any sequence of the messages of spec 4.4 the  *)
(* protocol allows and may crash at any moment.                            *)
(***************************************************************************)
EXTENDS Integers, Sequences, SequencesExt

CONSTANTS
  Parent,      \* the execution id runSubprocess registers
  Children,    \* ids of nested executions the worker may start
  TimeoutSet   \* the resolved workflowTimeout is > 0

ASSUME Parent \notin Children
ASSUME TimeoutSet \in BOOLEAN

Outcomes == {"end", "processError", "timeout", "crash", "unknown", "childResult"}

VARIABLES
  registry, result,  \* ActiveExecutions
  afterHooks,        \* calls of 'workflowExecuteAfter' on the main-side workflowHooks
  timer,             \* executionTimeout: "none", "stop" (processTimeoutFunction) or "kill"
  stopRequested,     \* stopExecution(executionId, 'timeout') was sent to the worker
  killed,            \* subprocess.kill() was called
  toParent,          \* IPC messages from the worker not yet handled
  childPhase,        \* worker: "forked", "started", "reported", "exited"
  exitSignal,        \* how the worker exited: "none", "code0", "code1", "SIGTERM"
  hookSent,          \* worker relayed its 'workflowExecuteAfter' hook
  nested,            \* worker's view of each nested execution
  childExecutionIds, \* the main process's list of outstanding nested executions
  pendingAdd,        \* 'startExecution' handlers suspended in activeExecutions.add
  exitPc,            \* 'exit' handler: "idle", "loop" (over childExecutionIds), "done"
  exitIdx            \* next index of childExecutionIds the exit loop visits

vars == <<registry, result, afterHooks, timer, stopRequested, killed, toParent,
          childPhase, exitSignal, hookSent, nested, childExecutionIds,
          pendingAdd, exitPc, exitIdx>>

Registry == INSTANCE ActiveExecutions WITH Ids <- {Parent} \cup Children,
                                           NoOutcome <- "none"

Messages ==
  [type : {"start", "end", "processError", "timeout"}] \cup
  [type : {"processHook"}, hook : {"workflowExecuteAfter"}] \cup
  [type : {"startExecution", "finishExecution"}, id : Children]

Msg(t) == [type |-> t]

-----------------------------------------------------------------------------
(* Main process.                                                           *)

Init ==
  /\ Registry!Init
  /\ afterHooks = 0
  /\ timer = "none"
  /\ stopRequested = FALSE
  /\ killed = FALSE
  /\ toParent = <<>>
  /\ childPhase = "unforked"
  /\ exitSignal = "none"
  /\ hookSent = FALSE
  /\ nested = [c \in Children |-> "idle"]
  /\ childExecutionIds = <<>>
  /\ pendingAdd = {}
  /\ exitPc = "idle"
  /\ exitIdx = 1

(* processError(error, ..., hooks?): remove the execution with failed run *)
(* data, then run 'workflowExecuteAfter' when hooks were passed.           *)
processError(kind, withHooks) ==
  /\ Registry!Remove(Parent, kind)
  /\ afterHooks' = IF withHooks THEN afterHooks + 1 ELSE afterHooks

(* runSubprocess up to its return: fork, register the execution, send     *)
(* 'startWorkflow', arm the first processTimeoutFunction timer (at least   *)
(* 5 s, to let the process start) and attach the listeners.               *)
RunSubprocess ==
  /\ childPhase = "unforked"
  /\ Registry!Add(Parent)
  /\ childPhase' = "forked"
  /\ timer' = IF TimeoutSet THEN "stop" ELSE "none"
  /\ UNCHANGED <<afterHooks, stopRequested, killed, toParent, exitSignal,
                 hookSent, nested, childExecutionIds, pendingAdd, exitPc, exitIdx>>

(* The 'startWorkflow' send throws: processError and return, before any   *)
(* timer or listener exists.  The forked process is never heard of again. *)
RunSubprocessSendFails ==
  /\ childPhase = "unforked"
  /\ registry' = [registry EXCEPT ![Parent] = "removed"]
  /\ result' = [result EXCEPT ![Parent] = "processError"]
  /\ afterHooks' = afterHooks + 1
  /\ childPhase' = "exited"
  /\ exitPc' = "done"
  /\ UNCHANGED <<timer, stopRequested, killed, toParent, exitSignal, hookSent,
                 nested, childExecutionIds, pendingAdd, exitIdx>>

\* The message handler consumes the oldest message m.
Receive(m) == toParent # <<>> /\ Head(toParent) = m /\ toParent' = Tail(toParent)

UnchangedWorker == UNCHANGED <<childPhase, exitSignal, hookSent, nested, killed, stopRequested>>

(* 'start': the worker is running; re-arm the timeout from now.           *)
OnStart ==
  /\ Receive(Msg("start"))
  /\ timer' = IF TimeoutSet THEN "stop" ELSE timer
  /\ UNCHANGED <<registry, result, afterHooks, childExecutionIds, pendingAdd,
                 exitPc, exitIdx>>
  /\ UnchangedWorker

(* 'end': clear the timeout and remove the execution with its run data.   *)
OnEnd ==
  /\ Receive(Msg("end"))
  /\ timer' = "none"
  /\ Registry!Remove(Parent, "end")
  /\ UNCHANGED <<afterHooks, childExecutionIds, pendingAdd, exitPc, exitIdx>>
  /\ UnchangedWorker

(* 'processError': clear the timeout, processError with the hooks.        *)
OnProcessError ==
  /\ Receive(Msg("processError"))
  /\ timer' = "none"
  /\ processError("processError", TRUE)
  /\ UNCHANGED <<childExecutionIds, pendingAdd, exitPc, exitIdx>>
  /\ UnchangedWorker

(* 'processHook': run the relayed hook on the main-side workflowHooks.    *)
OnProcessHook ==
  /\ Receive([type |-> "processHook", hook |-> "workflowExecuteAfter"])
  /\ afterHooks' = afterHooks + 1
  /\ UNCHANGED <<registry, result, timer, childExecutionIds, pendingAdd,
                 exitPc, exitIdx>>
  /\ UnchangedWorker

(* 'timeout': the worker timed out; processError without hooks.  The     *)
(* timer is left armed.                                                    *)
OnTimeout ==
  /\ Receive(Msg("timeout"))
  /\ processError("timeout", FALSE)
  /\ UNCHANGED <<timer, childExecutionIds, pendingAdd, exitPc, exitIdx>>
  /\ UnchangedWorker

(* 'startExecution', up to its await: activeExecutions.add registers the  *)
(* nested execution.                                                       *)
OnStartExecution(c) ==
  /\ Receive([type |-> "startExecution", id |-> c])
  /\ Registry!Add(c)
  /\ pendingAdd' = pendingAdd \cup {c}
  /\ UNCHANGED <<afterHooks, timer, childExecutionIds, exitPc, exitIdx>>
  /\ UnchangedWorker

(* 'startExecution', after add resolved: remember the id and send it to   *)
(* the worker (a worker that has exited never receives it).                *)
StartExecutionResume(c) ==
  /\ c \in pendingAdd
  /\ pendingAdd' = pendingAdd \ {c}
  /\ childExecutionIds' = Append(childExecutionIds, c)
  /\ nested' = IF childPhase # "exited" THEN [nested EXCEPT ![c] = "known"] ELSE nested
  /\ UNCHANGED <<registry, result, afterHooks, timer, stopRequested, killed,
                 toParent, childPhase, exitSignal, hookSent, exitPc, exitIdx>>

(* 'finishExecution': forget the id and remove the nested execution.      *)
OnFinishExecution(c) ==
  /\ Receive([type |-> "finishExecution", id |-> c])
  /\ childExecutionIds' = RemoveFirst(childExecutionIds, c)
  /\ Registry!Remove(c, "childResult")
  /\ UNCHANGED <<afterHooks, timer, pendingAdd, exitPc, exitIdx>>
  /\ UnchangedWorker

(* processTimeoutFunction: stopExecution(executionId, 'timeout') and arm  *)
(* the kill timer (20% of the timeout, at least 5 s).  Stopping an id the *)
(* registry no longer holds does nothing.                                  *)
TimeoutFires ==
  /\ timer = "stop"
  /\ timer' = "kill"
  /\ stopRequested' = (stopRequested \/ Registry!IsActive(Parent))
  /\ UNCHANGED <<registry, result, afterHooks, killed, toParent, childPhase,
                 exitSignal, hookSent, nested, childExecutionIds, pendingAdd,
                 exitPc, exitIdx>>

(* The kill timer: subprocess.kill() sends SIGTERM.                        *)
KillTimerFires ==
  /\ timer = "kill"
  /\ timer' = "none"
  /\ killed' = TRUE
  /\ UNCHANGED <<registry, result, afterHooks, stopRequested, toParent,
                 childPhase, exitSignal, hookSent, nested, childExecutionIds,
                 pendingAdd, exitPc, exitIdx>>

OnExit ==
  /\ childPhase = "exited" /\ exitPc = "idle" /\ toParent = <<>>
  /\ exitPc' = "loop"
  /\ CASE exitSignal = "SIGTERM" -> processError("timeout", TRUE)
       [] exitSignal = "code1"   -> processError("crash", TRUE)
       [] OTHER                  -> UNCHANGED <<registry, result, afterHooks>>
  /\ UNCHANGED <<timer, toParent, childExecutionIds, pendingAdd, exitIdx>>
  /\ UnchangedWorker

(* 'exit', the loop over childExecutionIds: each outstanding nested       *)
(* execution is removed with unknown data (one await per id); then the    *)
(* timeout is cleared.                                                     *)
ExitLoop ==
  /\ exitPc = "loop"
  /\ IF exitIdx <= Len(childExecutionIds)
     THEN /\ Registry!Remove(childExecutionIds[exitIdx], "unknown")
          /\ exitIdx' = exitIdx + 1
          /\ UNCHANGED <<timer, exitPc>>
     ELSE /\ timer' = "none"
          /\ exitPc' = "done"
          /\ UNCHANGED <<registry, result, exitIdx>>
  /\ UNCHANGED <<afterHooks, toParent, childExecutionIds, pendingAdd>>
  /\ UnchangedWorker

-----------------------------------------------------------------------------
(* The worker process (environment, spec 4.4).                             *)

Alive == childPhase \in {"forked", "started", "reported"}
Send(m) == toParent' = Append(toParent, m)
UnchangedMain == UNCHANGED <<registry, result, afterHooks, timer, stopRequested,
                             killed, childExecutionIds, pendingAdd, exitPc, exitIdx>>

WorkerStart ==
  /\ childPhase = "forked"
  /\ childPhase' = "started"
  /\ Send(Msg("start"))
  /\ UNCHANGED <<exitSignal, hookSent, nested>>
  /\ UnchangedMain

WorkerStartExecution(c) ==
  /\ childPhase = "started" /\ nested[c] = "idle"
  /\ nested' = [nested EXCEPT ![c] = "requested"]
  /\ Send([type |-> "startExecution", id |-> c])
  /\ UNCHANGED <<childPhase, exitSignal, hookSent>>
  /\ UnchangedMain

WorkerFinishExecution(c) ==
  /\ childPhase = "started" /\ nested[c] = "known"
  /\ nested' = [nested EXCEPT ![c] = "finished"]
  /\ Send([type |-> "finishExecution", id |-> c])
  /\ UNCHANGED <<childPhase, exitSignal, hookSent>>
  /\ UnchangedMain

\* The worker relays its own 'workflowExecuteAfter' hook to the main process.
WorkerHook ==
  /\ childPhase = "started" /\ ~hookSent
  /\ hookSent' = TRUE
  /\ Send([type |-> "processHook", hook |-> "workflowExecuteAfter"])
  /\ UNCHANGED <<childPhase, exitSignal, nested>>
  /\ UnchangedMain

\* The worker's one final report: its run data ('end', also after a stop
\* request), a failure ('processError') or its own timeout ('timeout').
WorkerReport(t) ==
  /\ childPhase \in {"forked", "started"}
  /\ childPhase' = "reported"
  /\ Send(Msg(t))
  /\ UNCHANGED <<exitSignal, hookSent, nested>>
  /\ UnchangedMain

\* The worker exits: cleanly only after its final report; with a non-zero
\* code at any moment; by SIGTERM once killed.
WorkerExit(sig) ==
  /\ Alive
  /\ \/ sig = "code0" /\ childPhase = "reported"
     \/ sig = "code1"
     \/ sig = "SIGTERM" /\ killed
  /\ childPhase' = "exited"
  /\ exitSignal' = sig
  /\ UNCHANGED <<toParent, hookSent, nested>>
  /\ UnchangedMain

-----------------------------------------------------------------------------

MainStep ==
  \/ RunSubprocess \/ RunSubprocessSendFails
  \/ OnStart \/ OnEnd \/ OnProcessError \/ OnProcessHook \/ OnTimeout
  \/ \E c \in Children : OnStartExecution(c) \/ StartExecutionResume(c)
                         \/ OnFinishExecution(c)
  \/ TimeoutFires \/ KillTimerFires \/ OnExit \/ ExitLoop

WorkerStep ==
  \/ WorkerStart \/ WorkerHook
  \/ \E c \in Children : WorkerStartExecution(c) \/ WorkerFinishExecution(c)
  \/ \E t \in {"end", "processError", "timeout"} : WorkerReport(t)
  \/ \E sig \in {"code0", "code1", "SIGTERM"} : WorkerExit(sig)

\* Everything has happened that can: the exit handler is done.
Finished ==
  /\ exitPc = "done" /\ pendingAdd = {}
  /\ UNCHANGED vars

Next == MainStep \/ WorkerStep \/ Finished

(* The event loop runs every ready handler and timer; a killed worker     *)
(* exits.  Nothing forces the worker to make progress otherwise.          *)
Fairness ==
  /\ WF_vars(MainStep)
  /\ WF_vars(WorkerExit("SIGTERM"))

Spec == Init /\ [][Next]_vars /\ Fairness

-----------------------------------------------------------------------------
(* Properties.                                                             *)

TypeOK ==
  /\ Registry!TypeOK
  /\ afterHooks \in Nat
  /\ timer \in {"none", "stop", "kill"}
  /\ stopRequested \in BOOLEAN /\ killed \in BOOLEAN
  /\ toParent \in Seq(Messages)
  /\ childPhase \in {"unforked", "forked", "started", "reported", "exited"}
  /\ exitSignal \in {"none", "code0", "code1", "SIGTERM"}
  /\ hookSent \in BOOLEAN
  /\ nested \in [Children -> {"idle", "requested", "known", "finished"}]
  /\ childExecutionIds \in Seq(Children)
  /\ pendingAdd \subseteq Children
  /\ exitPc \in {"idle", "loop", "done"}
  /\ exitIdx \in Nat \ {0}

(* With an execution timeout configured, the execution is eventually      *)
(* removed from the registry whatever the worker does: the timeout, the   *)
(* kill timer, the 'exit' handler and the message handlers between them    *)
(* always produce a final run record.                                      *)
ParentEventuallyRemoved == <>(registry[Parent] = "removed")

(* When the 'exit' handler has finished and no 'startExecution' handler is *)
(* still suspended, no nested execution the worker started is left active *)
(* in the registry (spec 4.4: outstanding nested executions are marked     *)
(* finished, not left pending).                                            *)
NoOrphanedNestedExecution ==
  (exitPc = "done" /\ pendingAdd = {}) =>
    \A c \in Children : registry[c] # "active"

(* 'workflowExecuteAfter' runs at most once on the main-side hooks: a     *)
(* failure record is only synthesised when the worker did not already      *)
(* report one (spec 4.4).                                                  *)
AfterHookAtMostOnce == afterHooks <= 1

=============================================================================

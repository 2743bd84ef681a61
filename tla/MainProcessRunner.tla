-------------------------- MODULE MainProcessRunner --------------------------
(***************************************************************************)
(* WorkflowRunner.runMainProcess (src/packages/cli/src/WorkflowRunner.ts): *)
(* executions computed concurrently in the main process.  Each one's     *)
(* timeout is resolved from its workflow setting, the global default and *)
(* the global maximum; when positive, a timer calls                       *)
(* stopExecution(id, 'timeout'),                                          *)
(* which cancels the attached computation.  The computation (the         *)
(* WorkflowExecute PCancelable, not part of the repository) is the        *)
(* environment: it resolves with run data, or rejects; once canceled it   *)
(* stops after its current node, if that node ever returns.               *)
(***************************************************************************)
EXTENDS Integers

CONSTANTS
  Execs,           \* execution ids activeExecutions.add hands out
  Settings,        \* values workflow settings.executionTimeout may hold
  Unset,           \* no executionTimeout in the workflow settings
  DefaultTimeout,  \* config 'executions.timeout'
  MaxTimeout       \* config 'executions.maxTimeout'

ASSUME Settings \subseteq Int /\ Unset \notin Int
ASSUME DefaultTimeout \in Int /\ MaxTimeout \in Int

\* Math.min.
MinOf(a, b) == IF a < b THEN a ELSE b

(* The workflow setting replaces the default only when truthy; a positive *)
(* result is capped by the maximum.                                        *)
workflowTimeout(setting) ==
  LET t == IF setting # Unset /\ setting # 0 THEN setting ELSE DefaultTimeout
  IN IF t > 0 THEN MinOf(t, MaxTimeout) ELSE t

VARIABLES
  registry, result, \* ActiveExecutions
  setting,     \* execution -> its workflow's settings.executionTimeout
  pc,          \* runMainProcess: "init", "adding" (await add), "threw", "returned"
  comp,        \* the computation: "none", "running", "resolved", "rejected"
  canceled,    \* workflowExecution.isCanceled
  timer,       \* executionTimeout: "none", "armed", "fired", "cleared"
  afterHooks   \* workflowExecuteAfter calls made by processError, per execution

vars == <<registry, result, setting, pc, comp, canceled, timer, afterHooks>>

Outcomes == {"finished", "unfinished", "failed"}

Registry == INSTANCE ActiveExecutions WITH Ids <- Execs, NoOutcome <- "none"

Init ==
  /\ Registry!Init
  /\ setting \in [Execs -> Settings \cup {Unset}]
  /\ pc = [e \in Execs |-> "init"] /\ comp = [e \in Execs |-> "none"]
  /\ canceled = [e \in Execs |-> FALSE]
  /\ timer = [e \in Execs |-> "none"] /\ afterHooks = [e \in Execs |-> 0]

(* processError: remove with a failure record, then workflowExecuteAfter  *)
(* if hooks were built.                                                    *)
processError(e, withHooks) ==
  /\ Registry!Remove(e, "failed")
  /\ afterHooks' = IF withHooks THEN [afterHooks EXCEPT ![e] = @ + 1]
                   ELSE afterHooks

-----------------------------------------------------------------------------

\* Static data, getBase (with the timeout deadline), activeExecutions.add.
RunMainProcess(e) ==
  /\ pc[e] = "init"
  /\ Registry!Add(e)
  /\ pc' = [pc EXCEPT ![e] = "adding"]
  /\ UNCHANGED <<setting, comp, canceled, timer, afterHooks>>

\* The try block: hooks, WorkflowExecute.run / runPartialWorkflow /
\* processRunExecutionData, attachWorkflowExecution, the timeout timer when
\* workflowTimeout > 0 (Math.min with the maximum again), then/catch.
Started(e) ==
  /\ pc[e] = "adding"
  /\ pc' = [pc EXCEPT ![e] = "returned"]
  /\ comp' = [comp EXCEPT ![e] = "running"]
  /\ timer' = [timer EXCEPT ![e] =
                 IF workflowTimeout(setting[e]) > 0 THEN "armed" ELSE "none"]
  /\ UNCHANGED <<registry, result, setting, canceled, afterHooks>>

\* Something in the try block throws before the computation is attached:
\* processError with additionalData.hooks (unset if getWorkflowHooksMain
\* itself threw), then rethrow.
StartThrows(e, withHooks) ==
  /\ pc[e] = "adding"
  /\ processError(e, withHooks)
  /\ pc' = [pc EXCEPT ![e] = "threw"]
  /\ UNCHANGED <<setting, comp, canceled, timer>>

\* stopExecution(id): cancel the attached computation while it is
\* registered and pending; a no-op otherwise.
stopExecution(e) ==
  canceled' = [canceled EXCEPT ![e] =
                 @ \/ (Registry!IsActive(e) /\ comp[e] = "running")]

\* The timeout timer: stopExecution(executionId, 'timeout').
TimerFires(e) ==
  /\ timer[e] = "armed"
  /\ timer' = [timer EXCEPT ![e] = "fired"]
  /\ stopExecution(e)
  /\ UNCHANGED <<registry, result, setting, pc, comp, afterHooks>>

\* The computation resolves with run data (finished or not); then: clear
\* the timer, mark a canceled run unfinished, activeExecutions.remove.
CompResolves(e, ok) ==
  /\ comp[e] = "running"
  /\ comp' = [comp EXCEPT ![e] = "resolved"]
  /\ timer' = [timer EXCEPT ![e] = IF @ = "armed" THEN "cleared" ELSE @]
  /\ Registry!Remove(e, IF ok /\ ~canceled[e] THEN "finished" ELSE "unfinished")
  /\ UNCHANGED <<setting, pc, canceled, afterHooks>>

\* The computation rejects; catch: processError with the hooks (the timer
\* is left armed).
CompRejects(e) ==
  /\ comp[e] = "running"
  /\ comp' = [comp EXCEPT ![e] = "rejected"]
  /\ processError(e, TRUE)
  /\ UNCHANGED <<setting, pc, canceled, timer>>

\* A user's stop request (activeExecutions.stopExecution).
UserStop(e) ==
  /\ stopExecution(e) /\ canceled'[e] # canceled[e]
  /\ UNCHANGED <<registry, result, setting, pc, comp, timer, afterHooks>>

\* Nothing is left to happen.
Finished ==
  /\ \A e \in Execs :
       pc[e] \in {"threw", "returned"} /\ comp[e] # "running" /\ timer[e] # "armed"
  /\ UNCHANGED vars

Settles(e) == CompRejects(e) \/ \E ok \in BOOLEAN : CompResolves(e, ok)

Next ==
  \/ \E e \in Execs :
       \/ RunMainProcess(e) \/ Started(e) \/ \E h \in BOOLEAN : StartThrows(e, h)
       \/ TimerFires(e) \/ Settles(e) \/ UserStop(e)
  \/ Finished

(* The event loop runs the continuation after add and the timer callback. *)
(* The computation may never settle, canceled or not: the timeout is soft *)
(* and only stops the run after its current node, which may never return. *)
Fairness ==
  \A e \in Execs :
    /\ WF_vars(Started(e) \/ \E h \in BOOLEAN : StartThrows(e, h))
    /\ WF_vars(TimerFires(e))

Spec == Init /\ [][Next]_vars /\ Fairness

-----------------------------------------------------------------------------
(* Properties.                                                             *)

TypeOK ==
  /\ Registry!TypeOK
  /\ setting \in [Execs -> Settings \cup {Unset}]
  /\ pc \in [Execs -> {"init", "adding", "threw", "returned"}]
  /\ comp \in [Execs -> {"none", "running", "resolved", "rejected"}]
  /\ canceled \in [Execs -> BOOLEAN]
  /\ timer \in [Execs -> {"none", "armed", "fired", "cleared"}]
  /\ afterHooks \in [Execs -> 0..1]

=============================================================================

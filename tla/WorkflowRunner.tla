---------------------------- MODULE WorkflowRunner ----------------------------
(***************************************************************************)
(* WorkflowRunner.run() (src/WorkflowRunner.ts): the choice of the         *)
(* strategy that runs an execution, by the instance's execution settings  *)
(* and the execution's own mode, composed with the three strategies it    *)
(* dispatches to: runBull (BullRunner), runMainProcess (MainProcessRunner) *)
(* and runSubprocess (SubprocessRunner).  One call of run() takes exactly *)
(* one of them, so the composition is a disjoint union: the chosen        *)
(* strategy's variables evolve, the others stay in their initial state.   *)
(* The post-execute external hook run() attaches to the returned promise  *)
(* keeps no state and only logs its errors, so it is left out.           *)
(***************************************************************************)
EXTENDS Integers

CONSTANTS
  Exec, WatchdogEnabled, SaveSuccessNone, SaveErrorNone, \* BullRunner
  Parent, Children, TimeoutSet,                           \* SubprocessRunner
  Execs, Settings, Unset, DefaultTimeout, MaxTimeout      \* MainProcessRunner

\* config 'executions.mode', 'executions.process', and data.executionMode.
ExecutionsModes   == {"regular", "queue"}
ExecutionsProcesses == {"main", "own"}
ExecutionModes    == {"manual", "trigger"}

(* run(): queue mode sends every non-manual execution to Bull; otherwise  *)
(* 'executions.process' picks the main process or a forked subprocess.    *)
Strategy(executionsMode, executionsProcess, executionMode) ==
  IF executionsMode = "queue" /\ executionMode # "manual" THEN "bull"
  ELSE IF executionsProcess = "main" THEN "main"
  ELSE "subprocess"

VARIABLES
  strategy,   \* the branch run() took
  bRegistry, bResult, bPc, bJob, bFinishedEvt, bStopAsked, bWatchdog,
  bPromise, bCanceled, bCancelPc, bRecord,
  sRegistry, sResult, sAfterHooks, sTimer, sStopRequested, sKilled, sToParent,
  sChildPhase, sExitSignal, sHookSent, sNested, sChildExecutionIds,
  sPendingAdd, sExitPc, sExitIdx,
  mRegistry, mResult, mSetting, mPc, mComp, mCanceled, mTimer, mAfterHooks

B == INSTANCE BullRunner WITH
       registry <- bRegistry, result <- bResult, pc <- bPc, job <- bJob,
       finishedEvt <- bFinishedEvt, stopAsked <- bStopAsked,
       watchdog <- bWatchdog, promise <- bPromise, canceled <- bCanceled,
       cancelPc <- bCancelPc, record <- bRecord

S == INSTANCE SubprocessRunner WITH
       registry <- sRegistry, result <- sResult, afterHooks <- sAfterHooks,
       timer <- sTimer, stopRequested <- sStopRequested, killed <- sKilled,
       toParent <- sToParent, childPhase <- sChildPhase,
       exitSignal <- sExitSignal, hookSent <- sHookSent, nested <- sNested,
       childExecutionIds <- sChildExecutionIds, pendingAdd <- sPendingAdd,
       exitPc <- sExitPc, exitIdx <- sExitIdx

M == INSTANCE MainProcessRunner WITH
       registry <- mRegistry, result <- mResult, setting <- mSetting,
       pc <- mPc, comp <- mComp, canceled <- mCanceled, timer <- mTimer,
       afterHooks <- mAfterHooks

bVars == <<bRegistry, bResult, bPc, bJob, bFinishedEvt, bStopAsked, bWatchdog,
           bPromise, bCanceled, bCancelPc, bRecord>>
sVars == <<sRegistry, sResult, sAfterHooks, sTimer, sStopRequested, sKilled,
           sToParent, sChildPhase, sExitSignal, sHookSent, sNested,
           sChildExecutionIds, sPendingAdd, sExitPc, sExitIdx>>
mVars == <<mRegistry, mResult, mSetting, mPc, mComp, mCanceled, mTimer,
           mAfterHooks>>
vars == <<strategy, bVars, sVars, mVars>>

(* Every combination of settings is possible; the strategies not taken    *)
(* keep their initial state (the main one with no timeout setting read).  *)
Init ==
  /\ \E em \in ExecutionsModes, ep \in ExecutionsProcesses, xm \in ExecutionModes :
       strategy = Strategy(em, ep, xm)
  /\ B!Init /\ S!Init /\ M!Init
  /\ strategy # "main" => mSetting = [e \in Execs |-> Unset]

\* A step of the strategy run() took.
Bull(A)       == strategy = "bull" /\ A /\ UNCHANGED <<strategy, sVars, mVars>>
Subprocess(A) == strategy = "subprocess" /\ A /\ UNCHANGED <<strategy, bVars, mVars>>
Main(A)       == strategy = "main" /\ A /\ UNCHANGED <<strategy, bVars, sVars>>

Next == Bull(B!Next) \/ Subprocess(S!Next) \/ Main(M!Next)

(* The fairness of each strategy, for the steps it takes when chosen.     *)
Fairness ==
  /\ WF_vars(Bull(B!SubmitReturns)) /\ WF_vars(Bull(B!OnCompleted))
  /\ WF_vars(Bull(B!OnFailed)) /\ WF_vars(Bull(B!WatchdogFires))
  /\ WF_vars(Bull(B!ReadRecord)) /\ WF_vars(Bull(B!DeleteDone))
  /\ WF_vars(Bull(B!StopJobDone)) /\ WF_vars(Bull(B!JobStart))
  /\ WF_vars(Bull(B!JobEnds))
  /\ WF_vars(Subprocess(S!MainStep))
  /\ WF_vars(Subprocess(S!WorkerExit("SIGTERM")))
  /\ \A e \in Execs :
       /\ WF_vars(Main(M!Started(e) \/ \E h \in BOOLEAN : M!StartThrows(e, h)))
       /\ WF_vars(Main(M!TimerFires(e)))

Spec == Init /\ [][Next]_vars /\ Fairness

-----------------------------------------------------------------------------
(* Properties: those of each strategy, for the executions run() gives it. *)

TypeOK ==
  /\ strategy \in {"bull", "subprocess", "main"}
  /\ B!TypeOK /\ S!TypeOK /\ M!TypeOK

(* Queue mode: an execution runBull hands to the queue is eventually     *)
(* removed from the registry, also when the job's completion event is lost.*)
BullEventuallyRemoved == B!EventuallyRemoved

(* Queue mode: runBull's watchdog interval does not poll forever.         *)
BullWatchdogEventuallyCleared == B!WatchdogEventuallyCleared

=============================================================================

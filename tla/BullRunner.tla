----------------------------- MODULE BullRunner -----------------------------
(***************************************************************************)
(* WorkflowRunner.runBull (src/packages/cli/src/WorkflowRunner.ts): in    *)
(* queue mode one execution is registered, handed to the Bull queue as a  *)
(* job, and awaited through a PCancelable whose executor races the job's  *)
(* finished() promise against a watchdog that polls the queue.  Each await *)
(* of the main process is a step boundary.                                 *)
(*                                                                         *)
(* Not part of the repository, and modelled from their contracts: the     *)
(* registry (ActiveExecutions), the Bull queue and the worker that runs   *)
(* the job (the environment: it starts the job, saves the execution record *)
(* and completes or fails the job, whose event may be lost), Queue.stopJob *)
(* (remove a waiting job, ask an active one to stop) and PCancelable       *)
(* (cancel() runs the onCancel handler only while pending; settle-once).   *)
(***************************************************************************)
EXTENDS Integers

CONSTANTS
  Exec,             \* the execution id activeExecutions.add hands out
  WatchdogEnabled,  \* config 'queue.bull.queueRecoveryInterval' > 0
  SaveSuccessNone,  \* resolved saveDataSuccessExecution is 'none'
  SaveErrorNone     \* resolved saveDataErrorExecution is 'none'

ASSUME WatchdogEnabled \in BOOLEAN /\ SaveSuccessNone \in BOOLEAN
ASSUME SaveErrorNone \in BOOLEAN

(* The execution record in the database, as far as the properties tell it *)
(* apart: as created by add, as saved by the worker, as saved by the       *)
(* workflowExecuteAfter hook of a processError call, or deleted.          *)
Records == {"new", "success", "error", "failed", "canceled", "deleted"}

VARIABLES
  registry, result, \* ActiveExecutions
  pc,           \* runBull: "init", "adding" (await jobQueue.add), "threw",
                \* "racing" (await Promise.race), "reading" (await findOne),
                \* "deleting" (await delete), "done"
  job,          \* the Bull job: "none", "waiting", "active", "gone" (removed)
  finishedEvt,  \* the job's completion event: "none", "completed", "failed"
                \* (on its way to job.finished()), "lost"
  stopAsked,    \* Queue.stopJob asked the active job to stop (progress -1)
  watchdog,     \* the watchdog interval: "off", "armed", "cleared"
  promise,      \* the PCancelable: "none" (not attached), "pending",
                \* "resolved", "rejected"
  canceled,     \* cancel() ran the onCancel handler
  cancelPc,     \* onCancel handler: "idle", "stopping" (await stopJob), "done"
  record        \* the execution record (Records)

vars == <<registry, result, pc, job, finishedEvt, stopAsked, watchdog, promise,
          canceled, cancelPc, record>>

Registry == INSTANCE ActiveExecutions WITH
              Ids <- {Exec}, NoOutcome <- "none",
              Outcomes <- Records \ {"deleted"}

Init ==
  /\ Registry!Init
  /\ pc = "init" /\ job = "none" /\ finishedEvt = "none" /\ stopAsked = FALSE
  /\ watchdog = "off" /\ promise = "none" /\ canceled = FALSE
  /\ cancelPc = "idle" /\ record = "new"

(* processError(error, ..., hooks) with the worker-executer hooks:        *)
(* activeExecutions.remove with a failure record, then workflowExecuteAfter, *)
(* which saves that record.                                                *)
processError(kind) ==
  /\ Registry!Remove(Exec, kind)
  /\ record' = kind

(* PCancelable's resolve/reject: only the first call settles it.          *)
Settle(p) == promise' = IF promise = "pending" THEN p ELSE promise

-----------------------------------------------------------------------------
(* runBull.                                                                *)

\* activeExecutions.add, then jobQueue.add is sent (the job exists in Redis
\* and a worker may take it before the await returns).
RunBull ==
  /\ pc = "init"
  /\ Registry!Add(Exec)
  /\ pc' = "adding" /\ job' = "waiting"
  /\ UNCHANGED <<finishedEvt, stopAsked, watchdog, promise, canceled, cancelPc,
                 record>>

\* jobQueue.add throws: processError with the executer hooks, then rethrow.
SubmitFails ==
  /\ pc = "adding"
  /\ processError("failed")
  /\ pc' = "threw" /\ job' = "none"
  /\ UNCHANGED <<finishedEvt, stopAsked, watchdog, promise, canceled, cancelPc>>

\* jobQueue.add resolved: workflowExecuteBefore, then the PCancelable's
\* executor up to its first await (onCancel, job.finished(), the watchdog
\* interval, Promise.race), then attachWorkflowExecution.  A completion
\* event published before job.finished() subscribed is missed.
Submitted ==
  /\ pc = "adding"
  /\ pc' = "racing" /\ promise' = "pending"
  /\ watchdog' = IF WatchdogEnabled THEN "armed" ELSE "off"
  /\ finishedEvt' = IF job = "gone" THEN "lost" ELSE finishedEvt
  /\ UNCHANGED <<registry, result, job, stopAsked, canceled, cancelPc,
                 record>>

\* clearWatchdogInterval().
Cleared == IF watchdog = "armed" THEN "cleared" ELSE watchdog

\* Variant of the completion path that does not clear the watchdog.
OnCompleted_keepWatchdog ==
  /\ pc = "racing" /\ finishedEvt = "completed"
  /\ finishedEvt' = "none" /\ pc' = "reading"
  /\ UNCHANGED <<registry, result, job, stopAsked, promise, canceled, cancelPc,
                 record, watchdog>>

\* job.finished() resolves first: clear the watchdog, go on to findOne.
OnCompleted ==
  /\ pc = "racing" /\ finishedEvt = "completed"
  /\ finishedEvt' = "none" /\ pc' = "reading" /\ watchdog' = Cleared
  /\ UNCHANGED <<registry, result, job, stopAsked, promise, canceled, cancelPc,
                 record>>

\* A watchdog tick whose getJob returns null resolves the race.
WatchdogFires ==
  /\ pc = "racing" /\ watchdog = "armed" /\ job = "gone"
  /\ pc' = "reading" /\ watchdog' = Cleared
  /\ UNCHANGED <<registry, result, job, finishedEvt, stopAsked, promise,
                 canceled, cancelPc, record>>

\* job.finished() rejects: the catch clears the watchdog, runs processError
\* and rejects, and (having no return) goes on to findOne.
OnFailed ==
  /\ pc = "racing" /\ finishedEvt = "failed"
  /\ finishedEvt' = "none" /\ watchdog' = Cleared
  /\ processError("failed")
  /\ Settle("rejected")
  /\ pc' = "reading"
  /\ UNCHANGED <<job, stopAsked, canceled, cancelPc>>

\* Variant of the completion path that omits activeExecutions.remove.
ReadRecord_noRemove ==
  /\ pc = "reading"
  /\ LET succeeded == record \notin {"error", "failed", "canceled"}
         drop == (succeeded /\ SaveSuccessNone) \/ (~succeeded /\ SaveErrorNone)
     IN IF drop THEN pc' = "deleting" /\ UNCHANGED promise
        ELSE pc' = "done" /\ Settle("resolved")
  /\ UNCHANGED <<registry, result, job, finishedEvt, stopAsked, watchdog,
                 canceled, cancelPc, record>>

\* After the race: findOne, activeExecutions.remove with the record as run
\* data, workflowExecuteAfter on the worker-main hooks (which push to the
\* editor and save nothing), then the save policy: delete the record, or
\* resolve.
ReadRecord ==
  /\ pc = "reading"
  /\ Registry!Remove(Exec, record)
  /\ LET succeeded == record \notin {"error", "failed", "canceled"}
         drop == (succeeded /\ SaveSuccessNone) \/ (~succeeded /\ SaveErrorNone)
     IN IF drop THEN pc' = "deleting" /\ UNCHANGED promise
        ELSE pc' = "done" /\ Settle("resolved")
  /\ UNCHANGED <<job, finishedEvt, stopAsked, watchdog, canceled, cancelPc, record>>

\* Execution.delete returned: resolve(runData).
DeleteDone ==
  /\ pc = "deleting"
  /\ pc' = "done" /\ record' = "deleted" /\ Settle("resolved")
  /\ UNCHANGED <<registry, result, job, finishedEvt, stopAsked, watchdog,
                 canceled, cancelPc>>

\* activeExecutions.stopExecution cancels the attached PCancelable: while it
\* is pending, cancel() runs the onCancel handler up to `await stopJob(job)`.
Cancel ==
  /\ promise = "pending" /\ ~canceled
  /\ canceled' = TRUE /\ cancelPc' = "stopping"
  /\ UNCHANGED <<registry, result, pc, job, finishedEvt, stopAsked, watchdog,
                 promise, record>>

\* Queue.stopJob returned (a waiting job was removed, an active one asked to
\* stop); processError with the canceled error, then reject(error).
StopJobDone ==
  /\ cancelPc = "stopping"
  /\ job' = IF job = "waiting" THEN "gone" ELSE job
  /\ stopAsked' = (job = "active" \/ stopAsked)
  /\ processError("canceled")
  /\ Settle("rejected")
  /\ cancelPc' = "done"
  /\ UNCHANGED <<pc, finishedEvt, watchdog, canceled>>

-----------------------------------------------------------------------------
(* The environment: a worker and the queue's events.                       *)

\* A worker takes the job.
JobStart ==
  /\ job = "waiting"
  /\ job' = "active"
  /\ UNCHANGED <<registry, result, pc, finishedEvt, stopAsked, watchdog,
                 promise, canceled, cancelPc, record>>

\* The job's processor returned after the worker saved the execution
\* (removeOnComplete); its 'completed' event may be lost.
JobComplete(rec, lost) ==
  /\ job = "active"
  /\ job' = "gone" /\ record' = rec
  /\ finishedEvt' = IF lost THEN "lost" ELSE "completed"
  /\ UNCHANGED <<registry, result, pc, stopAsked, watchdog, promise, canceled,
                 cancelPc>>

\* The job's processor threw (removeOnFail); its 'failed' event may be lost.
JobFail(lost) ==
  /\ job = "active"
  /\ job' = "gone"
  /\ finishedEvt' = IF lost THEN "lost" ELSE "failed"
  /\ UNCHANGED <<registry, result, pc, stopAsked, watchdog, promise, canceled,
                 cancelPc, record>>

\* Every awaited call has returned and the job is gone: nothing is left.
Finished ==
  /\ pc \in {"done", "threw"} /\ job \in {"none", "gone"}
  /\ cancelPc # "stopping"
  /\ UNCHANGED vars

SubmitReturns == SubmitFails \/ Submitted

JobEnds == \E lost \in BOOLEAN :
             JobFail(lost) \/ \E rec \in {"success", "error"} : JobComplete(rec, lost)

Next ==
  \/ RunBull \/ SubmitReturns \/ OnCompleted \/ WatchdogFires \/ OnFailed
  \/ ReadRecord \/ DeleteDone \/ Cancel \/ StopJobDone
  \/ JobStart \/ JobEnds
  \/ Finished

(* The event loop runs every ready continuation and interval callback, and *)
(* Redis answers every call; a worker eventually takes and ends the job.   *)
(* Nobody is forced to cancel.                                             *)
Fairness ==
  /\ WF_vars(SubmitReturns) /\ WF_vars(OnCompleted) /\ WF_vars(OnFailed)
  /\ WF_vars(WatchdogFires) /\ WF_vars(ReadRecord) /\ WF_vars(DeleteDone)
  /\ WF_vars(StopJobDone) /\ WF_vars(JobStart) /\ WF_vars(JobEnds)

Spec == Init /\ [][Next]_vars /\ Fairness

-----------------------------------------------------------------------------
(* Properties.                                                             *)

TypeOK ==
  /\ Registry!TypeOK
  /\ pc \in {"init", "adding", "threw", "racing", "reading", "deleting", "done"}
  /\ job \in {"none", "waiting", "active", "gone"}
  /\ finishedEvt \in {"none", "completed", "failed", "lost"}
  /\ stopAsked \in BOOLEAN /\ canceled \in BOOLEAN
  /\ watchdog \in {"off", "armed", "cleared"}
  /\ promise \in {"none", "pending", "resolved", "rejected"}
  /\ cancelPc \in {"idle", "stopping", "done"}
  /\ record \in Records

(* An execution handed to the queue is eventually removed from the        *)
(* registry (its post-execute promise resolves), also when the job's      *)
(* completion event is lost or published before job.finished() listened:  *)
(* the watchdog's getJob poll recovers it.                                 *)
EventuallyRemoved ==
  registry[Exec] = "active" ~> registry[Exec] = "removed"

(* The watchdog interval does not poll forever: whichever of completion,  *)
(* failure, cancellation or the watchdog itself ends the race, the interval *)
(* is eventually cleared.                                                  *)
WatchdogEventuallyCleared == <>[](watchdog # "armed")

====

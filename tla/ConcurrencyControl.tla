------------------------- MODULE ConcurrencyControl -------------------------
(***************************************************************************)
(* Production admission control: ConcurrencyControlService                 *)
(* (src/packages/cli/src/concurrency/concurrency-control.service.ts) in    *)
(* front of its ConcurrencyQueue.  The queue's source is not part of the   *)
(* repository; its operations (Enqueue, Dequeue, QueueRemove) follow the   *)
(* contract of spec section 4.1.  The callers of throttle, release and     *)
(* remove (the active-execution registry) are the environment: each        *)
(* execution is throttled once, and later either released after it ran    *)
(* or removed when it is abandoned.                                        *)
(***************************************************************************)
EXTENDS Integers, Sequences, FiniteSets, SequencesExt

CONSTANTS
  Executions,       \* execution ids (model values)
  ModeOf,           \* execution id -> WorkflowExecuteMode
  ProductionLimit,  \* config 'executions.concurrency.productionLimit'
  ExecutionsMode,   \* config 'executions.mode': "regular" or "queue"
  ResponsePromise,  \* executions that carry a pending response promise
  WithShutdown      \* whether behaviours include the shutdown path (removeAll)

\* The modes isUnlimited knows; any other mode makes it throw.
AlwaysUnlimited == {"error", "integrated", "cli", "internal", "manual", "retry"}
LimitedModes    == {"webhook", "trigger"}

ASSUME ProductionLimit \in Int
\* The constructor throws InvalidConcurrencyLimitError for a limit of 0: no
\* service, and hence no behaviour, exists for that configuration.
ASSUME ProductionLimit # 0
ASSUME ExecutionsMode \in {"regular", "queue"}
ASSUME ResponsePromise \subseteq Executions
ASSUME WithShutdown \in BOOLEAN

(* Constructor: limits below -1 are normalised to -1 (unlimited).          *)
productionLimit == IF ProductionLimit < -1 THEN -1 ELSE ProductionLimit

(* Constructor: disabled when unlimited or when Bull runs the executions.  *)
isEnabled == ~(productionLimit = -1 \/ ExecutionsMode = "queue")

(* isUnlimited throws UnknownExecutionModeError for any other mode.       *)
knownMode(mode) == mode \in AlwaysUnlimited \cup LimitedModes

(* isUnlimited(mode), for a known mode.                                    *)
isUnlimited(mode) ==
  mode \in AlwaysUnlimited \/ productionLimit = -1

\* The guard shared by throttle, release and remove: the call reaches the queue.
Gated(e) == isEnabled /\ knownMode(ModeOf[e]) /\ ~isUnlimited(ModeOf[e])

(* Lifecycle of an execution as the concurrency layer sees it.  "waiting" *)
(* is held in the wait line; "failed" is a throttle call that threw.       *)
Status == {"new", "waiting", "running", "finished", "removed", "failed"}

VARIABLES
  status,        \* execution -> Status
  capacity,      \* ConcurrencyQueue: free slots
  queue,         \* ConcurrencyQueue: FIFO wait line of execution ids
  startedAtReset,\* executions whose startedAt the 'execution-released' listener reset
  canceledInDb,  \* executions canceled by executionRepository.cancelMany
  drained        \* removeAll has run (shutdown)

vars == <<status, capacity, queue, startedAtReset, canceledInDb, drained>>

-----------------------------------------------------------------------------
(* ConcurrencyQueue (spec 4.1).                                            *)

\* Variant of enqueue that takes a slot without checking one is free.
Enqueue_unchecked(e) ==
  /\ capacity' = capacity - 1
  /\ status' = [status EXCEPT ![e] = "running"]
  /\ UNCHANGED queue

\* enqueue(id): take a free slot, or wait in line ('execution-throttled').
Enqueue(e) ==
  IF capacity > 0
  THEN /\ capacity' = capacity - 1
       /\ status' = [status EXCEPT ![e] = "running"]
       /\ UNCHANGED queue
  ELSE /\ queue' = Append(queue, e)
       /\ status' = [status EXCEPT ![e] = "waiting"]
       /\ UNCHANGED capacity

\* Variant of dequeue that frees the slot but never resolves the next waiter.
Dequeue_noResolve(st) ==
  /\ capacity' = capacity + 1
  /\ status' = st
  /\ UNCHANGED <<queue, startedAtReset>>

\* The service's 'execution-released' listener: the granted execution's
\* startedAt is reset to now in the database.
OnExecutionReleased(e) == startedAtReset' = startedAtReset \cup {e}

\* dequeue(): give one slot back; if someone waits, the head is granted it
\* and 'execution-released' is emitted.  st is the status function the
\* calling handler has already updated.
Dequeue(st) ==
  IF queue = <<>>
  THEN /\ capacity' = capacity + 1
       /\ status' = st
       /\ UNCHANGED <<queue, startedAtReset>>
  ELSE /\ status' = [st EXCEPT ![Head(queue)] = "running"]
       /\ queue' = Tail(queue)
       /\ OnExecutionReleased(Head(queue))
       /\ UNCHANGED capacity

\* remove(id): a waiting id leaves the line without touching capacity; an
\* id already granted a slot is treated as one dequeue.
QueueRemove(e, st) ==
  IF Contains(queue, e)
  THEN /\ queue' = Remove(queue, e)
       /\ status' = st
       /\ UNCHANGED <<capacity, startedAtReset>>
  ELSE Dequeue(st)

-----------------------------------------------------------------------------
(* ConcurrencyControlService.                                              *)

Init ==
  /\ status = [e \in Executions |-> "new"]
  /\ capacity = IF isEnabled THEN productionLimit ELSE 0
  /\ queue = <<>>
  /\ startedAtReset = {}
  /\ canceledInDb = {}
  /\ drained = FALSE

\* throttle({mode, executionId}): let through, throw, or enqueue.
Throttle(e) ==
  /\ status[e] = "new"
  /\ UNCHANGED <<startedAtReset, canceledInDb, drained>>
  /\ \/ /\ ~isEnabled \/ (knownMode(ModeOf[e]) /\ isUnlimited(ModeOf[e]))
        /\ status' = [status EXCEPT ![e] = "running"]
        /\ UNCHANGED <<capacity, queue>>
     \/ /\ isEnabled /\ ~knownMode(ModeOf[e])
        /\ status' = [status EXCEPT ![e] = "failed"]
        /\ UNCHANGED <<capacity, queue>>
     \/ /\ Gated(e)
        /\ Enqueue(e)

\* Variant of release without the isEnabled/isUnlimited gate.
Release_ungated(e) ==
  /\ status[e] = "running"
  /\ Dequeue([status EXCEPT ![e] = "finished"])
  /\ UNCHANGED <<canceledInDb, drained>>

\* release({mode}): the execution finished; give its slot back.
Release(e) ==
  /\ status[e] = "running"
  /\ LET st == [status EXCEPT ![e] = "finished"] IN
       IF Gated(e) THEN Dequeue(st)
       ELSE status' = st /\ UNCHANGED <<capacity, queue, startedAtReset>>
  /\ UNCHANGED <<canceledInDb, drained>>

\* remove({mode, executionId}): the execution is abandoned while waiting or
\* running.
RemoveExecution(e) ==
  /\ status[e] \in {"waiting", "running"}
  /\ LET st == [status EXCEPT ![e] = "removed"] IN
       IF Gated(e) THEN QueueRemove(e, st)
       ELSE status' = st /\ UNCHANGED <<capacity, queue, startedAtReset>>
  /\ UNCHANGED <<canceledInDb, drained>>

\* removeAll(activeExecutions): at shutdown, empty the wait line (remove on
\* each id of getAll()) and cancel in the database every execution whose
\* registry status is 'new' and that has a response promise.  The registry
\* (ActiveExecutions) is not in the repository: a throttled execution that
\* waits may or may not still be 'new' there, so either is allowed.
RemoveAll ==
  /\ WithShutdown /\ ~drained
  /\ drained' = TRUE
  /\ IF isEnabled
     THEN /\ queue' = <<>>
          /\ \E regNew \in SUBSET {e \in Executions : status[e] = "waiting"} :
               canceledInDb' = canceledInDb \cup
                 {e \in ResponsePromise : status[e] = "new" \/ e \in regNew}
     ELSE UNCHANGED <<queue, canceledInDb>>
  /\ UNCHANGED <<status, capacity, startedAtReset>>

\* Nothing is left to do: every execution is done, or waits on a line that
\* removeAll has emptied.
Quiescent ==
  /\ \A e \in Executions :
       status[e] \in {"finished", "removed", "failed"}
       \/ (drained /\ status[e] = "waiting")
  /\ UNCHANGED vars

Next ==
  \/ \E e \in Executions : Throttle(e) \/ Release(e) \/ RemoveExecution(e)
  \/ RemoveAll
  \/ Quiescent

(* A running execution eventually ends: the node executor returns, or the *)
(* execution timeout stops it.  Nothing forces throttle, remove or         *)
(* removeAll to be called.                                                 *)
Fairness == \A e \in Executions : WF_vars(Release(e))

Spec == Init /\ [][Next]_vars /\ Fairness

-----------------------------------------------------------------------------
(* Properties.                                                             *)

TypeOK ==
  /\ status \in [Executions -> Status]
  /\ capacity \in 0..(IF isEnabled THEN productionLimit ELSE 0)
  /\ queue \in Seq(Executions)
  /\ startedAtReset \subseteq Executions
  /\ canceledInDb \subseteq Executions
  /\ drained \in BOOLEAN

Running == {e \in Executions : status[e] = "running"}

(* Admission bound: while the service is enabled, never more webhook or   *)
(* trigger executions run than the production limit, whatever order       *)
(* throttle, release, remove and removeAll are called in.                  *)
AdmissionBound ==
  isEnabled =>
    Cardinality({e \in Running : Gated(e)}) <= productionLimit

(* Every throttled execution eventually runs, unless shutdown drained the *)
(* wait line first: a slot released by a finishing execution is never     *)
(* lost while someone waits.                                               *)
WaitersEventuallyRun ==
  \A e \in Executions :
    status[e] = "waiting" ~> (status[e] # "waiting" \/ drained)

=============================================================================

-------------------------- MODULE ActiveExecutions --------------------------
(***************************************************************************)
(* The process-wide table of in-flight executions (spec section 4.3).     *)
(* Its source is not part of the repository; the operators follow the    *)
(* spec's contract and are instantiated by the dispatcher modules.  An    *)
(* entry is "absent" before add, "active" while in flight and "removed"   *)
(* once remove recorded its final run data, which resolves the entry's     *)
(* post-execute promise exactly once: a second remove is a no-op.          *)
(***************************************************************************)
CONSTANTS
  Ids,        \* execution ids the registry may hand out
  Outcomes,   \* kinds of final run data
  NoOutcome   \* the result of an entry not yet removed

VARIABLES
  registry,   \* id -> "absent" | "active" | "removed"
  result      \* id -> the run data the post-execute promise resolved with

Init == registry = [i \in Ids |-> "absent"] /\ result = [i \in Ids |-> NoOutcome]

TypeOK ==
  /\ registry \in [Ids -> {"absent", "active", "removed"}]
  /\ result \in [Ids -> Outcomes \cup {NoOutcome}]

\* add(data, process?, restartId?): register id before its computation starts.
Add(i) ==
  /\ registry' = [registry EXCEPT ![i] = "active"]
  /\ UNCHANGED result

\* remove(id, runData): record the final state once; later calls do nothing.
Remove(i, r) ==
  IF registry[i] = "active"
  THEN /\ registry' = [registry EXCEPT ![i] = "removed"]
       /\ result' = [result EXCEPT ![i] = r]
  ELSE UNCHANGED <<registry, result>>

IsActive(i) == registry[i] = "active"
=============================================================================

\* A subprocess execution with a timeout: the worker reports its failure and
\* then exits, and 'workflowExecuteAfter' runs a second time.
CONSTANTS
  Parent = Parent
  c1 = c1
  c2 = c2
  Children <- MCChildren
  TimeoutSet = TRUE
SPECIFICATION Spec
INVARIANTS AfterHookAtMostOnce

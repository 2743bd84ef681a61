\* NoOrphanedNestedExecution
CONSTANTS
  Parent = Parent
  c1 = c1
  c2 = c2
  Children <- MCChildren
  TimeoutSet = TRUE
SPECIFICATION Spec
INVARIANTS NoOrphanedNestedExecution


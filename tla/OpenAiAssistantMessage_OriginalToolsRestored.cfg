\* preserveOriginalTools with two executions on one assistant, which may or
\* may not have tools of its own.
CONSTANTS
  Execs = {1, 2}
  Versions = {"1.2", "1.3"}
  MaxHistory = 2
  ThreadCreateLimit = 1
SPECIFICATION Spec
INVARIANT OriginalToolsRestored

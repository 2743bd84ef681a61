\* Each strategy run() can choose, with its liveness under its own fairness.
CONSTANTS
  Exec = Exec
  WatchdogEnabled = TRUE
  SaveSuccessNone = FALSE
  SaveErrorNone = TRUE
  Parent = Parent
  c1 = c1
  c2 = c2
  Children <- MCChildren
  TimeoutSet = TRUE
  Execs = {e1, e2}
  Unset = Unset
  Settings <- MCSettings
  DefaultTimeout = 2
  MaxTimeout = 1
SPECIFICATION Spec
PROPERTIES BullEventuallyRemoved BullWatchdogEventuallyCleared 

\* Heartbeat liveness with a reconnecting runner and shutdown.
CONSTANTS
  k1 = k1
  k2 = k2
  r1 = r1
  NoConn = NoConn
  Conns <- MCConnsPair
  Ids = {r1}
  IdOf <- MCIdOfPair
  WithShutdown = TRUE
  MaxInbox = 2
  MaxPending = 2
SPECIFICATION Spec
PROPERTIES SilentRunnerDisconnected

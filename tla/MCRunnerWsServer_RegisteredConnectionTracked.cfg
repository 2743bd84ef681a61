\* Expected violation of RegisteredConnectionTracked.
CONSTANTS
  k1 = k1
  k2 = k2
  r1 = r1
  NoConn = NoConn
  Conns <- MCConnsPair
  Ids = {r1}
  IdOf <- MCIdOfPair
  WithShutdown = FALSE
  MaxInbox = 2
  MaxPending = 2
SPECIFICATION Spec
INVARIANTS RegisteredConnectionTracked

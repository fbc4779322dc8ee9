SPECIFICATION Spec
CONSTANTS
  host = host
  w1 = w1
  Host = host
  MaxClients = 1
  Workers = {w1}
  MAX_SESSION_COUNT = 1
  MaxSignals <- Twice
CHECK_DEADLOCK FALSE
INVARIANT
  ClosesCleanly

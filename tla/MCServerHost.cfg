SPECIFICATION FairSpec
CONSTANTS
  host = host
  w1 = w1
  Host = host
  MaxClients = 3
  Workers = {w1}
  MAX_SESSION_COUNT = 1
  MaxSignals <- Twice
CHECK_DEADLOCK FALSE
INVARIANTS
  TypeOK
  ConnectionsInOrder
  SignalSetUp
PROPERTIES
  FreeWaitsForList
  ConnectionsServed
  DumpFollows
  CloseEnds

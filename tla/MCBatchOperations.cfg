SPECIFICATION FairSpec
CONSTANTS
  t1 = t1
  t2 = t2
  NoThread = none
  Threads = {t1, t2}
  EventIds <- Ids
  Dims <- TwoSeats
  SeatLists <- Lists
  MaxCommands = 4
CHECK_DEADLOCK FALSE
INVARIANTS
  LocksHeld
  NumbersCounted
PROPERTIES
  ImplementsBatchStore
  CommandsEnd

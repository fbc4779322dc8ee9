SPECIFICATION Spec
CONSTANTS
  w1 = w1
  w2 = w2
  Host = host
  NoThread = NoThread
  Workers = {w1, w2}
  EventIds <- TwoEvents
  Dims <- TwoSeats
  SeatLists <- Mixed
SYMMETRY Sessions
INVARIANTS
  TypeOK
  LocksHeld
  IdsUnique
  ReserveIsWhole
  DumpIsWhole
PROPERTIES
  SeatsAreFinal
  ImplementsStore

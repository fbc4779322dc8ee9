SPECIFICATION FairSpec
CONSTANTS
  w1 = w1
  w2 = w2
  Host = host
  NoThread = NoThread
  Workers = {w1, w2}
  EventIds <- OneEvent
  Dims <- TwoSeats
  SeatLists <- Both
PROPERTY
  OperationsEnd

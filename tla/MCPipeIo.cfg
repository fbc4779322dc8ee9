SPECIFICATION FairSpec
CONSTANTS
  Messages <- SmallMessages
  PIPE_BUF = 4
  Capacity = 6
  SIZE = 16
  MaxMessages = 3
  MaxSignals = 2
CHECK_DEADLOCK FALSE
INVARIANTS
  TypeOK
  ParseIsWhole
PROPERTY
  PrintIsWhole
  PrintEnds

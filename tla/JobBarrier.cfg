SPECIFICATION Spec
CONSTANTS
  none = none
  unset = unset
  NoThread = none
  Unset = unset
  Jobs <- TestFile
  MaxThreads = 3
  IntMax = 3
  WaitNumbers <- NumberSet
  Garbage <- Counts
CHECK_DEADLOCK FALSE
INVARIANT BarrierHolds

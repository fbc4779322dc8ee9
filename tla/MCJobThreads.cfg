SPECIFICATION FairSpec
CONSTANTS
  none = none
  unset = unset
  NoThread = none
  Unset = unset
  Jobs <- Files
  MaxThreads = 3
  IntMax = 3
  WaitNumbers <- NumberSet
  Garbage <- Counts
CHECK_DEADLOCK FALSE
INVARIANTS
  TypeOK
  MutexHeld
  BarrierStops
PROPERTIES
  ImplementsJobRun
  JobEnds

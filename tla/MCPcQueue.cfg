SPECIFICATION FairSpec
CONSTANTS
  host = host
  w1 = w1
  w2 = w2
  e1 = e1
  e2 = e2
  None = none
  Producers = {host}
  Consumers = {w1, w2}
  Elems = {e1, e2}
  Capacity = 2
INVARIANTS
  LocksHeld
  NoLostWakeup
PROPERTIES
  ImplementsFifo
  WaitingIsServed

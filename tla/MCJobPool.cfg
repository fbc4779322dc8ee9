SPECIFICATION FairSpec
CONSTANTS
  a = a
  b = b
  c = c
  d = d
  out = out
  Files = {a, b, c, d}
  Others = {out}
  MaxProcs <- Arguments
CHECK_DEADLOCK FALSE
INVARIANTS
  PoolCounted
  PoolBounded
PROPERTIES
  PoolProgresses

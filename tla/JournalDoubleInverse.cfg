CONSTANTS
  r1 = r1  r2 = r2
  N = 1
  NonRepeatable = {}
  Restorer = {r1, r2}
  RestoreLocked = FALSE
  MaxFaults = 2
SPECIFICATION Spec
INVARIANTS NoConcurrentDoubleInverse
CHECK_DEADLOCK FALSE

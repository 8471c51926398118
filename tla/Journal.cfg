CONSTANTS
  r1 = r1  r2 = r2
  N = 3
  NonRepeatable = {2, 3}
  Restorer = {r1}
  RestoreLocked = TRUE
  MaxFaults = 4
SPECIFICATION FairSpec
PROPERTIES ImplementsWriteAheadFaults Converges
CHECK_DEADLOCK FALSE

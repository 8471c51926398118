CONSTANTS
  r1 = r1  r2 = r2
  N = 2
  NonRepeatable = {2}
  Restorer = {r1, r2}
  RestoreLocked = FALSE
  MaxFaults = 2
SPECIFICATION Spec
INVARIANTS JournalSafe ClaimExclusive
CHECK_DEADLOCK FALSE

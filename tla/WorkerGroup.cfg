CONSTANTS
  Max = 2
  MaxSpawned = 2
SPECIFICATION FairSpec
INVARIANTS WorkersSafe
PROPERTIES WorkersEnd
CHECK_DEADLOCK FALSE

CONSTANTS
  a = a  b = b  c = c
  Process = {a, b}
  Command = {"init", "run", "plan_init", "fault", "stop", "cleanup"}
  Code = {601, 602}
  LockSessionsTagged = FALSE
  MaxFaults = 1
  MaxLost = 1
SPECIFICATION FairSpec
PROPERTIES StopReachesRuns StaleWorkloadEnds
CHECK_DEADLOCK FALSE

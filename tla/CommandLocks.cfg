CONSTANTS
  a = a  b = b  c = c
  Process = {a, b, c}
  Command = {"init", "run", "plan_init", "fault", "stop", "cleanup"}
  Code = {601}
  LockSessionsTagged = FALSE
  MaxFaults = 1
  MaxLost = 1
SPECIFICATION Spec
SYMMETRY Processes
INVARIANTS DropMeetsOnlyBereft CommandsApart
CHECK_DEADLOCK FALSE

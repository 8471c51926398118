CONSTANTS
  a = a  b = b  c = c
  Process = {a, b}
  Command = {"run", "cleanup"}
  Code = {601}
  LockSessionsTagged = TRUE
  MaxFaults = 0
  MaxLost = 0
SPECIFICATION Spec
INVARIANT DropAlone
CHECK_DEADLOCK FALSE

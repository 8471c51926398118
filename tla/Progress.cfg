CONSTANTS
  s1 = s1  s2 = s2
  m1 = m1  m2 = m2
  Slot = {s1, s2}
  Plans <- MCPlans
  Width = 2
  Lane = {tp, ap}
  Crew = 2
  Layouts <- MCLayouts
  Caller = {m1, m2}
  Operation = {"query", "exec", "cross"}
  UserDatabase = {1}
  SqlId = {q1}
  MaxCalls = 2
  MaxSample = 3
  MaxResets = 1
  Source = {"history", "relocation", "estimate", "cpu"}
  MaxRequests = 2
  PatchCount = 3
  Capacity = 2
  Panel = {"p1"}
  Thread = {1}
  MaxSession = 1
  QueueSize = 1
  Scenario = {"plan", "cpu"}
  Plan = "plan"
  First <- MCFirst
  ShownSql = {q1}
  CaptureLength = 2
  MaxRetained = 2
  MaxAnalyses = 3
SPECIFICATION ProgressSpec
INVARIANTS ScenariosSafety FixedSafety PipelineSafety
PROPERTIES LockSafety GatewaySafety CollectorSafety RequestsSafety RefresherSafety PanelSafety WaitsEnd
CHECK_DEADLOCK FALSE

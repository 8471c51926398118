CONSTANTS
  Thread = {1, 2}
  MaxSession = 2
  QueueSize = 1
  ControllerConfig <- MCControllerConfig
  Gain = {1, 2, 3, 5, 7, 11}
  TopValue = 14
  Noise = {4, 10, 13}
  Target = {1, 2, 40, 64, 500, 4096}
  Divisor <- MCDivisor
  MaxRange = 2000
  MaxAttempts = 10
  Slope <- MCSlope
  Step = {1, 7, 32, 64}
  DatasetBatches <- MCBatches
  TargetBytes = 200
  RowFactors = {1, 2, 3}
  IndexBytes = 4
  MigrationBatch = 2
  LegacyRows = 3
  LegacyFields <- MCLegacyFields
  Backend = {1, 2, 3, 4}
  Sql = {1, 2, 3}
  Scope = 1
  MaxSnap = 2
  Observation = 2
  MaxCycle = 7
  PoolThread = {1, 2}
  UserOf <- MCUserOf
  FullScenario = {"pool"}
  Whitelist <- MCWhitelist
  ExcludedUser = {"dba"}
  JitterScope = 3
  JitterStreak = 2
  Strategies <- MCStrategies
  MaxGap = 2
  LastMoment = 7
  RateCells <- MCRateCells
  DurableCells = {"XLOG"}
  LastSecond = 3
  MaxWork <- MCMaxWork
  ClusterNode = {1, 2}
  HostNode = 1
  PriEvery = 1
  GateInterval = 2
  LastTick = 5
  WaitEvent = {e1, e2}
  MaxTime = 1
  MaxReads = 2
  Reporter = {r1, r2}
  Kind = {TRUE, FALSE}
  ObservationWindow = 3
  SuppressionWindow = 2
  ReportThresh = 2
  CycleGap = 1
  MaxLate = 1
  MaxRowsInFile = 1
  BackupCount = 1
  MaxRow = 5
  MaxName = 4
  MaxFaults = 3
SPECIFICATION ComponentsSpec
INVARIANTS ControllerSafety CalibrationSafety LegacySafety BlockSafety WindowsSafety InstanceSafety DbPanelSafety EventSafety AlarmSafety DataLogSafety
PROPERTIES DatasetSafety PlanSafety KillsSafety SelectionSafety
CHECK_DEADLOCK FALSE

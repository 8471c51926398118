CONSTANTS
  Control = {1}
  Config = {3}
  Sql = {2}
  Skip = {2}
  Run = {1, 2}
  RunOf <- MCRunOf
  Left = {"planned"}
  MaxFaults = 2
SPECIFICATION FairSpec
INVARIANTS CoordinatorSafety
PROPERTIES Converges

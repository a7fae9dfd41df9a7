SPECIFICATION Spec
CONSTANTS
  Profiles <- MCPadded
  Cluster <- MCCluster
  Batch = 100000
  StartXid = 2
  MaxXid = 4
  MaxLive = 2
  MaxHolders = 1
  MaxSteps = 3
  MinDeadTuples = 1000
  XminReportAge = 2
  StaleDays = 1
  MinBloatBytes = 8388608
  MinBloatPct = 20
  CriticalBytes = 536870912
INVARIANTS
  FreshTableNotReported
CHECK_DEADLOCK FALSE

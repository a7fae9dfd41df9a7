SPECIFICATION FairSpec
CONSTANTS
  Profiles <- MCProfiles
  Cluster <- MCCluster
  Batch = 1000
  StartXid = 2
  MaxXid = 4
  MaxLive = 3
  MaxHolders = 1
  MaxSteps = 3
  MinDeadTuples = 1000
  XminReportAge = 2
  StaleDays = 1
  MinBloatBytes = 65536
  MinBloatPct = 20
  CriticalBytes = 500000
INVARIANTS
  TypeOK
  BloatIsExplained
  WasteIsReported
  RewriteReturnsSpace
  HorizonIsNamed
  OwnDatabaseExplained
  BacklogIsAutovacuums
  UntendedIsTold
PROPERTIES
  AdviceSettles
CHECK_DEADLOCK FALSE

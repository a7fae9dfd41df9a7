SPECIFICATION FairSpec
CONSTANTS
  Pids <- MCPids
  Snapshots <- MCSnapshots
INVARIANTS
  TypeOK
  TreeShowsEveryChain
  DepthWithinSessions
  UnseenWaiterHasCycleOrStranger
PROPERTIES
  AnswersWhoWaits
  WalkEnds
CHECK_DEADLOCK FALSE

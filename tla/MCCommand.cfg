SPECIFICATION Spec
CONSTANTS
  Calls <- MCCalls
  Servers <- MCServers
  MisestimateFactor = 10
  LoopThreshold = 10000
INVARIANTS
  TypeOK
  AsksForWhatThereIs
  CleanExitIsClean
  JsonTellsFailureApart
  ShapeDoesNotMatter
  PlanFindingsAreReal
  PlanTroubleIsReported
CHECK_DEADLOCK FALSE

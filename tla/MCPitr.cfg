SPECIFICATION Spec
CONSTANTS
  MaxArchiverDeaths = 1
  MayDie = TRUE
INVARIANTS
  TypeOK
  VerifiedMeansTarget
  MismatchOnlyWhenEarly
  OnlyTheRealServer
PROPERTIES
  ArchiveNeverRewritten
  ScriptEnds
CHECK_DEADLOCK FALSE

SPECIFICATION Spec
CONSTANTS
  N = 4
  MaxCancels = 3
INVARIANTS
  TypeOK
  ChainIsSingleFile
  NothingLeftBehind
PROPERTIES
  ReleaseEnds
CHECK_DEADLOCK FALSE

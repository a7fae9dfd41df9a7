SPECIFICATION Spec
CONSTANTS
  N = 2
  MaxCancels = 0
INVARIANTS
  RollbackReleasesWaiters
CHECK_DEADLOCK FALSE

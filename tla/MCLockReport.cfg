SPECIFICATION Spec
CONSTANTS
  Sessions <- MCSessions
  Visible <- MCVisible
  Locks = {a, b}
  NoOne = NoOne
  MaxConnections = 4
  MaxChanges = 2
INVARIANTS
  TypeOK
  QuietReportIsTrue
  WaitsStandUntilReleased
CHECK_DEADLOCK FALSE

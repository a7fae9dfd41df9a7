SPECIFICATION Spec
CONSTANTS
  Sessions <- MCSessions
  Visible <- MCVisible
  Locks = {a, b}
  NoOne = NoOne
  MaxConnections = 4
  MaxChanges = 2
INVARIANT SilenceAgreesWithFindings
CHECK_DEADLOCK FALSE

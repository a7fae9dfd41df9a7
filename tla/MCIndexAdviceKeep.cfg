SPECIFICATION Spec
CONSTANTS
  Catalogs <- MCCatalogs
  Followed <- AllChecks
  MinSize = 2
INVARIANT KeepIsKept
CHECK_DEADLOCK FALSE

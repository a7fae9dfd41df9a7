SPECIFICATION Spec
CONSTANTS
  Catalogs <- MCCatalogs
  Followed <- AllChecks
  MinSize = 2
INVARIANT ProtectedNeverAdvised
CHECK_DEADLOCK FALSE

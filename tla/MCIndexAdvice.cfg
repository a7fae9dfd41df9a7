SPECIFICATION Spec
CONSTANTS
  Catalogs <- MCCatalogs
  Followed <- AllChecks
  MinSize = 2
INVARIANTS
  TypeOK
  PathsKept
  ColumnsKept
  EnforcementKept
  AdviceConverges
CHECK_DEADLOCK FALSE

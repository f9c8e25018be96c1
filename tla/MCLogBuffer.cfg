SPECIFICATION FairLogSpec
CONSTANTS
  BatchSize = 3
  MaxLogs = 6
  MaxErrors = 1
INVARIANTS
  InOrder
  Accounted
PROPERTY ScanDrains
CHECK_DEADLOCK FALSE

SPECIFICATION FairSpec
CONSTANTS
  NumJobs = 1
  MaxAttempts <- RetriedThenSingleShot
  MaxConcurrent = 2
  RunCap = 5
  MaxCloses = 1
  MaxCrashes = 1
  MaxErrors = 1
INVARIANTS
  TypeOK
  RetryBudget
  RunningHasExecution
  ExclusiveExecution
  ActiveMatchesLive
PROPERTIES
  Lifecycle
  RowsSettle
CHECK_DEADLOCK FALSE

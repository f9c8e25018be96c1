SPECIFICATION FairSpec
CONSTANTS
  NumJobs = 1
  MaxAttempts <- RetriedThenSingleShot
  MaxConcurrent = 1
  RunCap = 3
  MaxCloses = 0
  MaxCrashes = 0
  MaxErrors = 0
PROPERTY CancelFinalizes
CHECK_DEADLOCK FALSE

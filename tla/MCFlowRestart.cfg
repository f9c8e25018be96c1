SPECIFICATION FairSpec
CONSTANTS
  NumJobs = 3
  NumRequests = 1
  MaxCrashes = 1
  MaxErrors = 0
PROPERTY DeployedRestarts
CHECK_DEADLOCK FALSE

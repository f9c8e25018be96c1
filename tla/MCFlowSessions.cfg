SPECIFICATION FairSpec
CONSTANTS
  NumJobs = 2
  NumRequests = 2
  MaxCrashes = 1
  MaxErrors = 1
INVARIANTS
  ActiveRowBacked
  RegistryLive
  LiveIsRegistered
PROPERTY OrphanRowEnds
CHECK_DEADLOCK FALSE

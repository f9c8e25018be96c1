SPECIFICATION FairSpec
CONSTANTS
  Tags = {1, 2}
  Stamps = {1}
  MaxBatch = 2
  MaxMessages = 4
  MaxFailures = 1
INVARIANTS StoredNewest Accounted CacheNewest
PROPERTY BatchDrains
CHECK_DEADLOCK FALSE

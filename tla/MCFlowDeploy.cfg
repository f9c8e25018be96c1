SPECIFICATION FairSpec
CONSTANTS
  Flows = {1, 2}
  Topics = {"a", "b", "own"}
  Internal = {"own"}
  Files <- MCFiles
  FirstFiles <- Shared
  Threads = {1, 2}
  MaxEdits = 1
  MaxEvents = 1
INVARIANTS Responds SubsTracked StatusTruthful
PROPERTY Converges
CHECK_DEADLOCK FALSE

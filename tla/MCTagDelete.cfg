SPECIFICATION Spec
CONSTANTS
  NumTags = 3
  Rows <- LongAndShort
  Batch = 1000
  MaxInserts = 1
  MaxCrashes = 1
  MaxErrors = 1
INVARIANTS
  DeletedIsEmpty
  CompletedDeletes
  HandlerSettles
  CancelSpares
CHECK_DEADLOCK FALSE

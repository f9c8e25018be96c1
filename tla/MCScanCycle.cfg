SPECIFICATION FairSpec
CONSTANTS
  N = 5
  Handles = {"input-0", "input-1", "input-2", "input-3", "input-4"}
  Flows <- MCFlows
  Executors = {1, 2}
  MaxCycles = 2
  MaxPresses = 1
INVARIANTS OrderCorrect InputsFresh JumpCurrent
PROPERTIES CyclesEnd PressSeen
CHECK_DEADLOCK FALSE

SPECIFICATION MCSpec
CONSTANTS
  Tags = {1, 2}
  Drivers = {1, 2}
  MaxRequests = 1
  MaxRemovals = 1
  MaxSwitches = 2
  MaxFaults = 1
INVARIANT DroppedIsQuiet
PROPERTIES UnwantedEnds SubscribedStarts
CHECK_DEADLOCK FALSE

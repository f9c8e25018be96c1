SPECIFICATION FairSpec
CONSTANTS
  Msgs = {m1, m2}
  Kinds = {"good", "poison", "invalid", "garbled"}
  BatchMax = 2
  MaxDeliveries = 4
  MaxErrors = 1
  MaxCrashes = 1
  MaxSlow = 1
INVARIANTS AckedStored DuplicatesNeedFaults
PROPERTY GoodIsAcked
CHECK_DEADLOCK FALSE

SPECIFICATION FairSpec
CONSTANTS
  Conns = {1}
  Pollers = {1, 2, 3, 4}
  Reloads = {r1, r2}
  MaxEdits = 2
  MaxCharts = 1
INVARIANTS PollingIsRegistered StoppedIsQuiet
PROPERTY Converges
CHECK_DEADLOCK FALSE

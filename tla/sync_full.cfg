CONSTANTS
  Path = {a, b}
  Worlds <- FullImportWorld
  Threshold = 2
  MaxFlushFailures = 2
  ImportEvery = 1
  MaxCommits = 3
  MaxFaults = 2
SPECIFICATION Spec
INVARIANT NothingMissed
CHECK_DEADLOCK FALSE

CONSTANTS
  Path = {a, b}
  Worlds <- SyncWorlds
  Threshold = 2
  MaxFlushFailures = 2
  ImportEvery = 3
  MaxCommits = 4
  MaxFaults = 2
  MaxCrashes = 2
  Checks = 2
  Budget = 1
  MaxWorkers = 4
  Session = {s, t}
  MaxJobs = 3
  Cap = 2
SPECIFICATION ServicesSpec
INVARIANT NothingMissed
INVARIANT GivesUpOnCrashesOnly
INVARIANT TeardownIsQuiet
PROPERTY SkipsFollowBookmark
PROPERTY SyncCatchesUp
PROPERTY KillsWhatItJudged
PROPERTY SessionsInOrder
PROPERTY ServicesMoveOn
CHECK_DEADLOCK FALSE

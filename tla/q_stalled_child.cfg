CONSTANTS
  MaxJobs = 2
  MaxClaims = 2
  MaxRuns = 2
  MaxAttempts = 2
  MaxStalled = 2
  MaxChildren = 1
  MaxSpawnDepth = 1
  CancelDepth = 2
  Policies = {"ignore"}
  Removals <- NeverRemoved
  Deadlines = {TRUE}
  Ops = {}
SPECIFICATION Spec
PROPERTY EveryTerminalChildReports
CHECK_DEADLOCK FALSE

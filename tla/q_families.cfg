CONSTANTS
  MaxJobs = 2
  MaxClaims = 2
  MaxRuns = 2
  MaxAttempts = 2
  MaxStalled = 2
  MaxChildren = 1
  MaxSpawnDepth = 1
  CancelDepth = 2
  Policies = {"fail_parent", "remove_dep"}
  Removals <- NeverRemoved
  Deadlines = {TRUE}
  Ops = {"retry", "cancel", "remove", "quiet", "fallback"}
SPECIFICATION Spec
INVARIANT TypeOK
INVARIANT AttemptsOrdered
PROPERTY SettledChildReports
CHECK_DEADLOCK FALSE

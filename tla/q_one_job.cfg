CONSTANTS
  MaxJobs = 1
  MaxClaims = 3
  MaxRuns = 3
  MaxAttempts = 2
  MaxStalled = 2
  MaxChildren = 0
  MaxSpawnDepth = 0
  CancelDepth = 1
  Policies = {"ignore"}
  Removals <- SometimesGone
  Deadlines = {TRUE, FALSE}
  Ops = {"delay", "pause", "retry", "cancel", "remove", "quiet", "lease", "abort", "lost"}
SPECIFICATION FairSpec
INVARIANT AttemptCountIsCurrent
INVARIANT ResultOfLastClaim
PROPERTY ImplementsLifecycle
PROPERTY JobsComeToRest
CHECK_DEADLOCK FALSE

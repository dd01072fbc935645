CONSTANTS
  MaxJobs = 3
  MaxClaims = 2
  OtherClaims = 1
  MaxRuns = 4
  MaxAttempts = 2
  MaxStalled = 2
  MaxChildren = 2
  MaxSpawnDepth = 2
  CancelDepth = 3
  Policies = {"fail_parent", "remove_dep", "ignore"}
  Removals <- NeverRemoved
  Deadlines = {TRUE}
  Ops = {"cancel"}
SPECIFICATION FanSpec
INVARIANT ParentsWaitForChildren
INVARIANT AnswerIsTrue
PROPERTY LastChildWakesParent
PROPERTY FanOutIsAnswered
CHECK_DEADLOCK FALSE

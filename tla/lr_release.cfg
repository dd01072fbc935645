CONSTANTS
  LockDuration = 12
  Interval = 6
  CallTimeout = 4
  SafetyMargin = 2
  MaxLate = 2
  MaxOverlap = 30
SPECIFICATION PromptSpec
INVARIANT ReleasesBeforeReclaim
CHECK_DEADLOCK FALSE

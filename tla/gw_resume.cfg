CONSTANTS
  t1 = t1
  t2 = t2
  t3 = t3
  t4 = t4
  ToolCall = {t1, t2, t3, t4}
  Idempotent = {t1}
  Unknown = {t4}
  MaxTurns = 3
  MaxCalls = 2
  MaxClaims = 2
  NoCall = NoCall
SPECIFICATION Spec
INVARIANT SettledCallsRefed
CHECK_DEADLOCK FALSE

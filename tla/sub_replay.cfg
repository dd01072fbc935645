CONSTANTS
  u1 = u1
  u2 = u2
  u3 = u3
  c1 = c1
  c2 = c2
  c3 = c3
  Use = {u1, u2, u3}
  Idempotent = {u1}
  Unknown = {u3}
  Run = {c1, c2, c3}
  MaxTurns = 2
  MaxUses = 2
  MaxLive = 2
  NoUse = NoUse
  NoMessage = NoMessage
  NoRun = NoRun
SPECIFICATION Spec
SYMMETRY ClaimSymmetry
INVARIANT RolesAlternate
INVARIANT AnswersMatch
INVARIANT NonIdempotentOnce
PROPERTY SettledNotRerun
CHECK_DEADLOCK FALSE

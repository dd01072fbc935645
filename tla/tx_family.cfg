CONSTANTS
  c1 = c1
  c2 = c2
  c3 = c3
  c4 = c4
  Parent = Parent
  Child = {c1, c2, c3, c4}
  Unborn = {c3, c4}
  Games <- Settlers
  Policies = {"fail_parent", "remove_dep", "ignore"}
  MaxChildren = 2
SPECIFICATION Spec
INVARIANT NoParentStranded
INVARIANT NoEarlyWake
INVARIANT OneOutcomePerChild
INVARIANT EveryOutcomeReported
INVARIANT ChildCapHolds
PROPERTY CallsEnd
CHECK_DEADLOCK FALSE

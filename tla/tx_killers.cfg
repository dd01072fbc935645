CONSTANTS
  c1 = c1
  c2 = c2
  c3 = c3
  c4 = c4
  Parent = Parent
  Child = {c1, c2}
  Unborn = {}
  Games <- Killers
  Policies = {"ignore"}
  MaxChildren = 2
SPECIFICATION Spec
INVARIANT NoParentStranded
CHECK_DEADLOCK FALSE

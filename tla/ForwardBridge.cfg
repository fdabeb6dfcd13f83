SPECIFICATION Spec
CONSTANTS
  Channels = {c1}
  Contexts = {x1, x2}
  Rules = {r1, r2}
  Conns = {d1, d2}
  None = None
SYMMETRY Symmetry
CHECK_DEADLOCK FALSE
INVARIANTS
  NoSocketLost
  NoRuleLost
  CurrentRuleLives
  CloseWaitsExactly

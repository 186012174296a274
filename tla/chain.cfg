SPECIFICATION Spec
CONSTANTS
  Pids = {p1, p2}
  NoPid = NoPid
  Threshold = 2
SYMMETRY Symmetry
INVARIANTS
  TypeOK
  HookSettles
  FuseHolds
  FallbackAllowed
  SameTarget
CHECK_DEADLOCK FALSE

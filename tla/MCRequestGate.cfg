CONSTANTS
  Reqs = {r1, r2}
  Panes = {p1}
  Windows <- MCWindows
  Targets <- MCTargets
  Forms = {"ok"}
  Freshness = 1
  Ttl = 2
  OrphanAge = 2
  Skews = {0, 1}
  MaxTime = 3
  MaxSession = 2
SPECIFICATION Spec
SYMMETRY MCSymmetry
INVARIANTS TypeOK AtMostOnce ReplayGuard
PROPERTY ImplementsOneShot
CHECK_DEADLOCK FALSE

CONSTANTS
  Reqs = {r1}
  Panes = {p1, p2}
  Windows <- MCWindows
  Targets <- MCTargets
  Forms = {"ok", "badPointer", "badPayload"}
  Freshness = 1
  Ttl = 2
  OrphanAge = 2
  Skews = {0, 1}
  MaxTime = 3
  MaxSession = 2
SPECIFICATION FairSpec
PROPERTY EventuallyPerformed
CHECK_DEADLOCK FALSE

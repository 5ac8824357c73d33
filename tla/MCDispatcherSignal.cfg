CONSTANTS
  Reqs = {r1}
  MaxConns = 2
SPECIFICATION FairSpec
PROPERTY SignalQuitEnds
CHECK_DEADLOCK FALSE

CONSTANTS
  Procs = {"p", "q"}
  Names <- MCNames
  Fronts <- MCFronts
  Left <- Both
  Pins <- Pinned
  MaxInode = 8
  MaxWrites = 2
  MaxOps = 2
  MaxCrashes = 1
SPECIFICATION Spec
INVARIANTS TypeOK NoLockLeft OneSidecarWriter
PROPERTY OperationsEnd
CHECK_DEADLOCK FALSE

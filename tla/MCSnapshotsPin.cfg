CONSTANTS
  Procs = {"p"}
  Names <- MCNames
  Fronts <- MCFronts
  Left <- Bare
  Pins <- Pinned
  MaxInode = 8
  MaxWrites = 2
  MaxOps = 1
  MaxCrashes = 1
SPECIFICATION Spec
PROPERTY PrunedPinIsInSidecar
CHECK_DEADLOCK FALSE

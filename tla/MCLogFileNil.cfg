CONSTANTS
  Procs = {"p", "q"}
  rotateThreshold = 4
  BufferSize = 3
  Scenes <- TwoWriters
SPECIFICATION Spec
INVARIANT WriteContinues
CHECK_DEADLOCK FALSE

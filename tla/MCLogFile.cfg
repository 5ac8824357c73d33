CONSTANTS
  Procs = {"p", "q"}
  rotateThreshold = 4
  BufferSize = 3
  Scenes <- MCScenes
SPECIFICATION Spec
INVARIANTS
  TypeOK
  LogsInOrder
  TailInOrder
CHECK_DEADLOCK FALSE
PROPERTIES
  BufferDrains
  TailEnds

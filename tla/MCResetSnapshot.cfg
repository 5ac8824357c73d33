CONSTANTS
  Left <- MCNamedLikeSidecar
  MaxCreated = 0
  Calls = {1}
  Paths = {1}
  Commands = {"c"}
  Shapes <- MCShapes
  MaxOdd = 0
  MaxFaults = 0
  Panes = {1, 2, 3}
  PaneOf <- MCPaneOf
  NeedleLen = 2
  Clients = {1}
  MaxTicks = 0
  MaxEvents = 0
  Writers = {w1}
  Before = before
  MaxMishaps = 0
  Names <- MCNames
  Invalid <- MCInvalid
  Runes = {1}
  MaxFilter = 2
  Handlers = {1}
  MaxErrors = 0
SPECIFICATION CommandsSpec
PROPERTY SnapshotsStay
CHECK_DEADLOCK FALSE

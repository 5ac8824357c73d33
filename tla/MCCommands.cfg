CONSTANTS
  Left <- MCLeft
  MaxCreated = 1
  Calls = {1, 2}
  Paths = {1, 2}
  Commands = {"c"}
  Shapes <- MCShapes
  MaxOdd = 1
  MaxFaults = 2
  Panes = {1, 2, 3}
  PaneOf <- MCPaneOf
  NeedleLen = 2
  Clients = {1, 2}
  MaxTicks = 1
  MaxEvents = 2
  Writers = {w1, w2}
  Before = before
  MaxMishaps = 2
  Names <- MCNames
  Invalid <- MCInvalid
  Runes = {2}
  MaxFilter = 2
  Handlers = {1, 2}
  MaxErrors = 2
SPECIFICATION FairCommandsSpec
INVARIANTS TypeOK ResetIsThorough NoScopeUplift StartupReleases DoctorExplainsStartup FindFollowsPinned WriteOldOrNew WrittenStays ShownIsCurrent AnswersTellOutcome
PROPERTIES SnapshotsNeedConsent RebindLosesNothing SelectionStays CommandEnds
CHECK_DEADLOCK FALSE

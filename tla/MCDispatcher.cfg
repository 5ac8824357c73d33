CONSTANTS
  Reqs = {r1}
  MaxConns = 2
SPECIFICATION FairSpec
INVARIANTS TypeOK OutstandingExact WaitCoversDrains FailureLeavesNothing
PROPERTIES ImplementsReplyStream CancelReleases AnswerReachesCaller QuitEnds
CHECK_DEADLOCK FALSE

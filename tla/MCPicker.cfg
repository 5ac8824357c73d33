CONSTANTS
  Verbs = {"switch"}
  MaxSeq = 2
  MaxReplies = 2
SPECIFICATION FairSpec
INVARIANTS TypeOK NoDispatchAbandoned TimeoutXorAnswer
PROPERTY UnansweredOpEnds
CHECK_DEADLOCK FALSE

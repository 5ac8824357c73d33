CONSTANTS
  Verbs = {"switch"}
  MaxSeq = 1
  MaxReplies = 2
SPECIFICATION Spec
INVARIANT QuitCancelsAll
CHECK_DEADLOCK FALSE

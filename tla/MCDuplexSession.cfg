SPECIFICATION Spec
CONSTANTS
  Caller = {c1, c2}
  MaxPending <- TwoAndOne
  MaxQueue = 1
  Requests <- EachOne
  None = None
  Stopped = Stopped
SYMMETRY CallerSymmetry
INVARIANTS AnswerMatches NoOrphanWait 
CHECK_DEADLOCK FALSE

SPECIFICATION FairSpec
CONSTANTS
  Callers = {u, v, w}
  Capacity = 2
  MaxCalls = 4
INVARIANTS
  AckMeansPublished
  HonestAnswers
  ShutdownCompletes
PROPERTIES
  EveryCallReturns
CHECK_DEADLOCK FALSE

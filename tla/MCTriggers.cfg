SPECIFICATION Spec
CONSTANTS
  None = None
  Ppqn = 2
  ProbabilityMax = 10
  MaxDepth = 3
  MaxNodes = 6
  MaxStartOptions = 2
  MaxRepeatsCap = 8
  MaxRepeatsUsual = 4
  Scenarios <- MCScenarios
  Horizon = 20
  MaxRetries = 1
INVARIANTS
  WindowingAssociative
  RunsNeverOverlap
  EditorShowsWhatRuns
CHECK_DEADLOCK FALSE

SPECIFICATION Spec
CONSTANTS
  None = None
  t1 = t1
  t2 = t2
  t3 = t3
  Ppqn = 4
  ProbabilityMax = 10
  MaxDepth = 2
  Projects <- MCProjects
  MaxTick = 10
  Steps = {0, 5}
  MaxCommands = 3
  MaxFailures = 1
INVARIANTS
  NoteBalance
  CyclesRealizedOnce
  SteppedMatchesSinglePass
  ExclusiveChannel
  NoPrematureOff
  TimelineMatchesAudio
PROPERTIES
  ReplayIdentical
CHECK_DEADLOCK FALSE

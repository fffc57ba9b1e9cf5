SPECIFICATION FairSpec
CONSTANTS
  k1 = k1
  k2 = k2
  score1 = score1
  project1 = project1
  project2 = project2
  rhythm1 = rhythm1
  Absent = Absent
  Keys <- MCKeys
  Scores = {score1}
  Rhythms = {rhythm1}
  Runtimes = {project1, project2}
  Tpc <- MCTpc
  Takes <- MCTakes
  Forward <- MCForward
  Failing <- MCFailing
  HonoursCC123 = TRUE
  MaxTick = 6
  MaxAdvance = 2
  MaxFailures = 1
INVARIANTS
  NoHungNote
  OverlayMatchesQueue
PROPERTIES
  NoReplay
  SweepRuns
CHECK_DEADLOCK FALSE

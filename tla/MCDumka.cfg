CONSTANTS
  Beats = 2
  Subdivision = 2
  Projects <- MCProjects
  LeashSamples <- MCLeashSamples
  RailSamples <- MCRailSamples
  Bands <- MCBands
  MaxOperations = 2
  Horizon = 3
SPECIFICATION Spec
INVARIANTS
  PatternPlays
PROPERTIES
  RailsHeld
  RowsHeld
CHECK_DEADLOCK FALSE

SPECIFICATION LayersSpec
CONSTANTS
  hocket = hocket
  trace = trace
  conflict = conflict
  midi = midi
  Overlays <- MCOverlays
  Recorded <- MCRecorded
  Conflicts <- MCConflicts
  DebugLogs <- MCDebugLogs
  Cap <- MCCap
  Batches <- MCBatches
  MaxArrived <- MCMaxArrived
  MaxCycle = 2
INVARIANTS
  NoHoles
PROPERTIES
  VersionTellsContents

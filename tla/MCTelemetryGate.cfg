SPECIFICATION FairSpec
CONSTANTS
  hocket = hocket
  trace = trace
  midi = midi
  Overlays <- MCOverlays
  Recorded <- MCRecorded
  Conflicts = {}
  DebugLogs <- MCDebugLogs
  Cap <- MCCap
  Batches <- MCBatches
  MaxArrived <- MCMaxArrived
  MaxCycle = 0
INVARIANTS
  TimelineGateSound
  LogGateSound
PROPERTIES
  MirrorsTimeline

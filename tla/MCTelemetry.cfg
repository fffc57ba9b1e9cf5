SPECIFICATION TelemetryFair
CONSTANTS
  hocket = hocket
  Overlays <- MCOverlays
  Recorded = {}
  Conflicts = {}
  DebugLogs = {}
  Cap <- MCCap
  Batches <- MCBatches
  MaxArrived <- MCMaxArrived
  MaxCycle = 0
  reset = reset
  Resets <- MCResets
  MaxEpoch = 3
  MaxInFlight = 1
INVARIANTS
  PlayheadOnShownGrid
PROPERTIES
  PendingReleased

SPECIFICATION Spec
CONSTANTS
  MaxStoppedPreview = 0
  LivePreviewRadius = 2
  FastScanBound = 1
  PPQN = 12
  MaxPatternLen = 16
  MaxNodeWeight = 3
  MaxRepeat = 3
  MaxGroupDepth = 2
  MaxPatternNodes = 8
  MaxEuclidSlots = 4
  TempoSamples = 4
  MaxCycles = 2
  Sessions <- MCSessions
INVARIANTS
  SpansMeetMatras
  PatternHeard
  RoutingKeepsPairs
  QuotasKept
  MappedNotesLast
  ReplayRestoresPools
  PreviewMatchesPlayback

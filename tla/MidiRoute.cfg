SPECIFICATION FairSpec
CONSTANTS
  Devices = {a, b}
  Keys = {k}
  MaxCount = 2
  HonoursCC123 = FALSE
  Silencers = {"panic"}
  ConnectMayFail = FALSE
  PluggingAtStartup = FALSE
INVARIANTS
  NoStrandedNotes
  LastSelectionWins
PROPERTIES
  RouteRecovers

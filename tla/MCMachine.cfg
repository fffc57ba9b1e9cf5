SPECIFICATION Spec
CONSTANTS
  Instances = {a, b}
  User = a
  Destinations = {piano}
  Settings = {standard, changed}
  Initial = standard
  MaxSessions = 2
  a = a
  b = b
  piano = piano
  standard = standard
  changed = changed
INVARIANTS
  SessionKept
  PrefsDurable

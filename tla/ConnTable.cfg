SPECIFICATION Spec
CONSTANTS
  MAX_CONNECTIONS = 4
  proxiesCount = 2
  MaxFiles = 15
  MaxEvents = 2
  MaxRefused = 1
  Clients = {c1, c2, c3}
  None = None
SYMMETRY Symmetry
INVARIANTS
  Owned
  NoLeak
  NeverLost
  Exhaustion
PROPERTIES
  SessionsSpec
CHECK_DEADLOCK FALSE

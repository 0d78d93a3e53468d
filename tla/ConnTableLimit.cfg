SPECIFICATION Spec
CONSTANTS
  MAX_CONNECTIONS = 3
  proxiesCount = 1
  MaxFiles = 12
  MaxEvents = 2
  MaxRefused = 0
  Clients = {c1, c2, c3}
  None = None
SYMMETRY Symmetry
INVARIANTS TypeOK TableIsTheLimit
CHECK_DEADLOCK FALSE

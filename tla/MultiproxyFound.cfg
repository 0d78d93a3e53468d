CONSTANTS
  MAX_CONNECTIONS = 3
  proxiesCount = 1
  BACKLOG = 2
  MAXBUF = 2
  RcvBuf = 2
  SndBuf = 1
  MaxClients = 2
  MaxWrites = 1
  Endless = {}
  MaxFaults = 1
SPECIFICATION Spec
INVARIANTS LocalDataServed
CHECK_DEADLOCK FALSE

CONSTANTS
  MAX_CONNECTIONS = 4
  proxiesCount = 2
  BACKLOG = 2
  MAXBUF = 2
  RcvBuf = 2
  SndBuf = 1
  MaxClients = 2
  MaxWrites = 2
  Endless = {}
  MaxFaults = 2
SPECIFICATION Spec
INVARIANTS CountExact CleanSlot AcceptFindsClient
CHECK_DEADLOCK FALSE

CONSTANTS
  MAX_CONNECTIONS = 2
  proxiesCount = 1
  BACKLOG = 2
  MAXBUF = 2
  RcvBuf = 3
  SndBuf = 1
  MaxClients = 2
  MaxWrites = 3
  Endless = {}
  MaxFaults = 1
SPECIFICATION FairSpec
INVARIANTS TypeOK NoLostWakeup
PROPERTIES ClientsAccepted LocalRelayed
CHECK_DEADLOCK FALSE

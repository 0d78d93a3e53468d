CONSTANTS
  MAX_CONNECTIONS = 2
  proxiesCount = 1
  BACKLOG = 2
  MAXBUF = 1
  RcvBuf = 1
  SndBuf = 1
  MaxClients = 2
  MaxWrites = 0
  Endless = {"local"}
  MaxFaults = 0
SPECIFICATION FairSpec
PROPERTIES ClientsAccepted
CHECK_DEADLOCK FALSE

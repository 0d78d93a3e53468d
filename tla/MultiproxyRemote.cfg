CONSTANTS
  MAX_CONNECTIONS = 2
  proxiesCount = 1
  BACKLOG = 2
  MAXBUF = 2
  RcvBuf = 2
  SndBuf = 1
  MaxClients = 1
  MaxWrites = 2
  Endless = {}
  MaxFaults = 0
SPECIFICATION FairSpec
PROPERTIES RemoteRelayed
CHECK_DEADLOCK FALSE

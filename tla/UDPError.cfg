CONSTANTS
  a1 = a1
  a2 = a2
  b1 = b1
  c1 = c1
  Version = "UDP"
  Programs = {a1, b1}
  HostOf <- MCHostOf
  PartnerOf <- MCPartnerOf
  Lines = {"plain"}
  MayFail = {a1}
  MayEof = {}
  MayInterrupt = {a1, b1}
  MayLose = FALSE
  RcvBuf = 2
  MaxAir = 3
  MaxDup = 0
  MaxLines = 1
SPECIFICATION FairSpec
PROPERTIES StopsOnError
CHECK_DEADLOCK FALSE

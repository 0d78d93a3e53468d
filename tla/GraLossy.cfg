CONSTANTS
  a1 = a1
  a2 = a2
  b1 = b1
  c1 = c1
  Version = "UDP copy"
  Programs = {a1, b1}
  HostOf <- MCHostOf
  PartnerOf <- MCPartnerOf
  Lines = {"shot", "<koniec>"}
  MayFail = {}
  MayEof = {}
  MayInterrupt = {a1}
  MayLose = FALSE
  RcvBuf = 1
  MaxAir = 2
  MaxDup = 1
  MaxLines = 1
SPECIFICATION FairSpec
INVARIANTS AnswersAccounted
PROPERTIES Quiesces PortReleased
CHECK_DEADLOCK FALSE

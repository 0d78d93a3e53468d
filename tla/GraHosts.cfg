CONSTANTS
  a1 = a1
  a2 = a2
  b1 = b1
  c1 = c1
  Version = "UDP copy"
  Programs = {a1, b1, c1}
  HostOf <- MCHostOf
  PartnerOf <- MCPartnerOf
  Lines = {"shot"}
  MayFail = {}
  MayEof = {}
  MayInterrupt = {}
  MayLose = FALSE
  RcvBuf = 1
  MaxAir = 2
  MaxDup = 0
  MaxLines = 1
SPECIFICATION Spec
INVARIANTS TypeOK AnswersAccounted
CHECK_DEADLOCK FALSE

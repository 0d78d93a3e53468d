CONSTANTS
  a1 = a1
  a2 = a2
  b1 = b1
  c1 = c1
  Version = "UDP copy"
  Programs = {a1, b1}
  HostOf <- MCHostOf
  PartnerOf <- MCPartnerOf
  Lines = {"shot"}
  MayFail = {}
  MayEof = {}
  MayInterrupt = {a1, b1}
  MayLose = FALSE
  RcvBuf = 2
  MaxAir = 3
  MaxDup = 0
  MaxLines = 1
SPECIFICATION Spec
INVARIANTS OnlyShots
CHECK_DEADLOCK FALSE

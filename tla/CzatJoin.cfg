CONSTANTS
  a1 = a1
  a2 = a2
  b1 = b1
  c1 = c1
  Version = "Czat"
  Programs = {a1, a2, b1}
  HostOf <- MCHostOf
  PartnerOf <- MCPartnerOf
  Lines = {}
  MayFail = {b1}
  MayEof = {b1}
  MayInterrupt = {a1, a2, b1}
  MayLose = TRUE
  RcvBuf = 2
  MaxAir = 2
  MaxDup = 0
  MaxLines = 0
SPECIFICATION Spec
INVARIANTS SomeoneLearns
CHECK_DEADLOCK FALSE

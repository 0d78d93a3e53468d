CONSTANTS
  Byte = {b0, b1}
  NUL = NUL
  MAXBUF = 2
  RcvBuf = 3
  SndBuf = 2
  MaxSent = 4
SPECIFICATION Spec
INVARIANTS TypeOK Conservation EofIsComplete ResidueNeedsNoInput
PROPERTY ChannelSpec
CHECK_DEADLOCK FALSE

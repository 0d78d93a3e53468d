CONSTANTS
  None = None
  Zero = Zero
  Servers = {s1}
  Clients = {c1, c2}
  rekord = 2
  IdZero = None
  MaxSignals = 1
  MaxKills = 1
SPECIFICATION FairSpec
INVARIANTS LockAccounted PrintWhole ThankKept
PROPERTIES RecordReleased
CHECK_DEADLOCK FALSE

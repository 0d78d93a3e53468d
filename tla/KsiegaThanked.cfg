CONSTANTS
  None = None
  Zero = Zero
  Servers = {s1}
  Clients = {c1}
  rekord = 1
  IdZero = None
  MaxSignals = 1
  MaxKills = 0
SPECIFICATION Spec
INVARIANTS ThankedIsKept
SYMMETRY ClientSymmetry
CHECK_DEADLOCK FALSE

CONSTANTS
  None = None
  Zero = Zero
  Servers = {s1, s2}
  Clients = {c1, c2}
  rekord = 1
  IdZero = s1
  MaxSignals = 1
  MaxKills = 1
SPECIFICATION Spec
INVARIANTS BookIntact ClaimedWasInitialised StoredRemoved
SYMMETRY ClientSymmetry
CHECK_DEADLOCK FALSE

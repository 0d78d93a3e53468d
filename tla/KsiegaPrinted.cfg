CONSTANTS
  None = None
  Zero = Zero
  Servers = {s1}
  Clients = {c1, c2}
  rekord = 2
  IdZero = None
  MaxSignals = 2
  MaxKills = 0
SPECIFICATION Spec
INVARIANTS TypeOK PrintedIsWritten
SYMMETRY ClientSymmetry
CHECK_DEADLOCK FALSE

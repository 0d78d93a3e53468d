CONSTANTS
  None = None
  Zero = Zero
  Servers = {s1}
  Clients = {c1}
  rekord = 2
  IdZero = None
  MaxSignals = 1
  MaxKills = 0
SPECIFICATION Spec
INVARIANTS CleansUp
SYMMETRY ClientSymmetry
CHECK_DEADLOCK FALSE

CONSTANTS
  None = None
  Zero = Zero
  Servers = {s1, s2}
  Clients = {c1}
  rekord = 1
  IdZero = s1
  MaxSignals = 1
  MaxKills = 0
SPECIFICATION Spec
INVARIANTS Undisturbed
SYMMETRY ClientSymmetry
CHECK_DEADLOCK FALSE

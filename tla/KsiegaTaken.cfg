CONSTANTS
  None = None
  Zero = Zero
  Servers = {s1}
  Clients = {c1, c2}
  rekord = 1
  IdZero = None
  MaxSignals = 0
  MaxKills = 0
SPECIFICATION Spec
INVARIANTS RecordTaken
SYMMETRY ClientSymmetry
CHECK_DEADLOCK FALSE

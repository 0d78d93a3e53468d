CONSTANTS
  Modes = {"fork"}
  Calls <- MCCalls
  Rets <- MCRets
  Args <- MCArgs
  Threads = FALSE
  ExecFails = FALSE
  MaxCalls = 3
  MaxSignals = 2
SPECIFICATION Spec
INVARIANTS ReturnShown LinesAlwaysMatch
CHECK_DEADLOCK FALSE

CONSTANTS
  Modes = {"fork"}
  Calls <- MCCalls
  Rets <- MCRets
  Args <- MCArgs
  Threads = TRUE
  ExecFails = FALSE
  MaxCalls = 3
  MaxSignals = 2
SPECIFICATION Spec
INVARIANTS ExitAlwaysPassedOn
CHECK_DEADLOCK FALSE

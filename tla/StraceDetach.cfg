CONSTANTS
  Modes = {"attach"}
  Calls <- MCCalls
  Rets <- MCRets
  Args <- MCArgs
  Threads = FALSE
  ExecFails = FALSE
  MaxCalls = 2
  MaxSignals = 0
SPECIFICATION FairSpec
PROPERTIES DetachEnds
CHECK_DEADLOCK FALSE

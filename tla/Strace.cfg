CONSTANTS
  Modes = {"fork", "attach"}
  Calls <- MCCalls
  Rets <- MCRets
  Args <- MCArgs
  Threads = TRUE
  ExecFails = TRUE
  MaxCalls = 2
  MaxSignals = 1
SPECIFICATION FairSpec
INVARIANTS TypeOK LinesMatch InStep ExitPassedOn
PROPERTIES NotStranded FollowsTracee
CHECK_DEADLOCK FALSE

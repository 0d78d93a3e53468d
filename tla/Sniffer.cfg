SPECIFICATION Spec
CONSTANTS
  OptionSets <- McOptions
  Frames <- McFrames
  Interfaces = {"eth0", "eth1"}
  None = None
INVARIANTS OwnHeaders OwnAddresses
CHECK_DEADLOCK FALSE

SPECIFICATION Spec
CONSTANTS
  OptionSets <- McOptions
  Frames <- McFrames
  Interfaces = {"eth0", "eth1"}
  None = None
INVARIANTS TypeOK NothingStale HeadersFound NoOptionsMeansAll OptionsObeyed OwnInterface DstIsDst
CHECK_DEADLOCK FALSE

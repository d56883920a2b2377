SPECIFICATION LiveSpec
CONSTANTS
  Svcs <- MCSvcs
  Fwd = Fwd
  Broken = Broken
  Configs <- MCConfigs
  Unprobed <- MCUnprobed
  MaxActs = 2
  MaxFailures = 1
  MaxPfEvents = 1
  Faults = {}
PROPERTIES
  StopEndsForward
CHECK_DEADLOCK FALSE

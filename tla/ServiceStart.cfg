SPECIFICATION Spec
CONSTANTS
  Svcs <- MCSvcs
  Fwd = Fwd
  Broken = Broken
  Configs <- MCConfigs
  Unprobed <- MCUnprobed
  MaxActs = 3
  MaxFailures = 1
  MaxPfEvents = 1
  Faults = {"refuse", "unreadable", "timeout", "exit"}
INVARIANTS
  TypeOK
  ProcessesAreOwned
  StatusSettles
  NoMissedWakeup
CHECK_DEADLOCK FALSE

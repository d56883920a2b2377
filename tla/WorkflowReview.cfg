SPECIFICATION FairSpec
CONSTANTS
  NumReviewers = 2
  Specs <- ReviewLoops
  Asked <- One
  Faults = {"die", "quota", "nostart", "restart", "garble", "cancel"}
  MaxEvents = 2
  MaxCode = 1
INVARIANTS
  TypeOK
  RoundsCountVerdicts
  NoSilentChild
  EndedIsQuiet
PROPERTIES
  PauseIsKept
  ComesToRest
CHECK_DEADLOCK FALSE

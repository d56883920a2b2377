SPECIFICATION FairSpec
CONSTANTS
  t1 = t1
  t2 = t2
  NoTask = NoTask
  Tasks = {t1}
  Kinds <- EveryKind
  MaxConcurrent = 1
  MaxOpenPrs = 1
  Faults = {"folder", "crash", "pick", "start", "git", "gh"}
  MaxEvents = 2
  MaxLag = 1
PROPERTIES
  LeaseMovesOn
  SlotsAreFreed
CHECK_DEADLOCK FALSE

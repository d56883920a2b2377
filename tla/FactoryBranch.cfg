SPECIFICATION Spec
CONSTANTS
  t1 = t1
  t2 = t2
  NoTask = NoTask
  Tasks = {t1}
  Kinds <- EveryKind
  MaxConcurrent = 1
  MaxOpenPrs = 1
  Faults = {}
  MaxEvents = 1
  MaxLag = 1
INVARIANTS
  OwnBranchesOnly
CHECK_DEADLOCK FALSE

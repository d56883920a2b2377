SPECIFICATION Spec
CONSTANTS
  t1 = t1
  t2 = t2
  NoTask = NoTask
  Tasks = {t1, t2}
  Kinds <- EveryKind
  MaxConcurrent = 1
  MaxOpenPrs = 1
  Faults = {"folder", "crash", "git"}
  MaxEvents = 1
  MaxLag = 0
SYMMETRY Alike
INVARIANTS
  TypeOK
  ReturnPointKnown
  OneRunInFolder
  SlotsBounded
  OpenPullIsKnown
CHECK_DEADLOCK FALSE

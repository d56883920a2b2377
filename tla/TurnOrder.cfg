CONSTANTS
  i = i
  u1 = u1
  u2 = u2
  s1 = s1
  Prompts = {i, u1, u2, s1}
  By <- MCBy
  MaxForce = 2
  Faults = {}
SPECIFICATION Spec
CHECK_DEADLOCK FALSE
SYMMETRY UserPrompts
INVARIANTS
  TypeOK
  PlacedOnce
  NothingStranded
  CutIsNoResult
PROPERTIES
  LedgerSpec

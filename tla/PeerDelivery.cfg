SPECIFICATION Spec
CONSTANTS
  MaxIds = 2
  MaxEvents = 2
  MaxRuns = 2
  HeldItems = 1
  Faults = {"lapse", "exit", "stdin", "cancel", "restart"}
INVARIANTS
  TypeOK
  RecordsAgree
  NothingInLimbo
PROPERTIES
  VerdictsHold
CHECK_DEADLOCK FALSE

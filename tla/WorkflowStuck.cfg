SPECIFICATION Spec
CONSTANTS
  NumReviewers = 2
  Specs <- ReviewLoops
  Asked <- One
  Faults = {"nostart"}
  MaxEvents = 1
  MaxCode = 1
INVARIANT RunningHasAChild
CHECK_DEADLOCK FALSE

SPECIFICATION Spec
CONSTANTS
  NumReviewers = 1
  Specs <- VerifyLoops
  Asked <- NoneOrTwo
  Faults = {"die", "quota", "restart", "garble", "diff"}
  MaxEvents = 2
  MaxCode = 3
INVARIANTS
  RoundsStayWithinLimit
  BarrierIdsAreNew
PROPERTIES
  ReviewersSeeClearedCode
  ShapeSpec
CHECK_DEADLOCK FALSE

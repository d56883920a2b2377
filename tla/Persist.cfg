SPECIFICATION FairSpec
CONSTANTS
  MaxMsgs = 3
  MaxBatch = 2
  Faults = {"reject", "rollback", "begin", "commit", "crash"}
INVARIANTS
  TypeOK
  NothingOvertaken
  FlushIsBarrier
  AskIsAnswered
PROPERTIES
  WritesSettleInOrder
  CallersResume
CHECK_DEADLOCK FALSE

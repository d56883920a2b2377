CONSTANTS
  i = i
  u1 = u1
  u2 = u2
  s1 = s1
  Prompts = {u1, s1}
  By <- MCBy
  MaxForce = 1
  Faults = {"reject", "stdin", "stdout", "exit", "stop"}
SPECIFICATION FairSpec
CHECK_DEADLOCK FALSE
INVARIANTS
  OneEndPerTurn
  OneTaskAwaits
PROPERTIES
  TurnGivesWay
  DeathIsHeard

CONSTANTS
  Actions = {"plan", "deployment"}
  HighImpact = {"deployment"}
  Priorities = {0, 100}
  MaxHistory = 2
  MaxDecisions = 3
  MaxQueue = 4
SPECIFICATION Spec
INVARIANTS
  HeapOrdered
  AnsweredIsQueued
CHECK_DEADLOCK FALSE

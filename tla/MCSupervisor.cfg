CONSTANTS
  Agents = {a1, a2}
  Requests = {r1, r2}
  Tasks = {t1, t2}
  BadInterval = {a2}
  StopAll = StopAll
  None = None
SPECIFICATION Spec
SYMMETRY MCSymmetry
INVARIANTS
  OneLoopPerAgent
  NoOrphanLoop
  ShutdownLeavesNoLoop
PROPERTIES
  StopIsEffective
  ImplementsLifecycle
CHECK_DEADLOCK FALSE

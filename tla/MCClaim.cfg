CONSTANTS
  Ids = {i1}
  Foreign = {}
  Workers = {w1, w2}
  Limit = 2
  MaxPosts = 2
  MaxDays = 0
  Faults = {}
SPECIFICATION Spec
INVARIANTS
  ClaimIsExclusive
CHECK_DEADLOCK FALSE

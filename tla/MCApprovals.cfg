CONSTANTS
  Ids = {i1, i2}
  Foreign = {i2}
  Workers = {w1, w2}
  Limit = 1
  MaxPosts = 6
  MaxDays = 1
  Faults = {"database", "event", "crash"}
SPECIFICATION Spec
SYMMETRY MCSymmetry
INVARIANTS
  OnlyGrantedIsPublished
  QuotaWithinWorkers
CHECK_DEADLOCK FALSE

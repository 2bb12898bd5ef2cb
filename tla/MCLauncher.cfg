SPECIFICATION FairSpec
CONSTANTS
  r1 = r1
  r2 = r2
  r3 = r3
  s1 = s1
  s2 = s2
  NoRun = NoRun
  Runs = {r1, r2, r3}
  Servers = {s1, s2}
  ServerOf <- MCServerOf
  MaxCalls = 1
  MaxFaults = 1
INVARIANTS LockHasHolder FailedLaunchLeavesNothing
PROPERTIES CallsEnd
CHECK_DEADLOCK FALSE

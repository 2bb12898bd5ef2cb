SPECIFICATION FairSpec
CONSTANTS
  a1 = a1
  h1 = h1
  h2 = h2
  Agents = {a1}
  Initial <- MCInitial
  Handlers = {h1, h2}
  Own = {h1}
  MaxSockets = 3
  MaxMounts = 2
  MaxRequests = 1
  MaxFaults = 1
  MaxInbox = 1
INVARIANTS OneSocketUnlessOverlap
PROPERTIES ConsoleCatchesUp
CHECK_DEADLOCK FALSE

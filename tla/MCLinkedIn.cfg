CONSTANTS
  Ids = {1, 2}
  Foreign = {}
  Workers = {w1}
  Limit = 1
  MaxPosts = 2
  MaxDays = 1
  Faults = {"lost_reply", "database", "event", "crash"}
  Posts = {p1}
  MaxRestarts = 1
  RunAt <- MCRunAt
  Offset <- MCOffset
  MaxClock = 1
  PostFaults = {"approval", "event", "storage", "crash"}
SPECIFICATION LinkedInFairSpec
INVARIANTS
  PublishedOnce
  RequestedHasApproval
  OneApprovalPerStart
  PublishedWhenDue
PROPERTIES
  ImplementsLifecycle
  ExecutionEnds
  DuePostIsHandledByLivePoller
CHECK_DEADLOCK FALSE

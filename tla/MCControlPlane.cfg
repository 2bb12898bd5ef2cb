CONSTANTS
  Agents = {a1}
  Requests = {r1, r2}
  Tasks = {t1}
  BadInterval = {}
  StopAll = StopAll
  None = None
  Threshold = 2
SPECIFICATION GatewayFairSpec
PROPERTIES
  OpenUntilCooldown
  StopResponseIsTrue
  BreakerCloses
  EveryCommandEnds
  DrainsEnd
CHECK_DEADLOCK FALSE

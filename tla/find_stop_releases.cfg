SPECIFICATION LifoFairSpec
CONSTANTS
  v1 = v1
  r1 = r1
  Vring = {v1}
  Rq = {r1}
  RqOf <- OneQueue
  Client <- SteadyClient
  MaxId = 2
CHECK_DEADLOCK FALSE
PROPERTY StopReleases

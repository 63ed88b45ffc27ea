SPECIFICATION LifoSpec
CONSTANTS
  v1 = v1
  r1 = r1
  Vring = {v1}
  Rq = {r1}
  RqOf <- OneQueue
  Client <- HastyClient
  MaxId = 2
CHECK_DEADLOCK FALSE
INVARIANT ReqCleared

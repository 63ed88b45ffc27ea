SPECIFICATION FairSpec
CONSTANTS
  v1 = v1
  v2 = v2
  r1 = r1
  Vring = {v1, v2}
  Rq = {r1}
  RqOf <- OneQueue
  Client <- SteadyClient
  MaxId = 1
CHECK_DEADLOCK FALSE
PROPERTIES
  StopReturns
  ListensAgain
  MsgCompletes

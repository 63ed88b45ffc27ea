SPECIFICATION Spec
CONSTANTS
  v1 = v1
  v2 = v2
  r1 = r1
  Vring = {v1, v2}
  Rq = {v1, v2}
  RqOf <- OwnQueue
  Client <- AllClients
  MaxId = 2
CHECK_DEADLOCK FALSE
SYMMETRY VringSym
INVARIANTS
  CountersExact
  AssertsHold
  MsgExclusive
  
  DataplaneAlive
  
  StoppedForGood
PROPERTY
  DrainedBeforeRelease

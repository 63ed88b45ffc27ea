SPECIFICATION FairSpec
CONSTANTS
  Handler = {h1, h2, h3}
  Fd = {f1, f2}
  Notify = notifyfd
  Null = null
  MaxEvents = 1
CHECK_DEADLOCK FALSE
INVARIANTS
  PointersAlive
  
PROPERTY
  NoStarvation

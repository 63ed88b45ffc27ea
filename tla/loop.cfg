SPECIFICATION FairSpec
CONSTANTS
  home = home
  t1 = t1
  b1 = b1
  o1 = o1
  o2 = o2
  stop = stop
  Thread = {home, t1}
  Home = home
  Bh = {b1, o1, o2, stop}
  Oneshot = {o1, o2, stop}
  StopBh = stop
  Cancels = {b1}
INVARIANTS
  TypeOK
  NoLostWakeup
  LinkedOnce
  NoUseAfterFree
  TerminateRunsQueued
  NothingLeaked
PROPERTY ImplementsFairBhQueue

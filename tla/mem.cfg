SPECIFICATION Spec
CONSTANTS
  r1 = r1
  r2 = r2
  r3 = r3
  m1 = m1
  m2 = m2
  m3 = m3
  h1 = h1
  h2 = h2
  Null = Null
  Region = {r1, r2, r3}
  Map = {m1, m2, m3}
  DescHead = {h1, h2}
  MaxSlots = 2
  AddrBits = 5
  LogPage = 2
  BitsPerWord = 4
  LogBits = 12
  RingUva = 21
  UsedGpa = 10
  QSize = 2
  Exclusive = TRUE
  Table <- Tables
  Request <- Requests
SYMMETRY RegionSym
INVARIANTS
  MapsAlive
  RegionsExact
  
  DirtyExact

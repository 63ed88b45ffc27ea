SPECIFICATION DevSpec
CONSTANTS
  v1 = v1
  v2 = v2
  i1 = i1
  i2 = i2
  i3 = i3
  t1 = t1
  t2 = t2
  None = None
  Io = {i1, i2, i3}
  Vring = {v1, v2}
  VringOf <- TwoVrings
  Thread = {t1, t2}
  MaxTime = 2
  QSz = 2
  MaxChainLen = 3
  IdxBits = 2
  SectorSize = 2
  HdrLen = 4
  SegLen = 5
  IdLen = 3
  CapBits = 4
  MaxSegSectors = 15
  MaxGeometry <- GeometryLimits
  InHdrLen = 4
  OutHdrLen = 1
  Bdev <- Bdevs
  TotalBlocks = {3, 4}
  Chain <- GuestChains
INVARIANTS
  CompletionAnnounced
  InFlightExact
  EmptyWhenDrained
  ReportedInOrder
  AnsweredOnce
  RequestExact
  
PROPERTY CompletionReported

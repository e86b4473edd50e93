SPECIFICATION FairSpec
CONSTANTS
  a = a  b = b  c = c  pair = pair  single = single  s1 = s1
  Wave = {a, b, c}
  Group = {pair, single}
  SIMD = {s1}
  GroupOf <- Groups
  SimdOf <- OneSIMD
  Setups <- MixedSetups
  LineInsts = 2
  BarrierBufferSize = 2
  InFlightLimit = 4
  ReadBufSize = 2
  MaxTransactions = 2
  PipeCap = 1
  MemCap = 1
  RspCap = 1
  AceCap = 1
  None = None
INVARIANTS
  OnePlace
  NextIsAtPC
  OutstandingMatch
PROPERTIES
  SyncHolds
  WorkEnds
CHECK_DEADLOCK FALSE

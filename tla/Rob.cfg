SPECIFICATION RobFairSpec
CONSTANTS
  r1 = r1  r2 = r2  r3 = r3
  b1 = b1  b2 = b2  b3 = b3
  TopReq <- Requests
  BottomID <- Identifiers
  BufferSize = 2
  WireCap = 2
  PortCap = 1
  None = None
INVARIANTS
  TableMatches
  OwnData
PROPERTIES
  InOrder
  EverythingEnds

SPECIFICATION FairSpec
CONSTANTS
  NumSIMD = 2
  SRegUnits = 5
  LDSUnits = 2
  VRegUnits = 2
  WfPoolSize = 1
  NumDispatchers = 2
  NumCU = 2
  k1 = k1
  k2 = k2
  Kernel = {k1, k2}
  Grid <- Grids
  Shape <- Shapes
  WireCap = 1
  None = None
INVARIANTS
  ResourcesMatch
  RefusesOnlyWhenFull
  AnsweredWhenDone
PROPERTIES
  StartsOnce
  LaunchIsAnswered
CHECK_DEADLOCK FALSE

SPECIFICATION Spec
CONSTANTS
  a = a  b = b  c = c  often = often  rare = rare
  Wave = {a, b, c}
  Early = {a}
  Block = {often, rare}
  Rate <- Rates
  ModelTime = 3
  Coverage = 60
  Boundary = 40
  Granulary = 4
  Discard = 1
  Ring = 3
  PeakInsts = 2
  Activated = 2
  MaxTime = 9
  Modes = {"waves", "ipc"}
INVARIANTS
  SumsMatch
  CoverageMatches
PROPERTIES
  PredictedEnds
CHECK_DEADLOCK FALSE

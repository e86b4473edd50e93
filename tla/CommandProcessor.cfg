SPECIFICATION FairSpec
CONSTANTS
  q1 = q1  q2 = q2
  Queue = {q1, q2}
  Copies <- OneEachWay
  LineSize = 4
  MemSize = 6
  CU = {u1, u2}
  AT = {a1, a2}
  Cache = {c1, c2}
  TLB = {t1, t2}
  NumDispatchers = 2
  MaxCommands = 2
  Earlier = {q2}
  MaxMigrations = 2
  Overlap = FALSE
  None = None
INVARIANTS
  StagesInOrder
  CopyIsFresh
PROPERTIES
  CopyIsExact
  EverythingAnswered
CHECK_DEADLOCK FALSE

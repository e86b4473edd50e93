SPECIFICATION FairSpec
CONSTANTS
  g1 = g1  g2 = g2
  t1 = t1  t2 = t2
  NoMsg = NoMsg
  Engine = {g1, g2}
  Txn = {t1, t2}
  Home <- HomePair
  OutCap = 2
  L1Cap = 1
  L2Cap = 1
INVARIANTS
  Quiescent
  AnsweredOnce
PROPERTIES
  NothingLeavesWhileQuiet
  DrainCompletes

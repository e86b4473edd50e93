SPECIFICATION FairSpec
CONSTANTS
  a1 = a1
  a2 = a2 
  q1 = q1
  q2 = q2
  App = {a1, a2}
  Queue = {q1, q2}
  QueueOf <- QueueEach
  GPU = {g1}
  Kind = {"noop", "launch", "copy"}
  MaxCmd = 3
  GPUCap = 1
  None = None
INVARIANTS
  CommandIsFound
  StartedWorkKeepsEngine
PROPERTIES
  DrainMeansDone
  StartedEnds
CHECK_DEADLOCK FALSE

SPECIFICATION FairSpec
CONSTANTS
  a1 = a1
  a2 = a2 
  q1 = q1
  q2 = q2
  App = {a1}
  Queue = {q1}
  QueueOf <- QueueOne
  GPU = {g1}
  Kind = {"launch"}
  MaxCmd = 1
  GPUCap = 1
  None = None
PROPERTY DrainReturns
CHECK_DEADLOCK FALSE

SPECIFICATION FairSpec
CONSTANTS
  p = p
  x = x
  y = y
  c1 = c1
  c2 = c2
  t1 = t1
  t2 = t2
  t3 = t3
  None = None
  Loops <- ThreeLoops
  Callers <- TwoCallers
  LoopOf <- Apart
  Tasks <- TwoTasks
  MaxLifecycle = 2
  MaxUpsets = 1
CHECK_DEADLOCK FALSE
PROPERTIES
  DisconnectReturns

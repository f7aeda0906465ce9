SPECIFICATION FairSpec
CONSTANTS
  p = p
  x = x
  y = y
  c1 = c1
  c2 = c2
  t1 = t1
  t2 = t2
  t3 = t3
  None = None
  Loops <- ThreeLoops
  Callers <- TwoCallers
  LoopOf <- Apart
  Tasks <- TwoTasks
  MaxLifecycle = 3
  MaxUpsets = 1
CHECK_DEADLOCK FALSE
INVARIANTS
  ClosedOnce
  SettledMeansClosed
PROPERTIES
  DetachedIsClosed
  LiveUntouched
  TakeoverReturns

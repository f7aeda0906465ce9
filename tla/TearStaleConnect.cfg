SPECIFICATION Spec
CONSTANTS
  p = p
  x = x
  y = y
  c1 = c1
  c2 = c2
  t1 = t1
  t2 = t2
  t3 = t3
  None = None
  Loops <- TwoLoops
  Callers <- TwoCallers
  LoopOf <- HomeAndAway
  Tasks <- TwoTasks
  MaxLifecycle = 3
  MaxUpsets = 0
SYMMETRY TaskSymmetry
CHECK_DEADLOCK FALSE
INVARIANTS
  SlotsCurrent

SPECIFICATION Spec
CONSTANTS
  s1 = s1
  s2 = s2
  p1 = p1
  p2 = p2
  None = None
  Poison = Poison
  Sends <- TwoSends
  PktIds <- OneId
  DMs <- TwoSends
  RecordLimit = 2
  Kinds <- AllKinds
  MaxLifecycle = 2
  MaxHeard = 0
SYMMETRY TwoSendsSymmetry
CHECK_DEADLOCK FALSE
INVARIANTS
  WaitEndsSettled

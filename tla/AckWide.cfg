SPECIFICATION Spec
CONSTANTS
  s1 = s1
  s2 = s2
  p1 = p1
  p2 = p2
  None = None
  Poison = Poison
  Sends <- TwoSends
  PktIds <- TwoIds
  DMs <- TwoSends
  RecordLimit = 1
  Kinds <- AllKinds
  MaxLifecycle = 2
  MaxHeard = 2
SYMMETRY TwoByTwoSymmetry
CHECK_DEADLOCK FALSE
INVARIANTS
  VInv
  DisconnectSettlesWaiters
  DeliveredMeansHeard
  NoVerdictLost
PROPERTIES
  SettledStays

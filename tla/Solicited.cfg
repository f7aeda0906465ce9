SPECIFICATION FairSpec
CONSTANTS
  c1 = c1
  c2 = c2
  telemetry = telemetry
  position = position
  None = None
  Calls <- TwoCalls
  Keys <- TwoKeys
  Asks <- SameOrTwo
  Skew = 1
  Start = 2
  MaxTime = 3
  MaxPackets = 2
  MaxDrops = 1
CHECK_DEADLOCK FALSE
INVARIANTS
  NoDeafWaiter
  RegistryClean
  AnswerIsFresh
  LossReachesAll
PROPERTIES
  CallsReturn

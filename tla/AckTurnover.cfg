SPECIFICATION FairSpec
CONSTANTS
  s1 = s1
  s2 = s2
  p1 = p1
  p2 = p2
  None = None
  Poison = Poison
  Sends <- OneSend
  PktIds <- OneId
  DMs <- OneSend
  RecordLimit = 1
  Kinds <- AllKinds
  MaxLifecycle = 3
  MaxHeard = 2
CHECK_DEADLOCK FALSE
PROPERTIES
  NoPhantomDelivery
  DisconnectReleases
  SendsReturn

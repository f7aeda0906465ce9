SPECIFICATION FairSpec
CONSTANTS
  None = None
  MaxLifecycle = 3
  MaxOpens = 2
  MaxDrops = 1
  MaxPauses = 1
CHECK_DEADLOCK FALSE
INVARIANTS
  LinkInv
PROPERTIES
  AllClosed
  PauseReleases
  LinkReturns

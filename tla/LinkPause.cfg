SPECIFICATION Spec
CONSTANTS
  None = None
  MaxLifecycle = 1
  MaxOpens = 1
  MaxDrops = 0
  MaxPauses = 2
CHECK_DEADLOCK FALSE
PROPERTIES
  UntimedPauseStays

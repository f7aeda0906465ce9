SPECIFICATION Spec
CONSTANTS
  owner = owner
  mate = mate
  x = x
  y = y
  None = None
  Friends <- TwoFriends
  Strangers <- TwoStrangers
  MaxPackets = 2
  MaxMenus = 2
  MaxInputs = 4
  MaxLifecycle = 2
  MaxTime = 1
  QueueMax = 1
  TaskLimit = 1
  PerHour = 1
  Hour = 1
  Cooldown = 1
  SenderLimit = 1
  TTL = 1
  PickerLimit = 1
SYMMETRY Alike
CHECK_DEADLOCK FALSE
INVARIANTS
  HeardInItsLife
  HourlyCap
  IInv
  NoticeSpacing
PROPERTIES
  NumbersAnswerMenus

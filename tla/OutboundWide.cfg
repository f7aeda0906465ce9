SPECIFICATION Spec
CONSTANTS
  s1 = s1
  Senders <- OneSender
  Kinds <- PlainOnly
  Chunks <- TwoChunks
  Keyless <- OneSender
  QueueMax = 1
  DrainMax = 2
  Retries = 1
  WorkerRoom = 1
  MaxLifecycle = 5
  MaxUpsets = 1
CHECK_DEADLOCK FALSE
INVARIANTS
  QueueInv
  QueuedMeansUnsent
  DrainBudget

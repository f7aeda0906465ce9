SPECIFICATION Spec
CONSTANTS
  s1 = s1
  Senders <- OneSender
  Kinds <- AnyKind
  Chunks <- ThreeChunks
  Keyless <- OneSender
  QueueMax = 1
  DrainMax = 2
  Retries = 1
  WorkerRoom = 1
  MaxLifecycle = 3
  MaxUpsets = 2
CHECK_DEADLOCK FALSE
PROPERTY PutBackMeansUnsent

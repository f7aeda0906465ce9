SPECIFICATION FairSpec
CONSTANTS
  j1 = j1
  j2 = j2
  j3 = j3
  j4 = j4
  Stop = Stop
  None = None
  Jobs <- ThreeJobs
  MaxQueue = 2
  MaxCancels = 1
CHECK_DEADLOCK FALSE
PROPERTIES
  WorkerExits

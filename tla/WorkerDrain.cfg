SPECIFICATION FairSpec
CONSTANTS
  j1 = j1
  j2 = j2
  j3 = j3
  j4 = j4
  Stop = Stop
  None = None
  Jobs <- FourJobs
  MaxQueue = 2
  MaxCancels = 2
CHECK_DEADLOCK FALSE
INVARIANTS
  NoneStranded
PROPERTIES
  JobsSettle
  CloseRuns

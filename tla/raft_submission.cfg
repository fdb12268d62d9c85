SPECIFICATION FairSpec
CONSTANTS
  j1 = j1
  w1 = w1
  Jobs = {j1}
  Workers = {w1}
  NoJob = NoJob
  NoWorker = NoWorker
  Handles <- AllHandles
  RaftModes = {TRUE}
  AvailableCap = 2
  DeadCap = 1
  ResultBuffer = 2
  MaxRetries = 1
  FaultKinds = {}
  MaxFaults = 0
PROPERTIES EventuallyTerminal
CHECK_DEADLOCK FALSE

SPECIFICATION FairSpec
CONSTANTS
  j1 = j1
  w1 = w1
  Jobs = {j1}
  Workers = {w1, w2, w3}
  NoJob = NoJob
  NoWorker = NoWorker
  Handles <- TopicHandles
  RaftModes = {FALSE}
  AvailableCap = 3
  DeadCap = 1
  ResultBuffer = 2
  MaxRetries = 1
  FaultKinds = {"suspect"}
  MaxFaults = 1
INVARIANTS TopicIsolation OneJobPerWorker
PROPERTIES EventuallyTerminal
CHECK_DEADLOCK FALSE

SPECIFICATION QueuesSpec
CONSTANTS
  Producers = {"submitter", "delayLoop"}
  Loop = "dispatchLoop"
  DelayLoop = "delayLoop"
  MaxItems = 3
  Jobs = {1, 3}
  Priority <- TwoLevels
  MaxTime = 2
  MaxAgain <- OneRepeats
INVARIANTS QueuesTypeOK NoLostWakeup DepthExact NoOversleep
PROPERTIES HighestFirst DelayedGetsOut EventuallyDequeued
CHECK_DEADLOCK FALSE

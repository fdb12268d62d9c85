SPECIFICATION SubmissionSpec
CONSTANTS
  MaxRetries = 3
  IDs <- MCIDs
  Keys = {k1}
  NoKey = NoKey
  NoID = NoID
  Clients = {c1}
  NoClient = NoClient
  RaftModes = {TRUE}
  ProgressTo = {"Completed"}
  MaxRestarts = 1
  MaxSnapshots = 1
  MaxCancels = 1
PROPERTY EndedStaysEnded
CHECK_DEADLOCK FALSE

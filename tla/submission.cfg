SPECIFICATION FairSubmission
CONSTANTS
  MaxRetries = 3
  IDs <- MCIDs
  Keys = {k1}
  NoKey = NoKey
  NoID = NoID
  Clients = {c1, c2}
  NoClient = NoClient
  RaftModes = {TRUE, FALSE}
  ProgressTo = {"Completed"}
  MaxRestarts = 1
  MaxSnapshots = 1
  MaxCancels = 1
INVARIANTS SubmissionTypeOK SameJobForKey  FreshIDs CancelIsFinal IndexExact
PROPERTIES EndedStaysWhileUp SubmissionAnswered
CHECK_DEADLOCK FALSE

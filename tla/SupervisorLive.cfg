SPECIFICATION FairSpec
CONSTANTS
  MaxPid = 3
  MaxRetries = 1
  ProgressTimeout = TRUE
  CompletionCheck = FALSE
  Survivors = FALSE
  PidReuse = TRUE
  MaxCrashes = 0
  MaxAcks = 1
CHECK_DEADLOCK FALSE
INVARIANT OneWorker
PROPERTY CallReturns

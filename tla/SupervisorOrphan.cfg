SPECIFICATION Spec
CONSTANTS
  MaxPid = 3
  MaxRetries = 1
  ProgressTimeout = TRUE
  CompletionCheck = TRUE
  Survivors = FALSE
  PidReuse = FALSE
  MaxCrashes = 1
  MaxAcks = 0
CHECK_DEADLOCK FALSE
INVARIANT OneWorker

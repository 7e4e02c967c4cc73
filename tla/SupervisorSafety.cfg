SPECIFICATION Spec
CONSTANTS
  MaxPid = 6
  MaxRetries = 1
  ProgressTimeout = TRUE
  CompletionCheck = TRUE
  Survivors = TRUE
  PidReuse = FALSE
  MaxCrashes = 1
  MaxAcks = 1
CHECK_DEADLOCK FALSE
INVARIANT TypeOK
INVARIANT RecordsAgree
INVARIANT LaunchBudget
INVARIANT SuccessIsDone
PROPERTY StopHolds
PROPERTY WorkerStaysRecorded

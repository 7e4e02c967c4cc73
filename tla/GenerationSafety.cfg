SPECIFICATION FairSpec
CONSTANTS
  MaxGen = 3
  Setups <- BothPaths
  MaxLaunches = 12
  MaxFaults = 3
INVARIANT TypeOK
INVARIANT CommittedStaysValid
INVARIANT CleanAttemptCommits
PROPERTY ImplementsLog
PROPERTY Finishes
CHECK_DEADLOCK FALSE

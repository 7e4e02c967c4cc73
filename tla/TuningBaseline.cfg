SPECIFICATION TuningSpec
CONSTANTS
  NumModes = 2
  MaxActions = 3
  NumCommands = 2
  MaxFaults = 2
CHECK_DEADLOCK FALSE
INVARIANT BaselineIsTried

SPECIFICATION Spec
CONSTANTS
  N = 3
  Plans <- MCPlans
  MaxFaults = 1
PROPERTIES
  StopBlocks
CHECK_DEADLOCK FALSE

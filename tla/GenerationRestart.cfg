SPECIFICATION Spec
CONSTANTS
  MaxGen = 2
  Setups <- Torus9Only
  MaxLaunches = 3
  MaxFaults = 1
INVARIANT RestartCommits
CHECK_DEADLOCK FALSE

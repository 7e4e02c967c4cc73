SPECIFICATION FairSpec
CONSTANTS
  N = 3
  Plans <- MCPlans
  MaxFaults = 3
INVARIANTS
  TypeOK
  InputsAreFinal
  VerdictIsSound
PROPERTIES
  NeverRepeated
  Settles
\* A decided workflow stops.
CHECK_DEADLOCK FALSE

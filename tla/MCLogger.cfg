SPECIFICATION Spec
CONSTANTS
  first = first
  second = second
  Instances <- MCInstances
  System = "windows"
  MaxCycles = 1
SYMMETRY InstanceSymmetry
INVARIANTS
  RaceHasWinner
  LossBounded
  InitializedHasLogger
\* Instances end.
CHECK_DEADLOCK FALSE

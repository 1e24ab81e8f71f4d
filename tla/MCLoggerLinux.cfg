SPECIFICATION Spec
CONSTANTS
  first = first
  second = second
  Instances <- MCInstances
  System = "linux"
  MaxCycles = 1
PROPERTY MissingIsCreated
CHECK_DEADLOCK FALSE

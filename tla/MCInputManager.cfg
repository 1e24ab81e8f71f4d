SPECIFICATION Spec
CONSTANTS
  Buttons <- MCButtons
  MaxEvents = 3
INVARIANTS
  KeyboardTracked
  TransitionParity
  TransitionsBounded
PROPERTIES
  DropTerminatesGlfw
  KeepsPromise
CHECK_DEADLOCK FALSE

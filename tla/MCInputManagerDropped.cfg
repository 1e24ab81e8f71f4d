SPECIFICATION Spec
CONSTANTS
  Buttons <- MCButtons
  MaxEvents = 3
INVARIANTS
  AllEventsProcessed
CHECK_DEADLOCK FALSE

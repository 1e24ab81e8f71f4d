SPECIFICATION LeafSpec
CONSTANTS
  Tests <- MCTests
  Strings <- MCStrings
  Errnos <- MCErrnos
  Coordinates <- MCCoordinates
  Bound = 2
INVARIANTS
  AnswersAreRight
  PathIsAnswer
  ErrorsAreSeen
  NearestReported
  FirstNameLeads
PROPERTY
  ReadsWhatWas
\* Each of the functions returns.
CHECK_DEADLOCK FALSE

SPECIFICATION Spec
CONSTANTS
  Letters <- MCLetters
  Canonical <- MCCanonical
  Capacity = 5
  Results <- MCResults
INVARIANTS
  
  SizeCoherent
  CleanIsFinal
  DescendantsFound
  NameAndExtension
PROPERTIES
  ComponentsKept
CHECK_DEADLOCK FALSE

SPECIFICATION Spec
CONSTANTS
  Requests <- Asked
  Categories <- Directions
  MaxCalls = 2
  PageLimit = 50
CHECK_DEADLOCK FALSE
INVARIANTS
  PersonKept
  NothingForeign
  AnswersArrive
  AnswersAreHeard
  ShelfInOrder
PROPERTIES
  EverybodyAnswered

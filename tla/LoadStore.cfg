CONSTANTS
  MaxFaults = 2
  MaxOthers = 2
SPECIFICATION Spec
CHECK_DEADLOCK FALSE
INVARIANTS
  OnlyTheAnswerIsOpen
  LiveEarnsItsPlace
  AnswerHasServices

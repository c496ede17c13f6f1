SPECIFICATION Spec
CONSTANTS
  Faults <- AllFaults
INVARIANTS
  AnswersAreOwn
PROPERTIES
  ImplementsContract
  RefreshEnds
CHECK_DEADLOCK FALSE

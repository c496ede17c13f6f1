SPECIFICATION Spec
CONSTANTS
  MaxBackups = 4
  MaxDay = 3
  Policy <- SmallPolicy
  MaxFaults = 1
INVARIANTS
  NewestAreKept
PROPERTIES
  YoungAreSpared
CHECK_DEADLOCK FALSE

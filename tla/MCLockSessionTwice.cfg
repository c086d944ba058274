CONSTANTS
  MaxGrants = 3
  MaxSpaces = 2
  MaxCommands = 1
  MaxEvents = 1
SPECIFICATION Spec
INVARIANTS TokenIsUsedOnce
CHECK_DEADLOCK FALSE

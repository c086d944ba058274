CONSTANTS
  MaxGrants = 3
  MaxSpaces = 2
  MaxCommands = 2
  MaxEvents = 1
SPECIFICATION Spec
INVARIANTS TypeOK SessionIsKept RestartFindsTheSession SealedForItsSpace NothingStaysBehind
CHECK_DEADLOCK FALSE

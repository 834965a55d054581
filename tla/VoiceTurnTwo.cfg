SPECIFICATION Spec
CONSTANTS
  MaxTurns = 2
  MaxItems = 2
  MaxFaults = 1
INVARIANTS
  TerminalMatchesState
PROPERTIES
  ImplementsLifecycle
  InterruptionOwnsTurn
CHECK_DEADLOCK FALSE

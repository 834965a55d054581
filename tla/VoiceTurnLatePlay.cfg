SPECIFICATION Spec
CONSTANTS
  MaxTurns = 1
  MaxItems = 2
  MaxFaults = 0
PROPERTIES
  NoPlaybackAfterInterruption
CHECK_DEADLOCK FALSE

SPECIFICATION SSpec
CONSTANTS
  MaxTurns = 1
  MaxItems = 4
  MaxFaults = 2
  Starts = {s1}
  Stops = {x}
  None = None
  MaxSpoken = 2
  Parts = 2
  FrameSize = 1
  QueueSize = 1
INVARIANTS
  HistoryWasHeard
  HistoryIsDurable
  PassedInOrder
  AdoptedAreReleased
PROPERTIES
  StartedTurnsEnd
  ShutdownComesToRest
  
CHECK_DEADLOCK FALSE

SPECIFICATION Spec
CONSTANTS
  Starts = {s1}
  Stops = {x}
  None = None
  MaxSpoken = 0
  Parts = 2
  FrameSize = 1
  QueueSize = 1
INVARIANTS
  NoStrayCapture
CHECK_DEADLOCK FALSE

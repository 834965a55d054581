CONSTANTS
  MaxFaults = 1
SPECIFICATION Spec
CHECK_DEADLOCK FALSE
INVARIANTS
  CleanMeansClosed
  StageNeverOrphaned
PROPERTIES
  StopComesThrough

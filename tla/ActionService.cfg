SPECIFICATION Spec
CONSTANTS
  Actions = {a1}
  Confirms = {c1, c2}
  Undos = {u1}
  NoCall = NoCall
  MaxConcurrent = 1
  MaxPending = 1
  MaxFaults = 2
  MaxBreaks = 1
INVARIANTS
  ExecutedOnce
  IntentIsDurable
  NothingStranded
PROPERTIES
  DeniedNeverRuns
  ImplementsApprovals
  CallsReturn
CHECK_DEADLOCK FALSE

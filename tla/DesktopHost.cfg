SPECIFICATION Spec
CONSTANTS
  Texts = {t1}
  Voices = {v}
  None = None
  MaxFaults = 1
INVARIANTS
  TextTurnsAreAnswered
PROPERTIES
  TextTurnsEnd
CHECK_DEADLOCK FALSE

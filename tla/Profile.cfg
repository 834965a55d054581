CONSTANTS
  r1 = r1 r2 = r2 r3 = r3 s = s b = b
  Runs = {r1, r2, r3}
  Restores = {s}
  Backups = {b}
  None = None
  Torn = Torn
  MaxWrites = 2
  MaxFaults = 1
  MaxCrashes = 1
SPECIFICATION Spec
SYMMETRY Symmetric
CHECK_DEADLOCK FALSE
INVARIANTS
  ProfileIsKept
  UncleanIsNoticed

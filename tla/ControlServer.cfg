SPECIFICATION Spec
CONSTANTS
  Socks = {w1, w2}
  Reqs = {r1, r2}
  Pubs = {p1, p2}
  Nobody = Nobody
  MaxActive = 1
INVARIANTS
  WelcomeThenEvents
PROPERTIES
  DisconnectIsNoticed
CHECK_DEADLOCK FALSE

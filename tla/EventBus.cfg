SPECIFICATION Spec
CONSTANTS
  e1 = e1
  e2 = e2
  u1 = u1
  u2 = u2
  f1 = f1
  Appends = {e1, e2}
  Upserts = {u1}
  Forgets = {f1}
  Rebuilds = {r}
  Closes = {x}
  Source <- MCSource
  Handlers = {h1}
  NoTask = NoTask
  NoEvent = NoEvent
  NoHolder = NoHolder
  MaxFaults = 1
INVARIANTS
  DeliveredIsDurable
  FactsCiteEvents
  RebuildIsAtomic
  DeliveryIsSerial
PROPERTIES
  PublishesReturn
CHECK_DEADLOCK FALSE

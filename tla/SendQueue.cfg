SPECIFICATION Spec
CONSTANTS
  Item = {a, b}
  Archiving = {b}
  NoItem = NoItem
  MaxRetries = 1
  Batch = 2
  MaxDials = 2
  MaxStops = 1
  MaxTouches = 1
INVARIANTS
  NoDuplicateDelivery
  SentWasDelivered
PROPERTIES
  CancelledWhileIdleStaysUnsent
  EveryMessageSettles
  ImplementsOutbox

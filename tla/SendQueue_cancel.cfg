\* A confirmed cancellation in the outbox without crashes: one user, one worker.
SPECIFICATION Spec
CONSTANTS
  Item = {a, b}
  Archiving = {b}
  NoItem = NoItem
  MaxRetries = 1
  Batch = 2
  MaxDials = 2
  MaxStops = 0
  MaxTouches = 1
PROPERTIES
  ConfirmedCancelHolds

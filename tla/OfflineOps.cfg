SPECIFICATION Spec
CONSTANTS
  u1 = u1
  u2 = u2
  Key <- Changes
  Replay = {r1, r2}
  MaxRetries = 2
  MaxIntents = 2
  MaxValidity = 2
INVARIANTS
  TypeOK
  ChangesReachTheServer
PROPERTIES
  ServerFollowsWishes
  QueueDrains
CHECK_DEADLOCK FALSE

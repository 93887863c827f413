\* A change made while a replay is under way.
SPECIFICATION Spec
CONSTANTS
  u1 = u1
  u2 = u2
  Key <- Changes
  Replay = {r1}
  MaxRetries = 2
  MaxIntents = 2
  MaxValidity = 2
PROPERTIES
  DoneMeansTold
CHECK_DEADLOCK FALSE

SPECIFICATION Spec
CONSTANTS
  MaxUid = 2
  MaxSpace = 2
  MaxPerPass = 1
  MaxRounds = 2
  MaxAttempts = 2
  MaxActions = 2
  MaxFaults = 1
  KnownAtStart = {TRUE, FALSE}
INVARIANTS
  TypeOK
  ActsInItsSpace
  ActsOnce
  NothingIsSteppedOver
  WorkIsRemembered
PROPERTIES
  EveryRowGetsItsTurn

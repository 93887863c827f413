SPECIFICATION Spec
CONSTANTS
  MaxConnections = 3
  MaxRetries = 2
INVARIANTS
  TypeOK
  SlotsExact
PROPERTIES
  OperationEnds

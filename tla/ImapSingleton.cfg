SPECIFICATION Spec
CONSTANTS
  Key = {k1, k2}
  NoKey = NoKey
  Conn = {c1, c2, c3, c4, c5}
  NoConn = NoConn
  MaxRetries = 1
  MaxForgotten = 1
INVARIANTS
  UsesItsOwnAccount
  OpenIsKnown
  ClientHasHeartbeat
PROPERTIES
  OperationsAreShort

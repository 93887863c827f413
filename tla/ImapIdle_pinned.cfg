SPECIFICATION Spec
CONSTANTS
  Key = {k1}
  NoKey = NoKey
  Call = {x1, x2}
  NoCall = NoCall
  Over = Over
  Stop = {s1}
  Conn = {c1, c2, c3, c4}
  NoConn = NoConn
  MaxReconnect = 2
INVARIANT
  EndedLoopIsCleared

SPECIFICATION Spec
CONSTANTS
  Key = {k1, k2}
  NoKey = NoKey
  Call = {x1, x2}
  NoCall = NoCall
  Over = Over
  Stop = {s1}
  Conn = {c1, c2, c3, c4}
  NoConn = NoConn
  MaxReconnect = 2
SYMMETRY Symmetry
INVARIANTS
  ReplacedLoopsLeave
  OneLoopPerClient
  OpenIsKnown
  QuietAfterStop
PROPERTIES
  LoopsComeToAnEnd

\* Four calls of two tiers, two accounts, three mutex objects: a dropped mutex can be replaced
\* while the old one is still held.
\* Promotion after two overtakes instead of eight.
SPECIFICATION Spec
CONSTANTS
  MaxOvertakes = 2
  Call = {c1, c2, c3, c4}
  Key = {k1, k2}
  Mutex = {m1, m2, m3}
  Priority = {"interactive", "indexer"}
  NoMutex = NoMutex
  NoKey = NoKey
  NotWaiting = NotWaiting
INVARIANTS
  TypeOK
  MutualExclusion
  WaitersHaveAnOwner
  OvertakenBounded
  ScanFindsTheNext
PROPERTIES
  FifoWithinTier
  NoStarvation
  ImplementsBoundedWaitLock

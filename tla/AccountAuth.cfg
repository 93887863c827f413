\* One id, held first by an OAuth account, then by one with a password; two
\* operations.  The run stops when the second account is removed.
CHECK_DEADLOCK FALSE
SPECIFICATION Spec
CONSTANTS
  Op = {o1, o2}
  NoOp = NoOp
  MaxMailbox = 2
  OAuth = {1}
  Threshold = 2
  Window <- MCWindow
INVARIANTS
  TypeOK
  FreedIdIsClean
  OneCallPerWindow
PROPERTIES
  VerdictsStayHome
  TroubleIsShown

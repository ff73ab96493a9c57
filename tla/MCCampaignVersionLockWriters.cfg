SPECIFICATION Spec
CONSTANTS
  r1 = r1
  r2 = r2
  c1 = c1
  c2 = c2
  None = None
  Request <- TwoRequests
  Conn <- TwoConns
  MaxLosses = 2
INVARIANTS
  TypeOK
  IdleSessionsHoldNoLock
  ClaimedVersionStands
PROPERTIES
  OneChangePerVersion
  ConfirmedStatusIsReal
  EveryLockIsReleased
CHECK_DEADLOCK FALSE

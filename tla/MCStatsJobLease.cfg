SPECIFICATION Spec
CONSTANTS
  p1 = p1
  p2 = p2
  c1 = c1
  c2 = c2
  c3 = c3
  k1 = k1
  k2 = k2
  Free = Free
  Ghost = Ghost
  Closer = Closer
  Pod <- TwoPods
  Call <- ThreeCalls
  Key <- TwoKeys
  PodOf <- TwoOnOnePod
  MaxDeaths = 1
  MaxCloses = 1
INVARIANTS
  LeaseMatchesLocks
  OwnersSessionIsOpen
PROPERTIES
  OwnershipIsConfirmed
  ClosedLeaseIsGivenUp
CHECK_DEADLOCK FALSE

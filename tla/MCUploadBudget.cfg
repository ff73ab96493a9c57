SPECIFICATION BudgetSpec
CONSTANTS
  u1 = u1
  u2 = u2
  u3 = u3
  Request <- ThreeUploads
  WireSize = {1, 3}
  PixelSize = {1, 2}
  Total = 5
  Reserve = 2
INVARIANTS
  ChargesAddUp
  NoWaiterOverlooked
  PixelsWaitOnlyOnDecodes
PROPERTIES
  AdmittedUploadsDrain
CHECK_DEADLOCK FALSE

SPECIFICATION Spec
CONSTANTS
  j1 = j1
  j2 = j2
  taken = taken
  free = free
  None = None
  Job <- TwoJobs
  Foreign = {taken, free}
  BoundElsewhere = {taken}
  MaxVersion = 3
  MaxDeleted = 2
  MaxCleared = 1
SYMMETRY JobSymmetry
INVARIANTS
  TypeOK
  NoDoubleCreate
  EveryCampaignTracked
  DoubleSubmitCreatesOne
PROPERTIES
  NewVersionNeverRevivesADeleted
  OnlyTheOwnerTouchesARow
  BesideOnlyByClaim
CHECK_DEADLOCK FALSE

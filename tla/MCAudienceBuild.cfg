SPECIFICATION Spec
CONSTANTS
  b1 = b1
  b2 = b2
  NoRead = NoRead
  Build <- TwoBuilds
  MaxVersion = 4
  MaxEdits = 1
  MaxFaults = 1
SYMMETRY Symmetry
INVARIANTS
  JobsUseSignedOffContent
  NoClaimLeftBehind
PROPERTIES
  ListsAreOfTheApprovedContent
  NoBlindRebuild
CHECK_DEADLOCK FALSE

SPECIFICATION Spec
CONSTANTS
  brief = brief
  campaign = campaign
  pod1 = pod1
  pod2 = pod2
  None = None
  Object <- TwoObjects
  Poison <- NoPoison
  Pod <- TwoPods
  BatchLimit = 2
  MaxWrites = 3
  MaxBuffer = 2
  MaxCrashes = 1
SYMMETRY Symmetry
INVARIANTS
  OneRequestPerObject
  ShownInTurn
PROPERTIES
  OnlyLateRequestsGoBack
  ImplementsSearchIndex
CHECK_DEADLOCK FALSE

SPECIFICATION Spec
CONSTANTS
  brief = brief
  campaign = campaign
  pod1 = pod1
  pod2 = pod2
  None = None
  Object <- OneObject
  Poison <- NoPoison
  Pod <- TwoPods
  BatchLimit = 1
  MaxWrites = 2
  MaxBuffer = 1
  MaxCrashes = 0
PROPERTIES
  IndexNeverGoesBack
CHECK_DEADLOCK FALSE

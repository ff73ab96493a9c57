SPECIFICATION FairSpec
CONSTANTS
  brief = brief
  campaign = campaign
  pod1 = pod1
  pod2 = pod2
  None = None
  Object <- TwoObjects
  Poison <- BriefIsPoison
  Pod <- OnePod
  BatchLimit = 1
  MaxWrites = 2
  MaxBuffer = 1
  MaxCrashes = 1
PROPERTIES
  EveryWriteIsIndexed
CHECK_DEADLOCK FALSE

SPECIFICATION Spec
CONSTANTS
  j1 = j1
  j2 = j2
  linkedin = linkedin
  pod1 = pod1
  pod2 = pod2
  None = None
  Job <- TwoJobs
  Platform <- OnePlatform
  Pod <- TwoPods
  Slots = 1
  QueueTimeout = 2
  CallTimeout = 1
  Cutoff = 3
  MaxExits = 1
INVARIANTS
  SweeperSparesLiveRuns
  SlotsAreHeldByCalls
  CleanShutdownStrandsNoRun
PROPERTIES
  VerdictIsFinal
  EveryJobSettles

SPECIFICATION Spec
CONSTANTS
  j1 = j1
  j2 = j2
  taken = taken
  free = free
  None = None
  Job <- TwoJobs
  Foreign = {free}
  BoundElsewhere = {}
  MaxVersion = 2
  MaxDeleted = 0
  MaxCleared = 0
SYMMETRY JobSymmetry
PROPERTIES
  RetryNeverAddsACampaign
CHECK_DEADLOCK FALSE

SPECIFICATION Spec
CONSTANTS
  p1 = p1
  p2 = p2
  c1 = c1
  c2 = c2
  c3 = c3
  System = System
  Nothing = Nothing
  Project <- TwoProjects
  Call <- ThreeCalls
  ProjectOf <- TwoOfOneProject
  MaxWrites = 2
  MaxExpiries = 1
SYMMETRY Symmetry
INVARIANTS
  MadeFromTheRowRead
  LeaversGetNoSystemClient
PROPERTIES
  NothingIsMadeTwice
CHECK_DEADLOCK FALSE

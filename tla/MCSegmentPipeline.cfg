CONSTANTS
  Camera = {c1}
  Name = {n1, n2}
  None = none
  Start = {k1, k2}
  MaxSegments = 2
  Concurrency = 2
  MaxRenames = 1
  MaxFaults = 0
  MaxExits = 1
SPECIFICATION Spec
SYMMETRY Symmetry
INVARIANTS
  TypeOK
  LossExplained
  

  
CHECK_DEADLOCK FALSE

CONSTANTS
  Camera = {c1}
  Name = {n1}
  None = none
  Start = {k1, k2}
  MaxSegments = 2
  Concurrency = 1
  MaxRenames = 0
  MaxFaults = 1
  MaxExits = 0
SPECIFICATION FairSpec
PROPERTIES
  SegmentsSettle
CHECK_DEADLOCK FALSE

CONSTANTS
  Camera = {c1}
  Worker = {w1, w2}
  Caller = {p1, p2}
  None = None
  MaxRevision = 2
  MaxRequests = 3
  MaxUnknown = 1
SPECIFICATION FairSpec
INVARIANTS
  TypeOK
  OneTaskPerCamera
  OrphanOnlyFromRace
  
  OutdatedSpawnsBounded
PROPERTIES
  
  CallsReturn
  StaleWorkerLeaves

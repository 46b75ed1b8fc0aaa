CONSTANTS
  Recording = {r1}
  Api = {a1}
  Loop = loop
  Emergency = emergency
  Concurrency = 1
  RetryMax = 2
  MaxScans = 1
  MaxRetries = 1
  MaxCrashes = 1
SPECIFICATION FairSpec
INVARIANTS
  TypeOK
  OnlyReuploadEndangers
  
PROPERTIES
  RetentionRespected
  
CHECK_DEADLOCK FALSE

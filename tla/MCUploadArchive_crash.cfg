CONSTANTS
  Recording = {r1}
  Api = {a1}
  Loop = loop
  Emergency = emergency
  Concurrency = 1
  RetryMax = 2
  MaxScans = 0
  MaxRetries = 0
  MaxCrashes = 1
SPECIFICATION FairSpec
PROPERTIES
  InterruptedResume
CHECK_DEADLOCK FALSE

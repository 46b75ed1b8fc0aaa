SPECIFICATION MCSpec
CONSTANTS
  Cameras = {1, 2}
  Jobs = {1, 2}
  MaxPosts = 2
  MaxGroups = 1
  MaxDeletions = 2
  MaxRestarts = 1
  Threshold = 2
  MaxExits = 3
  MaxStops = 1
  MaxLapses = 1
  Warning = 1
  Critical = 3
  Full = 3
  MaxEvents = 2
  MaxRaises = 1
  FailureThreshold = 3
  MaxUpsets = 2
  Sessions = {1, 2}
  Spares = {TRUE, FALSE}
  MaxEdits = 1
  Streams = {1}
  QueueSize = 2
  MaxLosses = 1
  Recordings = {1, 2}
  Tasks = {1, 2, 3}
  Clients = {1, 2}
  Hosts = {1, 2}
  Targets = {1, 2}
  MaxWrites = 4
INVARIANTS
  TypeOK
  
  
  
  
  

  
CHECK_DEADLOCK FALSE

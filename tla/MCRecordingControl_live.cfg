CONSTANTS
  Camera = {c1}
  c1 = c1
  c2 = c2
  Caller = {a1}
  Poll = poll
  None = None
  Probed = {c1}
  Requests = {"start", "stop", "restart", "edit", "switch", "delete", "batch"}
  MaxRequests = 2
  MaxTicks = 1
SPECIFICATION FairSpec
PROPERTIES
  DisabledStops
  EligibleRecords
  PauseReleased
  WindowEndsRecording

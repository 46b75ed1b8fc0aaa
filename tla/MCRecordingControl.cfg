CONSTANTS
  Camera = {c1, c2}
  c1 = c1
  c2 = c2
  Caller = {a1, a2}
  Poll = poll
  None = None
  Probed = {c1, c2}
  Requests = {"start", "stop", "restart", "edit", "switch", "delete", "batch"}
  MaxRequests = 2
  MaxTicks = 2
SPECIFICATION NeighbourSpec
SYMMETRY Symmetry
INVARIANTS
  TypeOK
  

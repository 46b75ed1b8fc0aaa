CONSTANTS
  Tasks = {t1,t2,t3}
  Callers = {c1, c2}
  Loop = loop
  None = None
  MaxRequests = 2
  MaxEvents = 1
  MaxEdits = 0
SPECIFICATION Safety
SYMMETRY Symmetry
INVARIANTS
  TypeOK
  OneMotionTask
  PinsMatch
  

CONSTANTS
  Tasks = {t1}
  Callers = {c1}
  Loop = loop
  None = None
  MaxRequests = 1
  MaxEvents = 1
  MaxEdits = 1
SPECIFICATION Spec
PROPERTIES
  RingSettles

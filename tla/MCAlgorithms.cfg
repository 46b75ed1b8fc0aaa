CONSTANTS
  DayLength = 3
  Now = 5
  MinGap = 1
  Padding = 1
  MaxOutage = 2
  Tolerance = 1
SPECIFICATION Spec
INVARIANTS
  ExportsRight
  ReportTrue
  ViewsAgree
  WindowsRight
CHECK_DEADLOCK FALSE

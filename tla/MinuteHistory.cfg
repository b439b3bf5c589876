CONSTANTS
  s1 = s1
  s2 = s2
  r1 = r1
  r2 = r2
  Server <- Servers2
  Request <- Requests2
  Free = Free
  Checkpoint = Checkpoint
  Skew = 1
  Retention = 1
  MaxMinute = 3
  MaxReports = 3
  MaxEdits = 2
SPECIFICATION Spec
SYMMETRY Symmetric
INVARIANTS
  TypeOK
  ClosedMinuteIsComplete
  LatestIsOfActiveMinute
  CleanStopPersists

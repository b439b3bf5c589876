CONSTANTS
  s1 = s1
  s2 = s2
  r1 = r1
  r2 = r2
  Server <- Servers2
  Request <- Requests2
  Free = Free
  Checkpoint = Checkpoint
  Skew = 1
  Retention = 0
  MaxMinute = 2
  MaxReports = 3
  MaxEdits = 1
SPECIFICATION FairSpec
PROPERTY EveryReportIsAnswered

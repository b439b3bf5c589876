CONSTANTS
  s1 = s1
  s2 = s2
  u1 = u1
  u2 = u2
  Server <- Servers1
  Admin <- Admins1
  NoServer = NoServer
  Threshold = {2}
  Retention = 1
  IngestLag = 0
  RollbackAllowed = FALSE
  MaxEdits = 0
  MaxTime = 5
  MaxId = 4
  BatchSize = 2
  MaxAttempts = 2
  RetryDelay <- MCRetryDelay
SPECIFICATION Spec
PROPERTY RecoveryReachesTheTold

CONSTANTS
  s1 = s1
  s2 = s2
  u1 = u1
  u2 = u2
  Server <- Servers1
  Admin <- Admins1
  NoServer = NoServer
  Threshold = {1}
  Retention = 1
  IngestLag = 0
  RollbackAllowed = FALSE
  MaxEdits = 1
  MaxTime = 2
  MaxId = 2
  BatchSize = 1
  MaxAttempts = 1
  RetryDelay <- MCRetryDelay
SPECIFICATION FairSpec
PROPERTIES
  EveryRowIsSettled
  SilenceIsNoticed
  RecoveryIsNoticed

CONSTANTS
  s1 = s1
  s2 = s2
  u1 = u1
  u2 = u2
  Server <- Servers1
  Admin <- Admins1
  NoServer = NoServer
  Threshold = {2, 3}
  Retention = 1
  IngestLag = 1
  RollbackAllowed = FALSE
  MaxEdits = 2
  MaxTime = 5
  MaxId = 2
  BatchSize = 2
  MaxAttempts = 1
  RetryDelay <- MCRetryDelay
SPECIFICATION Spec
INVARIANTS
  EpisodeShape
  OneRowPerTransition
  QueuedRowsRender
PROPERTIES
  FullGrace
  RecoveryReachesTheSteady

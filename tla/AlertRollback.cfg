CONSTANTS
  s1 = s1
  s2 = s2
  u1 = u1
  u2 = u2
  Server <- Servers1
  Admin <- Admins1
  NoServer = NoServer
  Threshold = {1}
  Retention = 1
  IngestLag = 0
  RollbackAllowed = TRUE
  MaxEdits = 2
  MaxTime = 3
  MaxId = 2
  BatchSize = 1
  MaxAttempts = 1
  RetryDelay <- MCRetryDelay
SPECIFICATION Spec
INVARIANT EpisodeShape
PROPERTY KeepsContract

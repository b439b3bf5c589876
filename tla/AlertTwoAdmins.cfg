CONSTANTS
  s1 = s1
  s2 = s2
  u1 = u1
  u2 = u2
  Server <- Servers1
  Admin <- Admins2
  NoServer = NoServer
  Threshold = {2}
  Retention = 4
  IngestLag = 0
  RollbackAllowed = FALSE
  MaxEdits = 2
  MaxTime = 3
  MaxId = 4
  BatchSize = 2
  MaxAttempts = 2
  RetryDelay <- MCRetryDelay
SPECIFICATION Spec
SYMMETRY Symmetric
INVARIANTS
  TypeOK
  PendingIsServed
  DeliveredWasAccepted
PROPERTIES
  OutboxSettlesOnce
  InOrder
  RecoveryFollowsOffline
  RecoveryReachesTheSteady

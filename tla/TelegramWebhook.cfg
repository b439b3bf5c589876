CONSTANTS
  u1 = u1
  d1 = d1
  d2 = d2
  User <- Users1
  Delivery <- Deliveries2
  Keep = 0
  Retention = 1
  MaxTime = 3
  MaxUpdates = 2
  MaxEdits = 1
SPECIFICATION FairSpec
INVARIANTS
  TypeOK
  CommandAtMostOnce
  NothingLostUnnoticed
  LastCommandStands
PROPERTY EveryUpdateLeaves
CHECK_DEADLOCK FALSE

CONSTANTS
  a1 = a1
  a2 = a2
  Admin <- Admins2
  PageSize = 1
  MaxPages = 3
  Existing = 3
  MaxRecords = 4
  MaxName = 3
  MaxStamp = 5
SPECIFICATION Spec
SYMMETRY Symmetric
INVARIANTS
  TypeOK
  ListingIsComplete
PROPERTY AppliedAsSeen
CHECK_DEADLOCK FALSE

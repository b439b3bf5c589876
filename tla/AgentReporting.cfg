CONSTANTS
  eth0 = eth0
  eth1 = eth1
  r1 = r1
  r2 = r2
  Interface <- Interfaces2
  Request <- Requests2
  MaxBytes = 2
  MaxLead = 2
  MaxFaults = 2
SPECIFICATION FairSpec
INVARIANTS
  TypeOK
  NoByteReportedTwice
  EndsOnlyIfAsked
PROPERTY HeardAgain

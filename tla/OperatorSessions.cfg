CONSTANTS
  b1 = b1
  r1 = r1
  r2 = r2
  Browser <- Browsers1
  Request <- Requests2
  MaxAge = 1
  Skew = 0
  TTL = 2
  MaxTime = 4
  MaxLogins = 1
  MaxTokens = 2
SPECIFICATION Spec
SYMMETRY Symmetric
INVARIANTS
  TypeOK
  AccessIsBounded
  LoggedOutStaysOut
  SessionLastsItsTerm
  ShownTokenIsStored
PROPERTY EditsUndoNothing
CHECK_DEADLOCK FALSE

CONSTANTS
  OwnerJoins = TRUE
  CreateMayFail = TRUE
SPECIFICATION FairSpec
INVARIANTS
  IInv
  RunWaits
  KillWaits
PROPERTIES
  SyncReturns
  CancelReturns
CHECK_DEADLOCK FALSE

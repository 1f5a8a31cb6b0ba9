SPECIFICATION FairLockSpec
CONSTANTS
  Processes = {p1, p2, p3}
  NoLock = NoLock
  IdentityIsChecked = TRUE
CHECK_DEADLOCK FALSE
INVARIANTS
  OwnerKeepsItsLock
PROPERTIES
  RefusedOnlyByALiveOwner
  StartIsDecided

SPECIFICATION FairSpec
CONSTANTS
  Desktop = {d1, d2}
  Control = {k1}
  None = None
  MaxSessions = 4
CHECK_DEADLOCK FALSE
INVARIANTS
  OneSessionPerHistory
  SessionsAreOwned
  RegistryFollowsStore
  SucceededTurnsKeepTheirIds
PROPERTIES
  CallsEnd

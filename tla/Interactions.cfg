SPECIFICATION FairSpec
CONSTANTS
  Asked = {a, q, x}
  Approvals = {a, x}
  Expiring = {q}
  Odd = {x}
  Fallible = {a, x}
  MaxFailures = 1
  MaxPending = 2
  Deletable = TRUE
  None = None
CHECK_DEADLOCK FALSE
INVARIANTS
  AnsweredOrResolved
  NothingLeftBehind
PROPERTIES
  DecisionsArrive
  StoppedTurnEndsUnlessLost

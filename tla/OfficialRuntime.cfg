SPECIFICATION Spec
CONSTANTS
  Calls = {c1, c2, c3}
  Accounts = {a0, a1}
  DefaultAccount = a0
  None = None
  MaxRetired = 2
  InitializeIsEarly = TRUE
  NoUseWhileDeleting = TRUE
SYMMETRY AnyOrder
CHECK_DEADLOCK FALSE
INVARIANTS
  NothingOutlivesThePool
  DeletedIsGone
  LateAnswersStayInside
  NobodyWaitsForTheDead
PROPERTY
  GreetedBeforeUse

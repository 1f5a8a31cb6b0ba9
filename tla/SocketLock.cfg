SPECIFICATION Spec
CONSTANTS
  Callers = {1, 2, 3}
  None = None
  RetryCount = 2
  MaxTicket = 2
  MaxCrashes = 2
  OwnersArePrompt = TRUE
CHECK_DEADLOCK FALSE
INVARIANTS
  MutualExclusion
  FirstTicketActs
  EntryIsKept

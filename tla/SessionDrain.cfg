SPECIFICATION FairSpec
CONSTANTS
  Threads = {o1, o2}
  Turns = {t1, t2}
  None = None
  OneStartAtATime = TRUE
  ResponsesFirst = TRUE
  ParentHolds = TRUE
CHECK_DEADLOCK FALSE
INVARIANTS
  ReleasedOnlyWhenIdle
PROPERTIES
  DrainEnds

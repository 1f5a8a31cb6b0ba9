SPECIFICATION FairSpec
CONSTANTS
  Calls = {c1, c2}
  Requests = {r1}
  Tasks = {"t1", "t2"}
  None = None
  Terminal = {"completed"}
  MaxWrites = 1
  MaxCrashes = 1
  MaxLeft = 1
CHECK_DEADLOCK FALSE
INVARIANTS
  
  RestartLoads
PROPERTIES
  NoSecondChild
  
  StartEnds

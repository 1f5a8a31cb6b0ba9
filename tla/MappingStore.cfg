SPECIFICATION Spec
CONSTANTS
  Threads = {t1, t2}
  Requests = {q1, q2}
  Sessions = {s1, s2}
  HostTurns = {h1, h2}
  NativeTurns = {n1}
  Checkpoints = {}
  Labels = {"a"}
  None = None
  Torn = Torn
  MaxRevision = 3
  MaxTurns = 1
  MaxFaults = 1
SYMMETRY Symmetry
INVARIANTS
  GlobalIdentity
  RestartNeverFails
  MemoryIsDurable

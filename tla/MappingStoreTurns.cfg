SPECIFICATION Spec
CONSTANTS
  Threads = {t1}
  Requests = {q1}
  Sessions = {s1, s2}
  HostTurns = {h1, h2}
  NativeTurns = {n1, n2}
  Checkpoints = {c1, c2}
  Labels = {"a", "b"}
  None = None
  Torn = Torn
  MaxRevision = 4
  MaxTurns = 2
  MaxFaults = 0
SYMMETRY Symmetry
PROPERTIES
  ImplementsAtomicStore
  TurnIdentityIsStable
  RollbackKeepsPrefix

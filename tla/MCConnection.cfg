SPECIFICATION Spec
CONSTANTS
  p1 = p1
  p2 = p2
  q1 = q1
  Callers <- MCCallers
  Closers <- MCClosers
  None = None
  MaxID = 3
  SockCap = 1
  Kinds <- AllKinds
  Answered <- Acked
  ReadTimeout = TRUE
SYMMETRY CallerSymmetry
INVARIANTS TypeOK OwnResponse NoDoubleClose NoOrphanWaiter
PROPERTIES StopIsFinal KeepsPromise

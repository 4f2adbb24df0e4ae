SPECIFICATION LiveSpec
CONSTANTS
  p1 = p1
  p2 = p2
  q1 = q1
  Callers <- MCCallers
  Closers <- MCClosers
  None = None
  MaxID = 3
  SockCap = 1
  Kinds <- OneMixed
  Answered <- Acked
  ReadTimeout = TRUE
PROPERTIES EveryCallReturns SilenceReleases

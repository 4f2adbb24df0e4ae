SPECIFICATION LiveSpec
CONSTANTS
  w1 = w1
  w2 = w2
  c1 = c1
  c2 = c2
  Callers <- MCCallers
  None = None
  Workers <- TwoWorkers
  MaxItems = 2
INVARIANTS NoDoubleClose EmptyIsClosed AtMostOneLost
PROPERTIES MergesStreams CloseStopsAll ConsumeReturns

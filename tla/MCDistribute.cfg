SPECIFICATION Spec
CONSTANTS
  c1 = c1
  c2 = c2
  k1 = k1
  k2 = k2
  nil = nil
  Callers <- MCCallers
  PartitionCounts <- UpToFour
  Keys <- MCKeys
  Batches <- Short
  MinInt <- FourBits
  MaxCalls = 5
INVARIANTS TypeOK InRange Balanced NewTopicAllowed
CHECK_DEADLOCK FALSE

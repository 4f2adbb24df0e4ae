SPECIFICATION Spec
CONSTANTS
  u1 = u1
  u2 = u2
  n1 = n1
  n2 = n2
  t1 = t1
  Users <- One
  Kinds <- Commits
  Nodes <- MCNodes
  Seeds <- MCSeeds
  Parts <- MCParts
  Coordinator = n1
  Conns = {1, 2, 3, 4}
  LeaderRetryLimit = 2
  RetryLimit = 3
  Deaths <- NetworkErrors
  MaxFaults = 1
  Closes = TRUE
  NoLeader = NoLeader
  None = None
PROPERTY CloseClosesAll

SPECIFICATION Spec
CONSTANTS
  c1 = c1
  c2 = c2
  u1 = u1
  u2 = u2
  topic1 = topic1
  group1 = group1
  Clients <- MCClients
  Users <- MCUsers
  Topics <- MCTopics
  Groups <- MCGroups
  MaxPart = 1
  Sizes = {1, 2}
  FetchOffsets = {1}
  Times <- MCTimes
  EventsCap = 1
  MaxCalls = 3
SYMMETRY GoroutineSymmetry
INVARIANTS OffsetsAreIndices  PanicsAfterResetOrClose EveryoneServed
CHECK_DEADLOCK FALSE

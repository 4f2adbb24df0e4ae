SPECIFICATION Spec
CONSTANTS
  Asked <- Sound
  AskedNext <- One
  ErrNos <- MCErrNos
  Cut <- MCCut
CHECK_DEADLOCK FALSE
INVARIANTS RequestsUnderstood ResponsesUnderstood StreamsAligned NobodyForgotten

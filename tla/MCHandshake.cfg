SPECIFICATION Spec
CONSTANTS
  Transports <- Both
  Keys <- MCKeys
  MaxVersion = 3
  Driver <- MCDriver
  None = None
INVARIANTS NoSocketLeft BestVersionAgreed TCPInitialized
PROPERTY ConstructorReturns
CHECK_DEADLOCK FALSE

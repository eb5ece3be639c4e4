SPECIFICATION LockFairSpec
CONSTANTS
  Proc = {p1, p2, p3}
  Modulus = 3
  NoOwner = NoOwner
PROPERTIES
  Fifo
  ObtainReturns
  ImplementsMutex

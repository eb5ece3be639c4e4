SPECIFICATION FairSpec
CONSTANTS
  Pcpu = {c0, c1}
INVARIANTS
  NoLostRequest
  RequestInterruptsGuest
PROPERTIES
  RescheduleServed

SPECIFICATION FairSpec
CONSTANTS
  GuestVectors = {0, 1, 6, 8, 13, 14}
  HandlerVectors = {6, 13, 14}
INVARIANTS
  FollowsDoubleFaultTable
PROPERTIES
  StaleEptFlushed

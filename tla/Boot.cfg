SPECIFICATION FairSpec
CONSTANTS
  Pcpu = {0, 1, 2, 3}
  VmAffinity = {{0}, {1, 2, 3}}
  Late = {1, 2, 3}
CHECK_DEADLOCK FALSE
INVARIANTS
  PcpusStarted
PROPERTIES
  BarrierOpens

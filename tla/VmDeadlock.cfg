SPECIFICATION Spec
CONSTANTS
  Pcpu = {0,1}
  NoOwner = NoOwner
  IcrSenders = {0,1}
  FatalVcpus = {0}
  ExcVcpus = {}
CHECK_DEADLOCK FALSE
INVARIANTS RequestsDoNotDeadlock

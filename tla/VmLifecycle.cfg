SPECIFICATION FairSpec
CONSTANTS
  Pcpu = {0,1}
  NoOwner = NoOwner
  IcrSenders = {0,1}
  FatalVcpus = {0,1}
  ExcVcpus = {0,1}
CHECK_DEADLOCK FALSE
INVARIANTS StoppedVmIsOut ResetOutsideGuest
PROPERTIES FatalEndsVm LaunchedEntersGuest

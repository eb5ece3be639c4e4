SPECIFICATION Spec
CONSTANTS
  Cr0Bit = {"PE", "PG", "WP", "CD", "R"}
  Cr4Bit = {"PAE", "SMEP", "OSXSAVE", "MCE"}
  EferBit = {"LME", "LMA", "NXE", "R"}
  MiscBit = {"XD_DISABLE", "R"}
  Pat = {"WB"}
  SafetyVm = {TRUE, FALSE}
  Features = {"OSXSAVE", "XD", "VMXE", "MCE"}
  None = None
  AllowedZero = {"CR3_LOAD", "CR3_STORE", "SAVE_DEBUGCTL", "LOAD_DEBUGCTL"}
  AllowedOne = {"IRQ_EXIT", "TSC_OFF", "TPR_SHADOW", "IO_BITMAP", "MSR_BITMAP", "SECONDARY", "VAPIC", "EPT", "RDTSCP", "UNRESTRICT", "LOAD_EFER", "LOAD_PAT", "ACK_IRQ", "SAVE_PAT", "LOAD_HOST_PAT", "SAVE_EFER", "LOAD_HOST_EFER", "HOST_ADDR64"}
  TscMod = 5
  PhysAdjust = {0, 1, 3}
  NoDeadline = NoDeadline
  Level = {2, 4, 7, 13, 22}
  Subleaves = {1, 3, 4}
  Xlevel = {1, 4, 8}
INVARIANTS
  GuestStateValid
  ExitsHandled
  TranslationFollowsGuest
  OwnExtendedState
  TscAsWritten
  AnswersAgree

SPECIFICATION HostSpec
CONSTANTS
  Fan = 2
  Top = 32
  LargePages = TRUE
  TweakExe = FALSE
  PAGE_SIZE = 2
  MEM_1M = 4
  E820_MAX_ENTRIES = 4
  TopAddrSpace = 64
  LowRamSize = 2
  INVALID = INVALID
  Pcpu = {0, 1}
  BOOT_CPU_ID = 0
  FourG = 16
  HvRam = 4
  Guards = {6}
  Boots <- MCBoots
  Images = {4, 5}
  Uart <- MCUart
  Ioapics = {12}
  MaxRte = 1
  Drhds = {13}
  Configs <- MCConfigs
  ACPI_BASE = 2
  HostUnit = 4
  MaxStarts = 2
CHECK_DEADLOCK FALSE
INVARIANTS
  MappingRight
  TrampolineOwn
  HostProtected
  GuestLoaded

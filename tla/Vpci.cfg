SPECIFICATION Spec
CONSTANTS
  Vcpu = {0, 1}
  Byte = {0, 17, 255}
  Group = {"command", "bar", "msi"}
  None = None
CHECK_DEADLOCK FALSE
INVARIANTS
  MsiAsProgrammed
  IntxDisabled
  BarsWhereRegistersSay

SPECIFICATION Spec
CONSTANTS
  Vm = {0, 1}
  usb = usb
  eth = eth
  Dev <- MCDev
  Owner <- MCOwner
  Bus <- MCBus
  Vbdf <- MCVbdf
  Vector = {32, 33}
  Queue = 3
  Bsp = Bsp
  None = None
CHECK_DEADLOCK FALSE
INVARIANTS
  DmaConfined
  IrteRight
PROPERTIES
  RequestsAnswered

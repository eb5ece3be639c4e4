SPECIFICATION Spec
CONSTANTS
  RX_BUF_SIZE = 2
  TX_BUF_SIZE = 2
  None = None
  Vm = {0, 1}
  Peer <- MCPeer
  Loopback <- MCLoopback
  Divisor <- MCDivisor
  Keys = {"vm_console", "1", "stop_test", "start_test", ".", "BS", "CR", "ESC", "SWITCH"}
  SHELL_CMD_MAX_LEN = 2
  Tries = 1
  ConsoleVm = 1
  Budgets <- MCBudgets
CHECK_DEADLOCK FALSE
INVARIANTS
  CharsInOrder
  LinkedBothWays
  CommandAsTyped
  RtcOwnRegister
PROPERTIES
  RtcReturns
  OutputDrained

SPECIFICATION Spec
CONSTANTS
  UartCommand <- MCUartCommand
  HeaderSize = 2
  Mss = 3
  SectorSize = 4
  BufferSize = 5
  Timeout = 2
  TaskQueueLength = 2
  Message <- MCMessage
  CmdFromUart = FALSE
INVARIANTS LockDiscipline
PROPERTIES CommandStable DuplicateWindow

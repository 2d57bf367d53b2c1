SPECIFICATION FairSpec
CONSTANTS
  UartCommand <- MCUartCommand
  HeaderSize = 1
  Mss = 3
  SectorSize = 4
  BufferSize = 3
  Timeout = 1
  TaskQueueLength = 2
  Message <- MCTwo
  CmdFromUart = TRUE
PROPERTIES UdpLetIn

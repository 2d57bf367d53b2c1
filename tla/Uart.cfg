\* UART 0, receiving and sending.  Two bytes to send and a fifo of one, so
\* that a refill leaves bytes behind; two tasks, so that the task queue can
\* be full when an interrupt comes.
SPECIFICATION FairSpec
CONSTANTS
  Uart = {0}
  SendSize = 2
  ReceiveSize = 1
  FifoSize = 1
  FillLimit = 1
  Threshold = 1
  TaskQueueLength = 2
INVARIANTS
  PostedExact
  Served
PROPERTIES
  Progress

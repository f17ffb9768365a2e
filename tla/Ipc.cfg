SPECIFICATION Spec
CONSTANTS
  MaxPid = 2
  MESSAGE_QUEUE_SIZE = 2
  MAX_MESSAGE_SIZE = 2
  Data <- MCData
  BufferSizes <- MCBufferSizes
INVARIANT RingShape
PROPERTY ImplementsFifo
CHECK_DEADLOCK FALSE

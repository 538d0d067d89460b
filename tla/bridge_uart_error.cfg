SPECIFICATION Spec
CONSTANTS
  RX_BUFFER_SIZE = 4
  ReplyLen = 4
  MaxFaults = 1
  Frames <- OneSlave
  Socks = {1}
  REQ_LEN = 1
  RESP_LEN = 1
  StackFill = 165
  MaxRequests = 1
INVARIANT UartErrorAnswersException
CHECK_DEADLOCK FALSE

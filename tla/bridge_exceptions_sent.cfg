SPECIFICATION Spec
CONSTANTS
  RX_BUFFER_SIZE = 4
  ReplyLen = 4
  MaxFaults = 0
  Frames <- AllKinds
  Socks = {1}
  REQ_LEN = 1
  RESP_LEN = 1
  StackFill = 165
  MaxRequests = 2
INVARIANT ExceptionsReachClient
CHECK_DEADLOCK FALSE

SPECIFICATION TimedSpec
CONSTANTS
  RX_BUFFER_SIZE = 4
  ReplyLen = 4
  MaxFaults = 0
  Frames <- ReadRequest
  Socks = {1}
  REQ_LEN = 1
  RESP_LEN = 1
  StackFill = 165
  MaxRequests = 1
  CHAR = 573
  SILENCE = 2006
  RESPONSE_TIMEOUT = 1000100
  TICK = 1000
  TX_LIMIT = 100000
  RX_WAIT = 1100000
  SEND_WAIT = 100000
  GUARD = 10000
  Phases = {0, 999}
  Delays <- SlaveDelays
INVARIANT SlowSlaveIsHeard
CHECK_DEADLOCK FALSE

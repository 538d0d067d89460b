SPECIFICATION FromReset
CONSTANTS
  RX_BUFFER_SIZE = 4
  ReplyLen = 4
  MaxFaults = 1
  Frames <- OneSlave
  Socks = {1}
  REQ_LEN = 1
  RESP_LEN = 1
  StackFill = 165
  MaxRequests = 2
  Crystals = {TRUE, FALSE}
  Interfaces = {"stub", "linked", "unlinked"}
  HSE_TIMEOUT = 1
  LINK_TIMEOUT = 2
  MaxTick = 6
INVARIANT BootTypeOK
INVARIANT TickNeedsScheduler
PROPERTY BootEnds
PROPERTY EveryRequestFinishes
CHECK_DEADLOCK FALSE

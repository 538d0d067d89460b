SPECIFICATION FairSpec
CONSTANTS
  c1 = c1
  c2 = c2
  c3 = c3
  Conns <- TwoConns
  NoConn = NoConn
  MAX_TCP_CLIENTS = 1
  REQ_LEN = 1
  RESP_LEN = 1
  Chunks = {2}
  Headers <- Good
  SelectFailures = FALSE
  Stalling <- OneConn
  IDLE = 5
  TICK_MOD = 7
  FirstTicks = {4}
  MaxTicks = 6
  MaxRequests = 2
INVARIANT IdleExact
INVARIANT IdleHasNothingOutstanding
PROPERTY EveryClientServed

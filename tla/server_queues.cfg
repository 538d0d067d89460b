SPECIFICATION Spec
CONSTANTS
  c1 = c1
  c2 = c2
  c3 = c3
  Conns <- TwoConns
  NoConn = NoConn
  MAX_TCP_CLIENTS = 2
  REQ_LEN = 1
  RESP_LEN = 2
  Chunks = {2}
  Headers <- Good
  SelectFailures = FALSE
  Stalling <- NoConns
  IDLE = 5
  TICK_MOD = 7
  FirstTicks = {0}
  MaxTicks = 0
  MaxRequests = 5
SYMMETRY Symmetry
INVARIANT NoCircularWait
PROPERTY AnswersInOrder

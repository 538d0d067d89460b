SPECIFICATION Spec
CONSTANTS
  c1 = c1
  c2 = c2
  c3 = c3
  Conns <- ThreeConns
  NoConn = NoConn
  MAX_TCP_CLIENTS = 2
  REQ_LEN = 1
  RESP_LEN = 2
  Chunks = {1, 2, 3, 4}
  Headers <- Refused
  SelectFailures = TRUE
  Stalling <- ThreeConns
  IDLE = 5
  TICK_MOD = 7
  FirstTicks = {0}
  MaxTicks = 0
  MaxRequests = 2
SYMMETRY Symmetry
INVARIANT SlotsMatchDescriptors
INVARIANT RecvOnlyWhenReady
INVARIANT StrayOnlyAfterClose
PROPERTY GatewaySpec

SPECIFICATION Spec
CONSTANTS
  RX_BUFFER_SIZE = 4
  ReplyLen = 4
  MaxFaults = 1
  Frames <- AllKinds
  Socks = {1}
  REQ_LEN = 2
  RESP_LEN = 1
  StackFill = 165
  MaxRequests = 2
INVARIANT TypeOK
INVARIANT TimersOnlyInWindow
INVARIANT BusReleased
INVARIANT ListenAfterTransmit
INVARIANT NoLostWakeup
INVARIANT SpuriousWakeNeedsError
INVARIANT ReplyIntegrity
INVARIANT DiagnosticsAddUp
PROPERTY FrameStable
PROPERTY GatewaySpec
CHECK_DEADLOCK FALSE

---------------------------- MODULE ModbusFrames ----------------------------
(***************************************************************************)
(* The pure part of bridge_engine.c: how a request frame is validated, and *)
(* how long the frames are that the bridge builds from it.  Lengths are    *)
(* the real ones (app_config.h), in bytes; contents are not needed here.   *)
(***************************************************************************)
EXTENDS Integers

MODBUS_RTU_MAX_ADU_SIZE == 256      \* 1 address + 253 PDU + 2 CRC
MODBUS_TCP_MAX_ADU_SIZE == 260      \* 7 MBAP + 253 PDU
MODBUS_MBAP_HEADER_SIZE == 7
MODBUS_EXC_GATEWAY_TARGET_FAILED == 11
MODBUS_EXC_GATEWAY_PATH_UNAVAILABLE == 10

\* bridge_status_t
Status == {"BRIDGE_OK", "BRIDGE_ERR_CRC", "BRIDGE_ERR_TIMEOUT",
           "BRIDGE_ERR_BUFFER_OVERFLOW", "BRIDGE_ERR_INVALID_UNIT_ID",
           "BRIDGE_ERR_CONNECTION_LOST", "BRIDGE_ERR_FRAME_TOO_SHORT"}

\* What tcp_server_task puts in bridge_request_queue: recv is called with the
\* size of its buffer, and anything below 8 bytes is not forwarded.
ForwardedLen == 8 .. MODBUS_TCP_MAX_ADU_SIZE

\* Mutant: the unit id counted into the PDU.
PduLen_WithUnit(frame_len) == frame_len - MODBUS_MBAP_HEADER_SIZE + 1

PduLen(frame_len) == frame_len - MODBUS_MBAP_HEADER_SIZE

TooShort(r)    == r.frame_len < MODBUS_MBAP_HEADER_SIZE + 1
BadProtocol(r) == r.protocol_id # 0
BadUnit(r)     == r.unit = 0 \/ r.unit > 247
BadPdu(r)      == PduLen(r.frame_len) = 0 \/ PduLen(r.frame_len) > 253

(***************************************************************************)
(* STEP 1 of bridge_engine_task: the early returns, in the order of the    *)
(* code.  "accept" means that the request goes on the RS485 bus.           *)
(***************************************************************************)
Validate(r) ==
  IF TooShort(r) THEN "too_short"
  ELSE IF BadProtocol(r) THEN "bad_protocol"
  ELSE IF BadUnit(r) THEN "bad_unit"
  ELSE IF BadPdu(r) THEN "bad_pdu"
  ELSE "accept"

\* RTU = unit + PDU + CRC16: the bytes written to rtu_tx_buffer and sent.
RtuTxLen(frame_len) == 1 + PduLen(frame_len) + 2

\* build_exception_response: MBAP(7) + function code + exception code.
ExceptionLen == 9

\* build_tcp_response on a received RTU frame of rx_len characters.
TcpResponseLen(rx_len) == MODBUS_MBAP_HEADER_SIZE + (rx_len - 3)

-----------------------------------------------------------------------------
\* Lengths never leave the buffers: of the frames that tcp_server_task
\* forwards STEP 1 accepts exactly those for protocol 0 and units 1 to 247,
\* so its two length checks reject nothing that this server can send, and an
\* accepted frame fits rtu_tx_buffer (256 bytes) with its CRC ...
RequestFits(r) ==
  /\ Validate(r) \notin {"too_short", "bad_pdu"}
  /\ Validate(r) = "accept" <=> r.protocol_id = 0 /\ r.unit \in 1 .. 247
  /\ RtuTxLen(r.frame_len) \in 4 .. MODBUS_RTU_MAX_ADU_SIZE

\* ... and any RTU frame long enough to be looked at, up to a full rx_buffer,
\* fits resp.tcp_frame (260 bytes) after build_tcp_response.
ResponseFits(rx_len) == TcpResponseLen(rx_len) \in 8 .. MODBUS_TCP_MAX_ADU_SIZE
=============================================================================

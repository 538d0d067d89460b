---------------------------- MODULE FrameLengths ----------------------------
(***************************************************************************)
(* Every request that tcp_server_task can forward, one at a time: recv      *)
(* returns from 8 bytes up to the size of its buffer, and the header says  *)
(* what the client wrote there.  The frames built from each of them, and   *)
(* from each frame received from the bus, stay within their buffers.       *)
(***************************************************************************)
EXTENDS ModbusFrames

CONSTANT ProtocolIds    \* what the two bytes of the MBAP header may be

VARIABLE request

Shortest == request \in [protocol_id : ProtocolIds, unit : 0 .. 255,
                         frame_len : {8}]

\* The same request with one byte more.
Longer ==
  /\ request.frame_len < MODBUS_TCP_MAX_ADU_SIZE
  /\ request' = [request EXCEPT !.frame_len = @ + 1]

LengthsSpec == Shortest /\ [][Longer]_request

\* RequestFits and ResponseFits of ModbusFrames, for each length of a request
\* (8 to 260) and each length of a received frame (4 to 256): no frame that
\* bridge_engine_task builds outgrows rtu_tx_buffer or resp.tcp_frame.
LengthsFit == RequestFits(request) /\ ResponseFits(request.frame_len - 4)
=============================================================================

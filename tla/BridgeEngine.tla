---------------------------- MODULE BridgeEngine ----------------------------
(***************************************************************************)
(* bridge_engine.c: the bridge task, on top of the RS485 driver, with its  *)
(* two queues to the TCP server task.                                      *)
(*                                                                         *)
(* A step of the task is the code between two points where an interrupt    *)
(* can make a difference.  Time is abstract here: a timeout may expire     *)
(* whenever the code waits, a running timer may overflow at any moment.    *)
(***************************************************************************)
EXTENDS Rs485Driver, ModbusFrames

CONSTANTS
  Frames,       \* what a client may send: [protocol_id, unit, frame_len]
  Socks,        \* client sockets
  REQ_LEN,      \* BRIDGE_REQUEST_QUEUE_LEN
  RESP_LEN,     \* BRIDGE_RESPONSE_QUEUE_LEN
  StackFill,    \* what an uninitialised byte of the task's stack holds
  MaxRequests   \* bound: requests in a behaviour

ASSUME BridgeAssumption ==
  /\ Frames \subseteq
       [protocol_id : Nat, unit : 0 .. 255, frame_len : ForwardedLen]
  /\ Socks \subseteq Nat
  /\ REQ_LEN \in Nat \ {0} /\ RESP_LEN \in Nat \ {0}
  /\ StackFill \in 0 .. 255
  /\ MaxRequests \in Nat

VARIABLES
  bridge_request_queue, bridge_response_queue,
  rs485_bus_mutex,   \* TRUE while the bridge task holds it
  pc,                \* where the task is
  req, resp,         \* the task's local message buffers
  sem_result, rx_len,
  g_bridge_diag,     \* the counters this task increments
  submitted,         \* requests so far; also the next transaction id
  err_in,            \* history: phases of this transaction with a UART error
  overrun            \* history: this transaction began, or timed out, in the
                     \* aftermath of an overlong transmission

queue_vars == <<bridge_request_queue, bridge_response_queue, submitted>>
local_vars == <<req, resp, sem_result, rx_len, rs485_bus_mutex>>
hist_vars  == <<err_in, overrun>>
task_vars == <<queue_vars, local_vars, hist_vars, g_bridge_diag>>
vars == <<driver_vars, task_vars, pc>>

Counters == {"requests", "responses", "timeouts", "crc_errors",
             "unit_id_mismatch", "protocol_errors", "frame_too_short"}

Request == [tid : Nat, client_sock : Nat, protocol_id : Nat, unit : 0 .. 255,
            frame_len : ForwardedLen]

\* mbap: the cached header's transaction and unit.  exc: the exception code
\* in the frame, 0 for a data frame.  body: the RTU frame it was made from.
\* err: history, err_in when the response was built.
Response == [client_sock : Nat, status : Status, frame_len : Nat,
             exception_code : Nat, mbap : Target, exc : {0, 10, 11},
             body : Seq(Char), err : SUBSET {"setup", "rx"}]

NoRequest == [tid |-> 0, client_sock |-> 0, protocol_id |-> 0, unit |-> 0,
              frame_len |-> 8]

\* resp is an uninitialised local: the byte exception_code holds what the
\* stack held, 165 (tskSTACK_FILL_BYTE) with configCHECK_FOR_STACK_OVERFLOW 2.
NoResponse ==
  [client_sock |-> 0, status |-> "BRIDGE_OK", frame_len |-> 0,
   exception_code |-> StackFill, mbap |-> NoTarget, exc |-> 0, body |-> <<>>,
   err |-> {}]

Init ==
  /\ DriverInit
  /\ bridge_request_queue = <<>> /\ bridge_response_queue = <<>>
  /\ rs485_bus_mutex = FALSE
  /\ pc = "receive"
  /\ req = NoRequest
  /\ resp = NoResponse
  /\ sem_result = FALSE /\ rx_len = 0
  /\ g_bridge_diag = [c \in Counters |-> 0]
  /\ submitted = 0 /\ err_in = {} /\ overrun = FALSE

-----------------------------------------------------------------------------
(* The TCP server's side of the queues (tcp_server.c:163-182).             *)

Submit ==
  /\ submitted < MaxRequests /\ submitted' = submitted + 1
  /\ Len(bridge_request_queue) < REQ_LEN
  /\ \E f \in Frames, s \in Socks :
       bridge_request_queue' = Append(bridge_request_queue,
         [tid |-> submitted + 1, client_sock |-> s,
          protocol_id |-> f.protocol_id, unit |-> f.unit,
          frame_len |-> f.frame_len])
  /\ UNCHANGED <<driver_vars, local_vars, hist_vars, g_bridge_diag, pc,
                 bridge_response_queue>>

Collect ==
  /\ bridge_response_queue # <<>>
  /\ bridge_response_queue' = Tail(bridge_response_queue)
  /\ UNCHANGED <<driver_vars, local_vars, hist_vars, g_bridge_diag, pc,
                 bridge_request_queue, submitted>>

-----------------------------------------------------------------------------
(* Responses.                                                              *)

MbapOf(r) == [unit |-> r.unit, tid |-> r.tid]

\* Mutant: the answer goes to the client of an earlier one.
ExceptionResponse_StaleSock(status, code) ==
  [resp EXCEPT !.status = status, !.frame_len = ExceptionLen,
               !.mbap = MbapOf(req), !.exc = code, !.body = <<>>,
               !.err = err_in]

\* build_exception_response and the fields the error paths set.  They leave
\* resp.exception_code as it was.
ExceptionResponse(status, code) ==
  [resp EXCEPT !.status = status, !.client_sock = req.client_sock,
               !.frame_len = ExceptionLen, !.mbap = MbapOf(req),
               !.exc = code, !.body = <<>>, !.err = err_in]

RejectStatus(verdict) ==
  CASE verdict = "too_short" -> "BRIDGE_ERR_FRAME_TOO_SHORT"
    [] verdict = "bad_unit"  -> "BRIDGE_ERR_INVALID_UNIT_ID"
    [] OTHER                 -> "BRIDGE_ERR_BUFFER_OVERFLOW"

\* The responses of STEP 1, for the request r: only the protocol error
\* carries a frame.
RejectResponse(r, verdict) ==
  IF verdict = "bad_protocol"
  THEN [resp EXCEPT !.status = "BRIDGE_OK", !.client_sock = r.client_sock,
                    !.frame_len = ExceptionLen, !.exception_code = 0,
                    !.mbap = MbapOf(r),
                    !.exc = MODBUS_EXC_GATEWAY_PATH_UNAVAILABLE,
                    !.body = <<>>, !.err = {}]
  ELSE [resp EXCEPT !.status = RejectStatus(verdict),
                    !.client_sock = r.client_sock, !.frame_len = 0,
                    !.exception_code = 0, !.err = {}]

\* build_tcp_response, reading the driver's buffer in place.  (A flush in the
\* middle of the copy is not told apart from one just before it.)
DataResponse ==
  [resp EXCEPT !.status = "BRIDGE_OK", !.client_sock = req.client_sock,
               !.exception_code = 0, !.frame_len = TcpResponseLen(rx_len),
               !.mbap = MbapOf(req), !.exc = 0,
               !.body = [i \in 1 .. rx_len |-> rx_buffer[i]], !.err = err_in]

-----------------------------------------------------------------------------
(* The task.                                                               *)

Step(from, to) == TasksMayRun /\ pc = from /\ pc' = to

\* A test that changes nothing but where the task is.
Move(from, to) == Step(from, to) /\ UNCHANGED <<driver_vars, task_vars>>

\* One more in each of the given counters.
Count(counters) ==
  g_bridge_diag' = [c \in Counters |->
                      IF c \in counters THEN g_bridge_diag[c] + 1
                      ELSE g_bridge_diag[c]]

\* Dequeue, take the mutex, validate, build the RTU frame.  Writing
\* rtu_tx_buffer spoils a frame the DMA is still reading from it.
Dequeue ==
  /\ TasksMayRun /\ pc = "receive"
  /\ bridge_request_queue # <<>>
  /\ ~rs485_bus_mutex /\ rs485_bus_mutex' = TRUE
  /\ req' = Head(bridge_request_queue)
  /\ bridge_request_queue' = Tail(bridge_request_queue)
  /\ err_in' = {} /\ overrun' = (overrun /\ (gState = "BUSY_TX" \/ de))
  /\ LET verdict == Validate(Head(bridge_request_queue)) IN
     \/ /\ verdict = "accept"
        /\ pc' = "drain"
        /\ Count({"requests"})
        /\ tx_intact' = (tx_intact /\ gState = "READY")
        /\ resp' = resp
     \/ /\ verdict # "accept"
        /\ pc' = "send_reject"
        /\ resp' = RejectResponse(Head(bridge_request_queue), verdict)
        /\ tx_intact' = tx_intact
        /\ Count({"requests"} \cup
                 CASE verdict = "too_short" -> {"frame_too_short"}
                   [] verdict = "bad_protocol" -> {"protocol_errors"}
                   [] OTHER -> {})
  /\ UNCHANGED <<de, rxneie, rxne, gState, tx_frame, tx_done_flag,
                 tx_done_semaphore, rx_vars, tim_vars, bus_vars, flt_vars,
                 bridge_response_queue, submitted, sem_result, rx_len>>

\* Mutant: the stale semaphore is not drained.
Drain_KeepsSemaphore == Move("drain", "clear")

\* STEP 3: drain the semaphore, clear the flags, flush the buffer.
Drain ==
  /\ Step("drain", "clear")
  /\ rx_frame_semaphore' = 0
  /\ UNCHANGED <<rx_buffer, rx_index, rx_frame_complete, rx_timeout_flag,
                 tx_vars, tim_vars, bus_vars, flt_vars, task_vars>>

\* Mutant: a stale timeout flag is left set.
ClearFlags_KeepsTimeout ==
  /\ Step("clear", "memset")
  /\ rx_index' = 0 /\ rx_frame_complete' = FALSE
  /\ UNCHANGED <<rx_buffer, rx_timeout_flag, rx_frame_semaphore, tx_vars,
                 tim_vars, bus_vars, flt_vars, task_vars>>

ClearFlags ==
  /\ Step("clear", "memset")
  /\ FlushFlags
  /\ UNCHANGED <<rx_buffer, rx_frame_semaphore, tx_vars, tim_vars, bus_vars,
                 flt_vars, task_vars>>

ClearBuffer ==
  /\ Step("memset", "arm")
  /\ FlushMemory
  /\ UNCHANGED <<rx_index, rx_frame_complete, rx_timeout_flag,
                 rx_frame_semaphore, tx_vars, tim_vars, bus_vars, flt_vars,
                 task_vars>>

\* Mutant: tx_done_flag is not reset before the transmission.
ArmTx_KeepsDone == Move("arm", "tx_mode")

\* rs485_transmit_dma, in three interruptible steps.
ArmTx ==
  /\ Step("arm", "tx_mode")
  /\ tx_done_flag' = FALSE
  /\ UNCHANGED <<de, rxneie, rxne, gState, tx_frame, tx_intact,
                 tx_done_semaphore, rx_vars, tim_vars, bus_vars, flt_vars,
                 task_vars>>

TransmitMode ==
  /\ Step("tx_mode", "hal_tx")
  /\ rs485_set_transmit_mode
  /\ UNCHANGED <<rxne, gState, tx_frame, tx_intact, tx_done_flag,
                 tx_done_semaphore, rx_vars, tim_vars, bus_vars, flt_vars,
                 task_vars>>

StartDma ==
  /\ Step("hal_tx", "poll_tx")
  /\ HalTransmitDma(MbapOf(req))
  /\ UNCHANGED <<tx_done_flag, tx_done_semaphore, rx_vars, tim_vars,
                 bus_vars, flt_vars, task_vars>>

\* The polling loop: complete, or 100 ms are over.
TxComplete ==
  /\ Move("poll_tx", "start_rx")
  /\ tx_done_flag

TxTimeout ==
  /\ Step("poll_tx", "send_txto")
  /\ ~tx_done_flag
  /\ resp' = ExceptionResponse("BRIDGE_ERR_TIMEOUT",
                               MODBUS_EXC_GATEWAY_TARGET_FAILED)
  /\ overrun' = (overrun \/ gState = "BUSY_TX")
  /\ UNCHANGED <<driver_vars, queue_vars, req, sem_result, rx_len,
                 rs485_bus_mutex, err_in, g_bridge_diag>>

\* STEP 4: wait for the semaphore that the handlers give.
StartRx ==
  /\ Step("start_rx", "wait_rx")
  /\ rs485_start_rx_timeout
  /\ UNCHANGED <<isr, tx_vars, rx_vars, bus_vars, flt_vars, task_vars>>

WaitTake ==
  /\ Step("wait_rx", "stop_rx")
  /\ rx_frame_semaphore = 1 /\ rx_frame_semaphore' = 0
  /\ sem_result' = TRUE
  /\ UNCHANGED <<rx_buffer, rx_index, rx_frame_complete, rx_timeout_flag,
                 tx_vars, tim_vars, bus_vars, flt_vars, queue_vars, req,
                 resp, rx_len, rs485_bus_mutex, hist_vars, g_bridge_diag>>

WaitTimeout ==
  /\ Step("wait_rx", "stop_rx")
  /\ rx_frame_semaphore = 0
  /\ sem_result' = FALSE
  /\ UNCHANGED <<driver_vars, queue_vars, req, resp, rx_len, rs485_bus_mutex,
                 hist_vars, g_bridge_diag>>

\* Mutant: the timers are not stopped after the wait.
StopRx_LeavesTimers == Move("stop_rx", "check")

StopRx ==
  /\ Step("stop_rx", "check")
  /\ rs485_stop_rx_timeout
  /\ UNCHANGED <<uif, isr, tx_vars, rx_vars, bus_vars, flt_vars, task_vars>>

\* STEP 5: no response ...
CheckTimeout ==
  /\ Step("check", "send_fail")
  /\ Count({"timeouts"})
  /\ ~sem_result \/ rx_timeout_flag
  /\ rs485_flush_rx_buffer
  /\ resp' = ExceptionResponse("BRIDGE_ERR_TIMEOUT",
                               MODBUS_EXC_GATEWAY_TARGET_FAILED)
  /\ UNCHANGED <<rx_frame_semaphore, tx_vars, tim_vars, bus_vars, flt_vars,
                 queue_vars, req, sem_result, rx_len, rs485_bus_mutex,
                 hist_vars>>

\* ... or a wake-up for something else, to be looked at next ...
CheckNoTimeout ==
  /\ Move("check", "check_frame")
  /\ sem_result /\ ~rx_timeout_flag

\* Mutant: the mutex is kept on the give-up path.
CheckSpurious_KeepsMutex ==
  /\ Step("check_frame", "receive")
  /\ ~rx_frame_complete
  /\ rs485_flush_rx_buffer
  /\ UNCHANGED <<rx_frame_semaphore, tx_vars, tim_vars, bus_vars, flt_vars,
                 task_vars>>

\* ... neither flag set: give up without a word to the client ...
CheckSpurious ==
  /\ Step("check_frame", "receive")
  /\ ~rx_frame_complete
  /\ rs485_flush_rx_buffer
  /\ rs485_bus_mutex' = FALSE
  /\ UNCHANGED <<rx_frame_semaphore, tx_vars, tim_vars, bus_vars, flt_vars,
                 queue_vars, req, resp, sem_result, rx_len, hist_vars,
                 g_bridge_diag>>

\* ... or a frame.
CheckFrame ==
  /\ Step("check_frame", "read")
  /\ rx_frame_complete
  /\ rx_frame_complete' = FALSE
  /\ UNCHANGED <<rx_buffer, rx_index, rx_timeout_flag, rx_frame_semaphore,
                 tx_vars, tim_vars, bus_vars, flt_vars, task_vars>>

ReadLen ==
  /\ Step("read", "crc")
  /\ rx_len' = rx_index
  /\ UNCHANGED <<driver_vars, queue_vars, req, resp, sem_result,
                 rs485_bus_mutex, hist_vars, g_bridge_diag>>

\* STEPs 6 and 7 read rx_buffer in place, with the receive interrupt enabled.
RejectFrame(status) ==
  /\ rs485_flush_rx_buffer
  /\ resp' = ExceptionResponse(status, MODBUS_EXC_GATEWAY_TARGET_FAILED)
  /\ UNCHANGED <<rx_frame_semaphore, tx_vars, tim_vars, bus_vars, flt_vars,
                 queue_vars, req, sem_result, rx_len, rs485_bus_mutex,
                 hist_vars>>

CheckLen ==
  /\ Step("crc", "send_fail")
  /\ rx_len < 4
  /\ RejectFrame("BRIDGE_ERR_FRAME_TOO_SHORT")
  /\ UNCHANGED g_bridge_diag

\* Mutant: a frame with a bad CRC counted as a timeout as well.
CheckCrcBad_CountsTimeout ==
  /\ Step("crc", "send_fail")
  /\ rx_len >= 4 /\ ~CrcOk(rx_buffer, rx_len)
  /\ Count({"crc_errors", "timeouts"})
  /\ RejectFrame("BRIDGE_ERR_CRC")

CheckCrcBad ==
  /\ Step("crc", "send_fail")
  /\ Count({"crc_errors"})
  /\ rx_len >= 4 /\ ~CrcOk(rx_buffer, rx_len)
  /\ RejectFrame("BRIDGE_ERR_CRC")

CheckCrcGood ==
  /\ Move("crc", "unit")
  /\ rx_len >= 4 /\ CrcOk(rx_buffer, rx_len)

CheckUnitBad ==
  /\ Step("unit", "send_fail")
  /\ Count({"unit_id_mismatch"})
  /\ rx_buffer[1].unit # req.unit
  /\ RejectFrame("BRIDGE_ERR_TIMEOUT")

\* Mutant: the replying slave is not compared with the one addressed.
CheckUnitGood_AnySlave == Move("unit", "build")

CheckUnitGood ==
  /\ Move("unit", "build")
  /\ rx_buffer[1].unit = req.unit

BuildResponse ==
  /\ Step("build", "send_ok")
  /\ Count({"responses"})
  /\ resp' = DataResponse
  /\ UNCHANGED <<driver_vars, queue_vars, req, sem_result, rx_len,
                 rs485_bus_mutex, hist_vars>>

(***************************************************************************)
(* xQueueSend(bridge_response_queue, &resp, 100 ms), whose result no path  *)
(* looks at, and what each path does after it: mutex, guard time or not.   *)
(***************************************************************************)
Enqueue ==
  /\ Len(bridge_response_queue) < RESP_LEN
  /\ bridge_response_queue' = Append(bridge_response_queue, resp)
EnqueueTimeout ==
  /\ Len(bridge_response_queue) >= RESP_LEN
  /\ UNCHANGED bridge_response_queue
Send(from, to) ==
  /\ Step(from, to)
  /\ Enqueue \/ EnqueueTimeout
  /\ rs485_bus_mutex' = FALSE
  /\ UNCHANGED <<bridge_request_queue, submitted, req, resp, sem_result,
                 rx_len, hist_vars, g_bridge_diag>>

SendReject  == Send("send_reject", "receive") /\ UNCHANGED driver_vars
SendFail    == Send("send_fail", "receive") /\ UNCHANGED driver_vars
\* Mutant: the driver is not put back into receive mode.
SendTxTimeout_StaysInTransmit ==
  Send("send_txto", "guard") /\ UNCHANGED driver_vars

SendTxTimeout ==
  /\ Send("send_txto", "guard")
  /\ rs485_set_receive_mode
  /\ UNCHANGED <<gState, tx_frame, tx_done_flag, tx_done_semaphore, rx_vars,
                 tim_vars, bus_vars, flt_vars>>
SendOk ==
  /\ Send("send_ok", "guard")
  /\ rs485_flush_rx_buffer
  /\ UNCHANGED <<rx_frame_semaphore, tx_vars, tim_vars, bus_vars, flt_vars>>

\* next_request: the 10 ms guard time.
Guard == Move("guard", "receive")

Task ==
  \/ Dequeue \/ Drain \/ ClearFlags \/ ClearBuffer
  \/ ArmTx \/ TransmitMode \/ StartDma \/ TxComplete \/ TxTimeout
  \/ StartRx \/ WaitTake \/ WaitTimeout \/ StopRx
  \/ CheckTimeout \/ CheckNoTimeout \/ CheckSpurious \/ CheckFrame \/ ReadLen
  \/ CheckLen \/ CheckCrcBad \/ CheckCrcGood \/ CheckUnitBad \/ CheckUnitGood
  \/ BuildResponse \/ SendReject \/ SendFail \/ SendTxTimeout \/ SendOk
  \/ Guard

-----------------------------------------------------------------------------
(* Interrupts and the bus.                                                 *)

\* From the end of the transmission to the response built from the buffer.
RxPhase == {"start_rx", "wait_rx", "stop_rx", "check", "check_frame", "read",
            "crc", "unit", "build"}

UartError ==
  /\ UartLineError \/ TxDmaError
  /\ err_in' = err_in \cup {IF pc \in RxPhase THEN "rx" ELSE "setup"}
  /\ UNCHANGED <<queue_vars, local_vars, overrun, g_bridge_diag, pc>>

Isr ==
  /\ \/ \E t \in Timers : TimerUpdate(t)
     \/ Tim2IsrEnter \/ Tim2IsrSignal \/ rs485_tim3_period_elapsed_isr
     \/ HAL_UART_TxCpltCallback
  /\ UNCHANGED <<task_vars, pc>>

Bus ==
  /\ SlaveStartsReply \/ SlaveChar \/ SlaveCharDamaged \/ LineNoise
  /\ UNCHANGED <<task_vars, pc>>

Next == Task \/ Isr \/ UartError \/ Bus \/ Submit \/ Collect

Spec == Init /\ [][Next]_vars

(***************************************************************************)
(* What is fair (MCFromReset): the task, which is runnable or waits with a *)
(* timeout in every state but "receive"; and that the Cortex-M takes a     *)
(* pending interrupt.  Nothing is assumed of the DMA, the slaves, the line *)
(* or the TCP server.                                                      *)
(***************************************************************************)
TakePendingInterrupt ==
  /\ Tim2IsrEnter \/ Tim2IsrSignal \/ rs485_tim3_period_elapsed_isr
  /\ UNCHANGED <<task_vars, pc>>

-----------------------------------------------------------------------------
(* Correctness.                                                            *)

QueueTypeOK ==
  /\ bridge_request_queue \in Seq(Request)
  /\ bridge_response_queue \in Seq(Response)
  /\ submitted \in 0 .. MaxRequests
LocalTypeOK ==
  /\ req \in Request /\ resp \in Response
  /\ sem_result \in BOOLEAN /\ rx_len \in 0 .. RX_BUFFER_SIZE
  /\ rs485_bus_mutex \in BOOLEAN
HistTypeOK == err_in \in SUBSET {"setup", "rx"} /\ overrun \in BOOLEAN
DiagTypeOK == g_bridge_diag \in [Counters -> Nat]
PcTypeOK ==
  pc \in {"receive", "drain", "clear", "memset", "arm", "tx_mode", "hal_tx",
          "poll_tx", "send_reject", "send_txto", "send_fail", "send_ok",
          "guard"} \cup RxPhase

\* Types; with rx_index \in 0 .. RX_BUFFER_SIZE no handler writes outside
\* rx_buffer (rs485_driver.c:425).
TypeOK ==
  DriverTypeOK /\ QueueTypeOK /\ LocalTypeOK /\ HistTypeOK /\ DiagTypeOK
  /\ PcTypeOK

\* Outside the wait of STEP 4 no timer runs and no timer interrupt is pending
\* or half done: once rs485_stop_rx_timeout has returned, nothing but a UART
\* error can change the flags that STEP 5 reads one after the other.
TimersOnlyInWindow ==
  pc \notin {"wait_rx", "stop_rx"} =>
    /\ isr = "none"
    /\ \A t \in Timers : ~running[t] /\ ~uif[t]

\* The bus is never left driven: RS485_DE_PIN is high only while the task
\* transmits, polls for the end of it or cleans up after the TX timeout,
\* whatever the DMA did and whichever interrupt came late (bar an overrun).
BusReleased == de /\ ~overrun => pc \in {"hal_tx", "poll_tx", "send_txto"}

\* When the task waits for a reply, the frame on the bus was this request,
\* whole, and the driver listens: no end of an earlier transmission can be
\* taken for the end of this one, unless that one overran its 100 ms
\* (bridge_engine.c:211) and was still running when this request came.
ListenAfterTransmit ==
  pc \in RxPhase /\ ~overrun =>
    /\ gState = "READY" /\ ~de /\ rxneie
    /\ tx_frame = MbapOf(req) /\ tx_intact

\* From the flush to the wait, a raised flag comes with its semaphore: no
\* order of handlers and task loses the wake-up for a frame or a timeout.
NoLostWakeup ==
  /\ pc \in {"memset", "arm", "tx_mode", "hal_tx", "poll_tx", "start_rx",
            "wait_rx"}
  /\ rx_frame_complete \/ rx_timeout_flag
  => rx_frame_semaphore = 1

\* The silent give-up of bridge_engine.c:267 ("unexpected") needs a UART error
\* in this very transaction: no semaphore or flag left by an earlier one, and
\* no order of the timer handlers, leads there.
SpuriousWakeNeedsError ==
  pc = "check_frame" /\ ~rx_frame_complete => err_in # {}

\* rx_buffer is read in place with the receive interrupt enabled: the frame
\* under examination does not change from the CRC check to the copy into the
\* response, unless the error handler flushes it.
Reading == {"crc", "unit", "build"}
FrameStable ==
  [][{pc, pc'} \subseteq Reading /\ "rx" \notin err_in'
     => \A i \in 1 .. rx_len : rx_buffer'[i] = rx_buffer[i]]_vars

\* A data response carries one slave's reply, whole, and the slave is the one
\* addressed, unless a UART error came while the frame was examined.
ReplyIntegrity ==
  pc = "send_ok" /\ "rx" \notin resp.err =>
    /\ Len(resp.body) = ReplyLen
    /\ \E tid \in 1 .. submitted :
         resp.body = ReplyFrame([unit |-> resp.mbap.unit, tid |-> tid])

\* The diagnostic counters (bridge_engine.h:48) add up: each request that was
\* counted falls under at most one of the outcomes, and under none before its
\* outcome is decided.
DiagnosticsAddUp ==
  LET d == g_bridge_diag
      outcomes == d["responses"] + d["timeouts"] + d["crc_errors"]
                  + d["unit_id_mismatch"] + d["protocol_errors"]
                  + d["frame_too_short"]
      undecided == IF pc \in RxPhase \cup {"drain", "clear", "memset", "arm",
                                          "tx_mode", "hal_tx", "poll_tx"}
                   THEN 1 ELSE 0
  IN  outcomes + undecided <= d["requests"]

\* The task and its queues implement the promise of Gateway.
InService == pc \notin {"receive", "guard"}
KindOf(r) ==
  CASE r.frame_len = 0 -> "bare"
    [] r.frame_len # 0 /\ r.exc = 0 -> "data"
    [] r.frame_len # 0 /\ r.exc = MODBUS_EXC_GATEWAY_TARGET_FAILED ->
         "target_failed"
    [] r.frame_len # 0 /\ r.exc = MODBUS_EXC_GATEWAY_PATH_UNAVAILABLE ->
         "path_unavailable"
AsAnswer(r) ==
  [client_sock |-> r.client_sock, kind |-> KindOf(r),
   unit |-> IF r.frame_len = 0 THEN 0 ELSE r.mbap.unit,
   tid |-> IF r.frame_len = 0 THEN 0 ELSE r.mbap.tid]
G == INSTANCE Gateway WITH
  requests <- bridge_request_queue,
  responses <- [i \in 1 .. Len(bridge_response_queue) |->
                  AsAnswer(bridge_response_queue[i])],
  current <- IF InService THEN {req} ELSE {}
GatewaySpec == G!Spec

\* Every request that was queued is eventually done with: the task comes back
\* to the queue and the mutex with it, on each of its paths.
Pending(t) ==
  \/ \E i \in 1 .. Len(bridge_request_queue) : bridge_request_queue[i].tid = t
  \/ InService /\ req.tid = t
EveryRequestFinishes == \A t \in 1 .. MaxRequests : Pending(t) ~> ~Pending(t)

-----------------------------------------------------------------------------
(* What the documentation says and the code does not do.                   *)

\* README.md:144 and docs/USER_MANUAL.md:182: a timeout, a CRC mismatch or a
\* unit mismatch is answered with exception 0x0B.  tcp_server.c:193-199 sends
\* a response with an error status only if exception_code is set.  (~overrun:
\* the request went out in time, and it is the slave that was silent.)
SentToClient(r) ==
  (r.status = "BRIDGE_OK" /\ r.frame_len > 0) \/ r.exception_code # 0
ExceptionsReachClient ==
  \A i \in 1 .. Len(bridge_response_queue) :
    LET r == bridge_response_queue[i] IN
    (~overrun /\ r.frame_len # 0 /\ r.exc = MODBUS_EXC_GATEWAY_TARGET_FAILED)
      => SentToClient(r)

\* rs485_driver.c:485-487: on a UART error the driver "signals timeout so the
\* bridge engine returns exception 0x0B for the current transaction".
UartErrorAnswersException ==
  \A i \in 1 .. Len(bridge_response_queue) :
    "rx" \in bridge_response_queue[i].err =>
      bridge_response_queue[i].exc = MODBUS_EXC_GATEWAY_TARGET_FAILED
=============================================================================

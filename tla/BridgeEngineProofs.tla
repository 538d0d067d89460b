------------------------- MODULE BridgeEngineProofs -------------------------
(***************************************************************************)
(* Theorems about BridgeEngine, for every value of its constants.          *)
(***************************************************************************)
EXTENDS BridgeEngine, TLAPS

\* A slave's reply is a sequence of characters (SlaveStartsReply).
LEMMA ReplyFrameType ==
  ASSUME NEW q \in Target
  PROVE  ReplyFrame(q) \in Seq(Char)
BY DriverAssumption DEF ReplyFrame, Target, Char

\* memset leaves a buffer of the right type (rs485_flush_rx_buffer).
LEMMA ZeroBufferType == ZeroBuffer \in [1 .. RX_BUFFER_SIZE -> Char]
BY DEF ZeroBuffer, Zero, Char

\* The model starts in a state of the right types (main.c, rs485_init).
LEMMA InitTypeOK == Init => TypeOK
<1> SUFFICES ASSUME Init PROVE TypeOK
  OBVIOUS
<1>1. TxTypeOK
  <2>1. tx_frame \in Target
    BY DEF Init, DriverInit, NoTarget, Target
  <2>2. QED
    BY <2>1, Zenon DEF Init, DriverInit, TxTypeOK
<1>2. RxTypeOK
  <2>1. rx_buffer \in [1 .. RX_BUFFER_SIZE -> Char] /\ rx_index \in 0 .. RX_BUFFER_SIZE
    BY DriverAssumption, ZeroBufferType DEF Init, DriverInit
  <2>2. QED
    BY <2>1, Zenon DEF Init, DriverInit, RxTypeOK
<1>3. TimTypeOK
  BY DEF Init, DriverInit, TimTypeOK
<1>4. BusTypeOK /\ FltTypeOK
  BY DriverAssumption DEF Init, DriverInit, BusTypeOK, FltTypeOK
<1>5. QueueTypeOK
  BY BridgeAssumption DEF Init, QueueTypeOK
<1>6. LocalTypeOK
  <2>1. req \in Request
    BY DEF Init, NoRequest, Request, ForwardedLen, MODBUS_TCP_MAX_ADU_SIZE
  <2>2. resp \in Response
    BY BridgeAssumption
    DEF Init, NoResponse, Response, Status, NoTarget, Target
  <2>3. rx_len \in 0 .. RX_BUFFER_SIZE
    BY DriverAssumption DEF Init
  <2>4. QED
    BY <2>1, <2>2, <2>3, Zenon DEF Init, LocalTypeOK
<1>7. HistTypeOK /\ DiagTypeOK /\ PcTypeOK
  BY DEF Init, HistTypeOK, DiagTypeOK, PcTypeOK
<1>8. QED
  BY <1>1, <1>2, <1>3, <1>4, <1>5, <1>6, <1>7 DEF TypeOK, DriverTypeOK

-----------------------------------------------------------------------------
\* A group of variables that a step leaves alone keeps its types.
LEMMA UnchangedTypes ==
  /\ TxTypeOK /\ UNCHANGED tx_vars => TxTypeOK'
  /\ RxTypeOK /\ UNCHANGED rx_vars => RxTypeOK'
  /\ TimTypeOK /\ UNCHANGED tim_vars => TimTypeOK'
  /\ BusTypeOK /\ UNCHANGED bus_vars => BusTypeOK'
  /\ FltTypeOK /\ UNCHANGED flt_vars => FltTypeOK'
  /\ QueueTypeOK /\ UNCHANGED queue_vars => QueueTypeOK'
  /\ LocalTypeOK /\ UNCHANGED local_vars => LocalTypeOK'
  /\ HistTypeOK /\ UNCHANGED hist_vars => HistTypeOK'
  /\ DiagTypeOK /\ UNCHANGED g_bridge_diag => DiagTypeOK'
  /\ PcTypeOK /\ UNCHANGED pc => PcTypeOK'
<1>1. TxTypeOK /\ UNCHANGED tx_vars => TxTypeOK'
  BY DEF TxTypeOK, tx_vars
<1>2. RxTypeOK /\ UNCHANGED rx_vars => RxTypeOK'
  BY DEF RxTypeOK, rx_vars
<1>3. TimTypeOK /\ UNCHANGED tim_vars => TimTypeOK'
  BY DEF TimTypeOK, tim_vars
<1>4. BusTypeOK /\ UNCHANGED bus_vars => BusTypeOK'
  BY DEF BusTypeOK, bus_vars
<1>5. FltTypeOK /\ UNCHANGED flt_vars => FltTypeOK'
  BY DEF FltTypeOK, flt_vars
<1>6. QueueTypeOK /\ UNCHANGED queue_vars => QueueTypeOK'
  BY DEF QueueTypeOK, queue_vars
<1>7. LocalTypeOK /\ UNCHANGED local_vars => LocalTypeOK'
  BY DEF LocalTypeOK, local_vars
<1>8. HistTypeOK /\ UNCHANGED hist_vars => HistTypeOK'
  BY DEF HistTypeOK, hist_vars
<1>9. /\ DiagTypeOK /\ UNCHANGED g_bridge_diag => DiagTypeOK'
      /\ PcTypeOK /\ UNCHANGED pc => PcTypeOK'
  BY DEF DiagTypeOK, PcTypeOK
<1>10. QED
  BY <1>1, <1>2, <1>3, <1>4, <1>5, <1>6, <1>7, <1>8, <1>9

\* The counters stay numbers.
LEMMA CountType ==
  ASSUME DiagTypeOK, NEW counters, Count(counters)
  PROVE  DiagTypeOK'
BY DEF DiagTypeOK, Count

\* Stopping and starting the timers.
LEMMA TimerTypes ==
  ASSUME TimTypeOK
  PROVE  /\ rs485_stop_rx_timeout /\ UNCHANGED <<uif, isr>> => TimTypeOK'
         /\ rs485_start_rx_timeout /\ UNCHANGED isr => TimTypeOK'
BY DEF TimTypeOK, rs485_stop_rx_timeout, rs485_start_rx_timeout

\* The flush of the receive buffer.
LEMMA FlushTypes ==
  ASSUME RxTypeOK, rs485_flush_rx_buffer, UNCHANGED rx_frame_semaphore
  PROVE  RxTypeOK'
<1>1. rx_buffer' \in [1 .. RX_BUFFER_SIZE -> Char]
  BY ZeroBufferType DEF rs485_flush_rx_buffer, FlushMemory
<1>2. rx_index' \in 0 .. RX_BUFFER_SIZE
  BY DriverAssumption DEF rs485_flush_rx_buffer, FlushFlags
<1>3. QED
  BY <1>1, <1>2, Zenon DEF RxTypeOK, rs485_flush_rx_buffer, FlushFlags

\* A received character is stored inside the buffer (rs485_uart_rx_isr).
LEMMA UartRxIsrTypes ==
  ASSUME RxTypeOK, TimTypeOK, NEW c \in Char, rs485_uart_rx_isr(c)
  PROVE  RxTypeOK' /\ TimTypeOK'
<1>1. /\ rx_buffer' \in [1 .. RX_BUFFER_SIZE -> Char]
      /\ rx_index' \in 0 .. RX_BUFFER_SIZE
  BY DriverAssumption DEF RxTypeOK, rs485_uart_rx_isr
<1>2. RxTypeOK'
  BY <1>1, Zenon DEF RxTypeOK, rs485_uart_rx_isr
<1>3. TimTypeOK'
  BY DEF TimTypeOK, rs485_uart_rx_isr, Timers
<1>4. QED
  BY <1>2, <1>3

\* Setting fields of a bridge_response_t to values of their types.
LEMMA FramedResponseType ==
  ASSUME NEW r \in Response, NEW status \in Status, NEW sock \in Nat,
         NEW len \in Nat, NEW mbap \in Target, NEW code \in {0, 10, 11},
         NEW body \in Seq(Char), NEW err \in SUBSET {"setup", "rx"}
  PROVE  [r EXCEPT !.status = status, !.client_sock = sock,
                   !.frame_len = len, !.mbap = mbap, !.exc = code,
                   !.body = body, !.err = err] \in Response
BY DEF Response

\* Every response the task builds has the type of bridge_response_t.
LEMMA ResponseTypes ==
  ASSUME TypeOK
  PROVE  /\ \A status \in Status : \A code \in {10, 11} :
              ExceptionResponse(status, code) \in Response
         /\ \A r \in Request : \A verdict :
              RejectResponse(r, verdict) \in Response
         /\ DataResponse \in Response
<1>1. ASSUME NEW r \in Request
      PROVE  MbapOf(r) \in Target /\ r.client_sock \in Nat
  BY DEF MbapOf, Request, Target
<1>2. resp \in Response /\ req \in Request /\ err_in \in SUBSET {"setup", "rx"}
  BY DEF TypeOK, LocalTypeOK, HistTypeOK
<1>3. <<>> \in Seq(Char) /\ ExceptionLen \in Nat
  BY DEF ExceptionLen
<1>4. ASSUME NEW status \in Status, NEW code \in {10, 11}
      PROVE  ExceptionResponse(status, code) \in Response
  BY <1>1, <1>2, <1>3, FramedResponseType, Zenon DEF ExceptionResponse
<1>5. ASSUME NEW r \in Request, NEW verdict
      PROVE  RejectResponse(r, verdict) \in Response
  <2>1. RejectStatus(verdict) \in Status
    BY DEF RejectStatus, Status
  <2>2. CASE verdict = "bad_protocol"
    <3>1. "BRIDGE_OK" \in Status /\ 10 \in {0, 10, 11} /\ 0 \in Nat
          /\ {} \in SUBSET {"setup", "rx"}
      BY DEF Status
    <3>2. [resp EXCEPT !.exception_code = 0] \in Response
      BY <1>2 DEF Response
    <3>3. QED
      BY <1>1, <1>2, <1>3, <2>2, <3>1
      DEF RejectResponse, Response, MODBUS_EXC_GATEWAY_PATH_UNAVAILABLE
  <2>3. CASE verdict # "bad_protocol"
    BY <1>1, <1>2, <2>1, <2>3 DEF RejectResponse, Response
  <2>4. QED
    BY <2>2, <2>3
<1>6. DataResponse \in Response
  <2>1. TcpResponseLen(rx_len) \in Nat
    BY DriverAssumption DEF TypeOK, LocalTypeOK, TcpResponseLen,
       MODBUS_MBAP_HEADER_SIZE
  <2>2. [i \in 1 .. rx_len |-> rx_buffer[i]] \in Seq(Char)
    BY DriverAssumption DEF TypeOK, LocalTypeOK, DriverTypeOK, RxTypeOK
  <2>3. QED
    BY <1>1, <1>2, <2>1, <2>2 DEF DataResponse, Response, Status
<1>7. QED
  BY <1>4, <1>5, <1>6

-----------------------------------------------------------------------------
\* The groups of the types, together, in a state and in the next one.
LEMMA TypeOKGroups ==
  /\ TypeOK <=> /\ TxTypeOK /\ RxTypeOK /\ TimTypeOK /\ BusTypeOK
                /\ FltTypeOK /\ QueueTypeOK /\ LocalTypeOK /\ HistTypeOK
                /\ DiagTypeOK /\ PcTypeOK
  /\ TypeOK' <=> /\ TxTypeOK' /\ RxTypeOK' /\ TimTypeOK' /\ BusTypeOK'
                 /\ FltTypeOK' /\ QueueTypeOK' /\ LocalTypeOK' /\ HistTypeOK'
                 /\ DiagTypeOK' /\ PcTypeOK'
BY DEF TypeOK, DriverTypeOK

\* A test keeps the types, and so does a step of the task to a known place
\* as far as pc goes.
LEMMA MoveTypes ==
  ASSUME TypeOK, NEW from, NEW to, Move(from, to),
         to \in {"check_frame", "unit", "build", "receive", "start_rx"}
  PROVE  TypeOK'
<1>1. PcTypeOK'
  BY DEF Move, Step, PcTypeOK, RxPhase
<1>2. QED
  BY <1>1, TypeOKGroups, UnchangedTypes DEF Move, driver_vars, task_vars

\* STEP 1: the request that is taken, and the answer to a bad one.
LEMMA DequeueTypes == TypeOK /\ Dequeue => TypeOK'
<1> SUFFICES ASSUME TypeOK, Dequeue PROVE TypeOK'
  OBVIOUS
<1>1. /\ Head(bridge_request_queue) \in Request
      /\ Tail(bridge_request_queue) \in Seq(Request)
  BY DEF TypeOK, QueueTypeOK, Dequeue
<1>2. QueueTypeOK'
  BY <1>1 DEF TypeOK, QueueTypeOK, Dequeue
<1>3. resp' \in Response
  BY <1>1, ResponseTypes DEF TypeOK, LocalTypeOK, Dequeue
<1>4. LocalTypeOK'
  <2>1. req' \in Request /\ rx_len' \in 0 .. RX_BUFFER_SIZE
    BY <1>1 DEF TypeOK, LocalTypeOK, Dequeue
  <2>2. sem_result' \in BOOLEAN /\ rs485_bus_mutex' \in BOOLEAN
    BY Zenon DEF TypeOK, LocalTypeOK, Dequeue
  <2>3. QED
    BY <1>3, <2>1, <2>2, Zenon DEF LocalTypeOK
<1>5. TxTypeOK'
  <2>1. tx_intact' \in BOOLEAN
    BY Zenon DEF TypeOK, DriverTypeOK, TxTypeOK, Dequeue
  <2>2. QED
    BY <2>1, Zenon DEF TypeOK, DriverTypeOK, TxTypeOK, Dequeue
<1>6. HistTypeOK'
  BY Zenon DEF TypeOK, HistTypeOK, Dequeue
<1>7. DiagTypeOK'
  BY CountType, TypeOKGroups DEF Dequeue
<1>8. PcTypeOK'
  BY DEF PcTypeOK, Dequeue
<1>9. QED
  BY <1>2, <1>4, <1>5, <1>6, <1>7, <1>8, TypeOKGroups, UnchangedTypes
  DEF Dequeue

\* STEPs 2 and 3: flush, arm, transmit.
LEMMA TransmitTypes ==
  ASSUME TypeOK,
         Drain \/ ClearFlags \/ ClearBuffer \/ ArmTx \/ TransmitMode
         \/ StartDma \/ TxComplete \/ TxTimeout
  PROVE  TypeOK'
<1>1. CASE Drain
  <2>1. RxTypeOK' /\ PcTypeOK'
    BY <1>1 DEF TypeOK, DriverTypeOK, RxTypeOK, PcTypeOK, Drain, Step
  <2>2. QED
    BY <1>1, <2>1, TypeOKGroups, UnchangedTypes DEF Drain, task_vars
<1>2. CASE ClearFlags
  <2>1. rx_index' \in 0 .. RX_BUFFER_SIZE
    BY <1>2, DriverAssumption DEF ClearFlags, FlushFlags
  <2>2. RxTypeOK'
    BY <1>2, <2>1, Zenon
    DEF TypeOK, DriverTypeOK, RxTypeOK, ClearFlags, FlushFlags
  <2>3. PcTypeOK'
    BY <1>2 DEF PcTypeOK, ClearFlags, Step
  <2>4. QED
    BY <1>2, <2>2, <2>3, TypeOKGroups, UnchangedTypes
    DEF ClearFlags, task_vars
<1>3. CASE ClearBuffer
  <2>1. RxTypeOK'
    BY <1>3, ZeroBufferType, Zenon
    DEF TypeOK, DriverTypeOK, RxTypeOK, ClearBuffer, FlushMemory
  <2>2. PcTypeOK'
    BY <1>3 DEF PcTypeOK, ClearBuffer, Step
  <2>3. QED
    BY <1>3, <2>1, <2>2, TypeOKGroups, UnchangedTypes
    DEF ClearBuffer, task_vars
<1>4. CASE ArmTx
  <2>1. TxTypeOK'
    BY <1>4, Zenon DEF TypeOK, DriverTypeOK, TxTypeOK, ArmTx
  <2>2. PcTypeOK'
    BY <1>4 DEF PcTypeOK, ArmTx, Step
  <2>3. QED
    BY <1>4, <2>1, <2>2, TypeOKGroups, UnchangedTypes DEF ArmTx, task_vars
<1>5. CASE TransmitMode
  <2>1. TxTypeOK'
    BY <1>5, Zenon
    DEF TypeOK, DriverTypeOK, TxTypeOK, TransmitMode, rs485_set_transmit_mode
  <2>2. PcTypeOK'
    BY <1>5 DEF PcTypeOK, TransmitMode, Step
  <2>3. QED
    BY <1>5, <2>1, <2>2, TypeOKGroups, UnchangedTypes
    DEF TransmitMode, task_vars
<1>6. CASE StartDma
  <2>1. MbapOf(req) \in Target
    BY DEF TypeOK, LocalTypeOK, MbapOf, Request, Target
  <2>2. TxTypeOK'
    BY <1>6, <2>1, Zenon
    DEF TypeOK, DriverTypeOK, TxTypeOK, StartDma, HalTransmitDma,
        rs485_set_receive_mode
  <2>3. PcTypeOK'
    BY <1>6 DEF PcTypeOK, StartDma, Step, RxPhase
  <2>4. QED
    BY <1>6, <2>2, <2>3, TypeOKGroups, UnchangedTypes
    DEF StartDma, task_vars
<1>7. CASE TxComplete
  BY <1>7, MoveTypes DEF TxComplete
<1>8. CASE TxTimeout
  <2>1. resp' \in Response
    BY <1>8, ResponseTypes
    DEF TxTimeout, Status, MODBUS_EXC_GATEWAY_TARGET_FAILED
  <2>2. LocalTypeOK' /\ HistTypeOK'
    BY <1>8, <2>1, Zenon DEF TypeOK, LocalTypeOK, HistTypeOK, TxTimeout
  <2>3. PcTypeOK'
    BY <1>8 DEF PcTypeOK, TxTimeout, Step
  <2>4. QED
    BY <1>8, <2>2, <2>3, TypeOKGroups, UnchangedTypes
    DEF TxTimeout, driver_vars
<1>9. QED
  BY <1>1, <1>2, <1>3, <1>4, <1>5, <1>6, <1>7, <1>8

\* STEP 4: the wait.
LEMMA WaitTypes ==
  ASSUME TypeOK, StartRx \/ WaitTake \/ WaitTimeout \/ StopRx
  PROVE  TypeOK'
<1>1. CASE StartRx
  <2>1. TimTypeOK'
    BY <1>1, TypeOKGroups, TimerTypes DEF StartRx
  <2>2. PcTypeOK'
    BY <1>1 DEF PcTypeOK, StartRx, Step, RxPhase
  <2>3. QED
    BY <1>1, <2>1, <2>2, TypeOKGroups, UnchangedTypes
    DEF StartRx, task_vars
<1>2. CASE WaitTake
  <2>1. RxTypeOK'
    BY <1>2 DEF TypeOK, DriverTypeOK, RxTypeOK, WaitTake
  <2>2. LocalTypeOK'
    BY <1>2, Zenon DEF TypeOK, LocalTypeOK, WaitTake
  <2>3. PcTypeOK'
    BY <1>2 DEF PcTypeOK, WaitTake, Step, RxPhase
  <2>4. QED
    BY <1>2, <2>1, <2>2, <2>3, TypeOKGroups, UnchangedTypes DEF WaitTake
<1>3. CASE WaitTimeout
  <2>1. LocalTypeOK'
    BY <1>3, Zenon DEF TypeOK, LocalTypeOK, WaitTimeout
  <2>2. PcTypeOK'
    BY <1>3 DEF PcTypeOK, WaitTimeout, Step, RxPhase
  <2>3. QED
    BY <1>3, <2>1, <2>2, TypeOKGroups, UnchangedTypes
    DEF WaitTimeout, driver_vars
<1>4. CASE StopRx
  <2>1. TimTypeOK'
    BY <1>4, TypeOKGroups, TimerTypes DEF StopRx
  <2>2. PcTypeOK'
    BY <1>4 DEF PcTypeOK, StopRx, Step, RxPhase
  <2>3. QED
    BY <1>4, <2>1, <2>2, TypeOKGroups, UnchangedTypes
    DEF StopRx, task_vars
<1>5. QED
  BY <1>1, <1>2, <1>3, <1>4

\* A frame that is turned down (STEPs 5 to 7).
LEMMA RejectTypes ==
  ASSUME TypeOK, NEW status \in Status, RejectFrame(status),
         pc' = "send_fail", DiagTypeOK'
  PROVE  TypeOK'
<1>1. RxTypeOK'
  BY FlushTypes, TypeOKGroups DEF RejectFrame
<1>2. resp' \in Response
  BY ResponseTypes DEF RejectFrame, MODBUS_EXC_GATEWAY_TARGET_FAILED
<1>3. LocalTypeOK'
  BY <1>2, Zenon DEF TypeOK, LocalTypeOK, RejectFrame
<1>4. PcTypeOK'
  BY DEF PcTypeOK
<1>5. QED
  BY <1>1, <1>3, <1>4, TypeOKGroups, UnchangedTypes DEF RejectFrame

\* STEPs 5 to 7: what came in.
LEMMA CheckTypes ==
  ASSUME TypeOK,
         CheckTimeout \/ CheckNoTimeout \/ CheckSpurious \/ CheckFrame
         \/ ReadLen \/ CheckLen \/ CheckCrcBad \/ CheckCrcGood
         \/ CheckUnitBad \/ CheckUnitGood \/ BuildResponse
  PROVE  TypeOK'
<1>1. CASE CheckTimeout
  <2>1. RxTypeOK'
    BY <1>1, FlushTypes, TypeOKGroups DEF CheckTimeout
  <2>2. resp' \in Response
    BY <1>1, ResponseTypes
    DEF CheckTimeout, Status, MODBUS_EXC_GATEWAY_TARGET_FAILED
  <2>3. LocalTypeOK'
    BY <1>1, <2>2, Zenon DEF TypeOK, LocalTypeOK, CheckTimeout
  <2>4. PcTypeOK' /\ DiagTypeOK'
    BY <1>1, CountType, TypeOKGroups DEF PcTypeOK, CheckTimeout, Step
  <2>5. QED
    BY <1>1, <2>1, <2>3, <2>4, TypeOKGroups, UnchangedTypes DEF CheckTimeout
<1>2. CASE CheckNoTimeout
  BY <1>2, MoveTypes DEF CheckNoTimeout
<1>3. CASE CheckSpurious
  <2>1. RxTypeOK'
    BY <1>3, FlushTypes, TypeOKGroups DEF CheckSpurious
  <2>2. LocalTypeOK'
    BY <1>3, Zenon DEF TypeOK, LocalTypeOK, CheckSpurious
  <2>3. PcTypeOK'
    BY <1>3 DEF PcTypeOK, CheckSpurious, Step
  <2>4. QED
    BY <1>3, <2>1, <2>2, <2>3, TypeOKGroups, UnchangedTypes
    DEF CheckSpurious
<1>4. CASE CheckFrame
  <2>1. RxTypeOK'
    BY <1>4, Zenon DEF TypeOK, DriverTypeOK, RxTypeOK, CheckFrame
  <2>2. PcTypeOK'
    BY <1>4 DEF PcTypeOK, CheckFrame, Step, RxPhase
  <2>3. QED
    BY <1>4, <2>1, <2>2, TypeOKGroups, UnchangedTypes
    DEF CheckFrame, task_vars
<1>5. CASE ReadLen
  <2>1. rx_len' \in 0 .. RX_BUFFER_SIZE
    BY <1>5 DEF TypeOK, DriverTypeOK, RxTypeOK, ReadLen
  <2>2. LocalTypeOK'
    BY <1>5, <2>1, Zenon DEF TypeOK, LocalTypeOK, ReadLen
  <2>3. PcTypeOK'
    BY <1>5 DEF PcTypeOK, ReadLen, Step, RxPhase
  <2>4. QED
    BY <1>5, <2>2, <2>3, TypeOKGroups, UnchangedTypes
    DEF ReadLen, driver_vars
<1>6. CASE CheckLen
  <2>1. DiagTypeOK'
    BY <1>6, TypeOKGroups, UnchangedTypes DEF CheckLen
  <2>2. QED
    BY <1>6, <2>1, RejectTypes DEF CheckLen, Step, Status
<1>7. CASE CheckCrcBad
  BY <1>7, CountType, TypeOKGroups, RejectTypes DEF CheckCrcBad, Step, Status
<1>8. CASE CheckUnitBad
  BY <1>8, CountType, TypeOKGroups, RejectTypes DEF CheckUnitBad, Step, Status
<1>9. CASE CheckCrcGood \/ CheckUnitGood
  BY <1>9, MoveTypes DEF CheckCrcGood, CheckUnitGood
<1>10. CASE BuildResponse
  <2>1. LocalTypeOK'
    BY <1>10, ResponseTypes, Zenon DEF TypeOK, LocalTypeOK, BuildResponse
  <2>2. PcTypeOK' /\ DiagTypeOK'
    BY <1>10, CountType, TypeOKGroups DEF PcTypeOK, BuildResponse, Step
  <2>3. QED
    BY <1>10, <2>1, <2>2, TypeOKGroups, UnchangedTypes
    DEF BuildResponse, driver_vars
<1>11. QED
  BY <1>1, <1>2, <1>3, <1>4, <1>5, <1>6, <1>7, <1>8, <1>9, <1>10

\* The answer goes into the queue or is lost, and the mutex is released.
LEMMA SendTypes ==
  ASSUME TypeOK,
         SendReject \/ SendFail \/ SendTxTimeout \/ SendOk \/ Guard
  PROVE  TypeOK'
<1>1. ASSUME NEW from, NEW to, Send(from, to), to \in {"receive", "guard"}
      PROVE  /\ QueueTypeOK' /\ LocalTypeOK' /\ HistTypeOK' /\ DiagTypeOK'
             /\ PcTypeOK'
  <2>1. QueueTypeOK'
    BY <1>1
    DEF TypeOK, QueueTypeOK, LocalTypeOK, Send, Enqueue, EnqueueTimeout
  <2>2. LocalTypeOK'
    BY <1>1, Zenon DEF TypeOK, LocalTypeOK, Send
  <2>3. PcTypeOK'
    BY <1>1 DEF PcTypeOK, Send, Step
  <2>4. QED
    BY <1>1, <2>1, <2>2, <2>3, TypeOKGroups, UnchangedTypes DEF Send
<1>2. CASE SendReject \/ SendFail
  BY <1>1, <1>2, TypeOKGroups, UnchangedTypes
  DEF SendReject, SendFail, driver_vars
<1>3. CASE SendTxTimeout
  <2>1. TxTypeOK'
    BY <1>3, Zenon
    DEF TypeOK, DriverTypeOK, TxTypeOK, SendTxTimeout, rs485_set_receive_mode
  <2>2. QED
    BY <1>1, <1>3, <2>1, TypeOKGroups, UnchangedTypes DEF SendTxTimeout
<1>4. CASE SendOk
  <2>1. RxTypeOK'
    BY <1>4, FlushTypes, TypeOKGroups DEF SendOk
  <2>2. QED
    BY <1>1, <1>4, <2>1, TypeOKGroups, UnchangedTypes DEF SendOk
<1>5. CASE Guard
  BY <1>5, MoveTypes DEF Guard
<1>6. QED
  BY <1>2, <1>3, <1>4, <1>5

\* The timer interrupts and the end of a transmission.
LEMMA IsrTypes == TypeOK /\ Isr => TypeOK'
<1> SUFFICES ASSUME TypeOK, Isr PROVE TypeOK'
  OBVIOUS
<1>1. CASE \E t \in Timers : TimerUpdate(t)
  <2>1. TimTypeOK'
    BY <1>1 DEF TypeOK, DriverTypeOK, TimTypeOK, TimerUpdate
  <2>2. QED
    BY <1>1, <2>1, TypeOKGroups, UnchangedTypes DEF TimerUpdate, Isr, task_vars
<1>2. CASE Tim2IsrEnter
  <2>1. TimTypeOK'
    BY <1>2
    DEF TypeOK, DriverTypeOK, TimTypeOK, Tim2IsrEnter, rs485_stop_rx_timeout
  <2>2. QED
    BY <1>2, <2>1, TypeOKGroups, UnchangedTypes DEF Tim2IsrEnter, Isr, task_vars
<1>3. CASE Tim2IsrSignal
  <2>1. TimTypeOK'
    BY <1>3 DEF TypeOK, DriverTypeOK, TimTypeOK, Tim2IsrSignal
  <2>2. rx_frame_semaphore' \in {0, 1}
    BY <1>3 DEF TypeOK, DriverTypeOK, RxTypeOK, Tim2IsrSignal
  <2>3. rx_frame_complete' \in BOOLEAN
    BY <1>3, Zenon DEF TypeOK, DriverTypeOK, RxTypeOK, Tim2IsrSignal
  <2>4. RxTypeOK'
    BY <1>3, <2>2, <2>3, Zenon
    DEF TypeOK, DriverTypeOK, RxTypeOK, Tim2IsrSignal
  <2>5. QED
    BY <1>3, <2>1, <2>4, TypeOKGroups, UnchangedTypes
    DEF Tim2IsrSignal, Isr, task_vars
<1>4. CASE rs485_tim3_period_elapsed_isr
  <2>1. TimTypeOK'
    BY <1>4
    DEF TypeOK, DriverTypeOK, TimTypeOK, rs485_tim3_period_elapsed_isr,
        rs485_stop_rx_timeout
  <2>2. RxTypeOK'
    BY <1>4
    DEF TypeOK, DriverTypeOK, RxTypeOK, rs485_tim3_period_elapsed_isr
  <2>3. QED
    BY <1>4, <2>1, <2>2, TypeOKGroups, UnchangedTypes
    DEF rs485_tim3_period_elapsed_isr, Isr, task_vars
<1>5. CASE HAL_UART_TxCpltCallback
  <2>1. tx_frame \in Target /\ heard \in SUBSET Target
    BY DEF TypeOK, DriverTypeOK, TxTypeOK, BusTypeOK
  <2>2. BusTypeOK'
    BY <1>5, <2>1
    DEF TypeOK, DriverTypeOK, BusTypeOK, HAL_UART_TxCpltCallback
  <2>3. TxTypeOK'
    BY <1>5, <2>1
    DEF TypeOK, DriverTypeOK, TxTypeOK, HAL_UART_TxCpltCallback
  <2>4. RxTypeOK' /\ TimTypeOK'
    <3>1. Noise \in Char
      BY DEF Noise, Char
    <3>2. QED
      BY <1>5, <3>1, UartRxIsrTypes, TypeOKGroups, UnchangedTypes
      DEF HAL_UART_TxCpltCallback
  <2>5. QED
    BY <1>5, <2>2, <2>3, <2>4, TypeOKGroups, UnchangedTypes
    DEF HAL_UART_TxCpltCallback, Isr, task_vars
<1>6. QED
  BY <1>1, <1>2, <1>3, <1>4, <1>5 DEF Isr

\* The UART error handler.
LEMMA UartErrorTypes == TypeOK /\ UartError => TypeOK'
<1> SUFFICES ASSUME TypeOK, UartError PROVE TypeOK'
  OBVIOUS
<1>1. HAL_UART_ErrorCallback
  BY DEF UartError, UartLineError, TxDmaError
<1>2. FltTypeOK'
  BY <1>1, DriverAssumption
  DEF TypeOK, DriverTypeOK, FltTypeOK, HAL_UART_ErrorCallback
<1>3. RxTypeOK'
  <2>1. rx_index' \in 0 .. RX_BUFFER_SIZE
    BY <1>1, DriverAssumption DEF HAL_UART_ErrorCallback
  <2>2. QED
    BY <1>1, <2>1, ZeroBufferType
    DEF RxTypeOK, HAL_UART_ErrorCallback, FlushMemory
<1>4. TxTypeOK'
  <2>1. CASE UartLineError
    BY <2>1, TypeOKGroups, UnchangedTypes DEF UartLineError
  <2>2. CASE TxDmaError
    BY <2>2, Zenon DEF TypeOK, DriverTypeOK, TxTypeOK, TxDmaError
  <2>3. QED
    BY <2>1, <2>2 DEF UartError
<1>5. TimTypeOK' /\ BusTypeOK'
  BY TypeOKGroups, UnchangedTypes DEF UartError, UartLineError, TxDmaError
<1>6. HistTypeOK'
  <2>1. err_in' \in SUBSET {"setup", "rx"}
    BY DEF TypeOK, HistTypeOK, UartError
  <2>2. QED
    BY <2>1, Zenon DEF TypeOK, HistTypeOK, UartError
<1>7. QED
  BY <1>2, <1>3, <1>4, <1>5, <1>6, TypeOKGroups, UnchangedTypes DEF UartError

\* The slaves and the line.
LEMMA BusTypes == TypeOK /\ Bus => TypeOK'
<1> SUFFICES ASSUME TypeOK, Bus PROVE TypeOK'
  OBVIOUS
<1>1. QueueTypeOK' /\ LocalTypeOK' /\ HistTypeOK' /\ DiagTypeOK' /\ PcTypeOK'
  BY TypeOKGroups, UnchangedTypes DEF Bus, task_vars
<1>2. CASE SlaveStartsReply
  <2>1. BusTypeOK'
    BY <1>2, ReplyFrameType
    DEF TypeOK, DriverTypeOK, BusTypeOK, SlaveStartsReply
  <2>2. QED
    BY <1>1, <1>2, <2>1, TypeOKGroups, UnchangedTypes DEF SlaveStartsReply
<1>3. Noise \in Char
  BY DEF Noise, Char
<1>4. CASE SlaveChar \/ SlaveCharDamaged
  <2>1. Head(reply) \in Char /\ BusTypeOK'
    BY <1>4
    DEF TypeOK, DriverTypeOK, BusTypeOK, SlaveChar, SlaveCharDamaged
  <2>2. RxTypeOK' /\ TimTypeOK'
    BY <1>3, <1>4, <2>1, UartRxIsrTypes, TypeOKGroups, UnchangedTypes
    DEF SlaveChar, SlaveCharDamaged
  <2>3. FltTypeOK'
    <3>1. CASE SlaveChar
      BY <3>1, TypeOKGroups, UnchangedTypes DEF SlaveChar
    <3>2. CASE SlaveCharDamaged
      BY <3>2, DriverAssumption
      DEF TypeOK, DriverTypeOK, FltTypeOK, SlaveCharDamaged
    <3>3. QED
      BY <1>4, <3>1, <3>2
  <2>4. QED
    BY <1>1, <1>4, <2>1, <2>2, <2>3, TypeOKGroups, UnchangedTypes
    DEF SlaveChar, SlaveCharDamaged
<1>5. CASE LineNoise
  <2>1. FltTypeOK'
    BY <1>5, DriverAssumption DEF TypeOK, DriverTypeOK, FltTypeOK, LineNoise
  <2>2. RxTypeOK' /\ TimTypeOK'
    BY <1>3, <1>5, UartRxIsrTypes, TypeOKGroups, UnchangedTypes DEF LineNoise
  <2>3. TxTypeOK'
    BY <1>5, Zenon DEF TypeOK, DriverTypeOK, TxTypeOK, LineNoise
  <2>4. QED
    BY <1>1, <1>5, <2>1, <2>2, <2>3, TypeOKGroups, UnchangedTypes
    DEF LineNoise
<1>6. QED
  BY <1>2, <1>4, <1>5 DEF Bus

\* The TCP server's side of the queues.
LEMMA ServerTypes == TypeOK /\ (Submit \/ Collect) => TypeOK'
<1>1. ASSUME TypeOK, Submit PROVE TypeOK'
  <2>1. \A f \in Frames, s \in Socks :
          [tid |-> submitted + 1, client_sock |-> s,
           protocol_id |-> f.protocol_id, unit |-> f.unit,
           frame_len |-> f.frame_len] \in Request
    BY <1>1, BridgeAssumption DEF TypeOK, QueueTypeOK, Request
  <2>2. QueueTypeOK'
    BY <1>1, <2>1, BridgeAssumption DEF TypeOK, QueueTypeOK, Submit
  <2>3. QED
    BY <1>1, <2>2, TypeOKGroups, UnchangedTypes DEF Submit, driver_vars
<1>2. ASSUME TypeOK, Collect PROVE TypeOK'
  <2>1. QueueTypeOK'
    BY <1>2 DEF TypeOK, QueueTypeOK, Collect
  <2>2. QED
    BY <1>2, <2>1, TypeOKGroups, UnchangedTypes DEF Collect, driver_vars
<1>3. QED
  BY <1>1, <1>2

LEMMA NextTypeOK == TypeOK /\ [Next]_vars => TypeOK'
<1>1. TypeOK /\ UNCHANGED vars => TypeOK'
  BY TypeOKGroups, UnchangedTypes DEF vars, driver_vars, task_vars
<1>2. TypeOK /\ Task => TypeOK'
  BY DequeueTypes, TransmitTypes, WaitTypes, CheckTypes, SendTypes DEF Task
<1>3. QED
  BY <1>1, <1>2, IsrTypes, UartErrorTypes, BusTypes, ServerTypes DEF Next

\* In every reachable state the variables have their types; in particular no
\* order of handlers, errors and task steps makes a handler write outside
\* rx_buffer (rs485_uart_rx_isr) or rx_len exceed it.
THEOREM TypeCorrect == Spec => []TypeOK
BY InitTypeOK, NextTypeOK, PTL DEF Spec
=============================================================================

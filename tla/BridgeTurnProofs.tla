-------------------------- MODULE BridgeTurnProofs --------------------------
(***************************************************************************)
(* Who may speak on the bus, in BridgeTiming, for every value of its       *)
(* constants: in orderly behaviours a prompt slave is heard, the bridge    *)
(* does not drive the bus while a slave is sending, and a reply belongs to *)
(* the request that it answers.                                            *)
(***************************************************************************)
EXTENDS BridgeTimingProofs, BridgeSafetyProofs

USE DEF Off, Never, hist_clocks

-----------------------------------------------------------------------------
(* Requests are numbered in the order in which they come, and nothing on   *)
(* the bus is about a request that was not dequeued yet.                   *)

QueueNumbered ==
  /\ req.tid <= submitted
  /\ pc # "receive" => req.tid >= 1
  /\ \A i \in 1 .. Len(bridge_request_queue) :
       /\ req.tid < bridge_request_queue[i].tid
       /\ bridge_request_queue[i].tid <= submitted
       /\ \A j \in 1 .. i - 1 :
            bridge_request_queue[j].tid < bridge_request_queue[i].tid
BusNumbered ==
  /\ tx_frame.tid <= req.tid
  /\ \A q \in heard : q.tid <= req.tid
  /\ \A t \in Tids : delay[t] # Off => t <= req.tid
  /\ \A t \in Tids : due[t] # Off => delay[t] # Off
Numbered == QueueNumbered /\ BusNumbered

\* What TypeOK says of the variables with numbers.
LEMMA NumberTypes ==
  ASSUME TypeOK
  PROVE  /\ req \in Request /\ req.tid \in Nat
         /\ bridge_request_queue \in Seq(Request)
         /\ submitted \in 0 .. MaxRequests
         /\ heard \in SUBSET Target /\ tx_frame \in Target
         /\ pc \in {"receive", "poll_tx", "send_reject", "send_txto",
                    "send_fail", "send_ok", "guard"} \cup Setup \cup RxPhase
<1>1. req \in Request
  BY DEF TypeOK, LocalTypeOK
<1>2. bridge_request_queue \in Seq(Request) /\ submitted \in 0 .. MaxRequests
  BY DEF TypeOK, QueueTypeOK
<1>3. heard \in SUBSET Target /\ tx_frame \in Target
  BY DEF TypeOK, DriverTypeOK, TxTypeOK, BusTypeOK
<1>4. pc \in {"receive", "poll_tx", "send_reject", "send_txto",
              "send_fail", "send_ok", "guard"} \cup Setup \cup RxPhase
  BY DEF TypeOK, PcTypeOK, Setup
<1>5. QED
  BY <1>1, <1>2, <1>3, <1>4 DEF Request

\* What a step of the task does to the variables with numbers.
LEMMA TaskNumbers ==
  ASSUME Task
  PROVE  /\ UNCHANGED <<submitted, heard>>
         /\ tx_frame' = IF pc = "hal_tx" /\ gState = "READY"
                        THEN MbapOf(req) ELSE tx_frame
<1>1. CASE Dequeue \/ Drain \/ ClearFlags \/ ClearBuffer
  BY <1>1 DEF Dequeue, Drain, ClearFlags, ClearBuffer, Step, task_vars,
              queue_vars, tx_vars, bus_vars
<1>2. CASE ArmTx \/ TransmitMode \/ StartDma
  BY <1>2 DEF ArmTx, TransmitMode, StartDma, HalTransmitDma, Step, task_vars,
              queue_vars, bus_vars
<1>3. CASE TxComplete \/ TxTimeout \/ StartRx \/ WaitTake \/ WaitTimeout
           \/ StopRx
  BY <1>3 DEF TxComplete, TxTimeout, StartRx, WaitTake, WaitTimeout, StopRx,
              Move, Step, driver_vars, tx_vars, bus_vars, task_vars, queue_vars
<1>4. CASE CheckTimeout \/ CheckNoTimeout \/ CheckSpurious \/ CheckFrame
           \/ ReadLen
  BY <1>4 DEF CheckTimeout, CheckNoTimeout, CheckSpurious, CheckFrame, ReadLen,
              Move, Step, driver_vars, tx_vars, bus_vars, task_vars, queue_vars
<1>5. CASE CheckLen \/ CheckCrcBad \/ CheckCrcGood \/ CheckUnitBad
           \/ CheckUnitGood \/ BuildResponse
  BY <1>5 DEF CheckLen, CheckCrcBad, CheckCrcGood, CheckUnitBad, CheckUnitGood,
              BuildResponse, RejectFrame, Move, Step, driver_vars, tx_vars,
              bus_vars, task_vars, queue_vars
<1>6. CASE SendReject \/ SendFail \/ SendTxTimeout \/ SendOk \/ Guard
  BY <1>6 DEF SendReject, SendFail, SendTxTimeout, SendOk, Guard, Send, Move,
              Step, driver_vars, tx_vars, bus_vars, task_vars, queue_vars
<1>7. QED
  BY <1>1, <1>2, <1>3, <1>4, <1>5, <1>6 DEF Task

LEMMA TaskKeepsNumbers ==
  ASSUME TypeOK, ClocksOK, Numbered, TimedTask
  PROVE  Numbered'
<1>1. Task /\ UNCHANGED <<due, delay>>
  BY DEF TimedTask
<1>2. UNCHANGED <<submitted, heard>>
  BY <1>1, TaskNumbers
<1>3. tx_frame' \in {tx_frame, MbapOf(req)}
  BY <1>1, TaskNumbers
<1>4. CASE pc = "receive"
  <2>1. /\ bridge_request_queue # <<>>
        /\ req' = bridge_request_queue[1]
        /\ bridge_request_queue' = Tail(bridge_request_queue)
        /\ tx_frame' = tx_frame
        /\ 1 \in 1 .. Len(bridge_request_queue)
    BY <1>1, <1>4, TaskRequest, TaskNumbers, NumberTypes
  <2>2. req.tid < req'.tid /\ req'.tid <= submitted
    BY <2>1 DEF Numbered, QueueNumbered
  <2>3. req'.tid \in Nat
    <3>1. bridge_request_queue[1] \in Request
      BY <2>1, NumberTypes
    <3>2. QED
      BY <2>1, <3>1 DEF Request
  <2>4. \A i \in 1 .. Len(bridge_request_queue') :
          /\ i + 1 \in 1 .. Len(bridge_request_queue)
          /\ bridge_request_queue'[i] = bridge_request_queue[i + 1]
    BY <2>1, NumberTypes
  <2>5. \A i \in 1 .. Len(bridge_request_queue') :
          /\ req'.tid < bridge_request_queue'[i].tid
          /\ bridge_request_queue'[i].tid <= submitted
    BY <2>1, <2>4, NumberTypes DEF Numbered, QueueNumbered
  <2>6. \A i \in 1 .. Len(bridge_request_queue') : \A j \in 1 .. i - 1 :
          bridge_request_queue'[j].tid < bridge_request_queue'[i].tid
    <3> SUFFICES ASSUME NEW i \in 1 .. Len(bridge_request_queue'),
                        NEW j \in 1 .. i - 1
                 PROVE  bridge_request_queue'[j].tid < bridge_request_queue'[i].tid
      OBVIOUS
    <3>1. Len(bridge_request_queue') \in Nat
      BY <2>1, NumberTypes
    <3>2. j \in 1 .. Len(bridge_request_queue') /\ j + 1 \in 1 .. (i + 1) - 1
      BY <3>1
    <3>3. QED
      BY <2>4, <3>2 DEF Numbered, QueueNumbered
  <2>7. QueueNumbered'
    BY <1>2, <2>2, <2>3, <2>5, <2>6, NumberTypes DEF QueueNumbered
  <2>8. BusNumbered'
    BY <1>1, <1>2, <2>1, <2>2, <2>3, NumberTypes
    DEF Numbered, BusNumbered, Target, Tids
  <2>9. QED
    BY <2>7, <2>8 DEF Numbered
<1>5. CASE pc # "receive"
  <2>1. UNCHANGED <<req, bridge_request_queue>>
    BY <1>1, <1>5, TaskRequest
  <2>2. QueueNumbered'
    BY <1>2, <1>5, <2>1 DEF Numbered, QueueNumbered
  <2>3. BusNumbered'
    BY <1>1, <1>2, <1>3, <2>1, NumberTypes DEF Numbered, BusNumbered, MbapOf
  <2>4. QED
    BY <2>2, <2>3 DEF Numbered
<1>6. QED
  BY <1>4, <1>5

\* The parts of Numbered survive what does not touch their variables.
LEMMA NumbersFrame ==
  ASSUME Numbered,
         UNCHANGED <<req, submitted, pc, bridge_request_queue, tx_frame>>,
         heard' \subseteq heard \cup {tx_frame},
         \A t \in Tids :
           \/ (due'[t] # Off => due[t] # Off) /\ delay'[t] = delay[t]
           \/ t = tx_frame.tid /\ (due'[t] # Off => delay'[t] # Off)
  PROVE  Numbered'
<1>1. QueueNumbered'
  BY DEF Numbered, QueueNumbered
<1>2. BusNumbered'
  BY DEF Numbered, BusNumbered
<1>3. QED
  BY <1>1, <1>2 DEF Numbered

LEMMA NumbersSame ==
  ASSUME Numbered,
         UNCHANGED <<req, submitted, pc, bridge_request_queue, tx_frame, heard,
                     due, delay>>
  PROVE  Numbered'
BY DEF Numbered, QueueNumbered, BusNumbered

LEMMA SubmitKeepsNumbers ==
  ASSUME TypeOK, Numbered, Submit, UNCHANGED clock_vars
  PROVE  Numbered'
<1>1. PICK f \in Frames, s \in Socks :
        bridge_request_queue' = Append(bridge_request_queue,
          [tid |-> submitted + 1, client_sock |-> s,
           protocol_id |-> f.protocol_id, unit |-> f.unit,
           frame_len |-> f.frame_len])
  BY DEF Submit
<1>2. /\ submitted' = submitted + 1
      /\ UNCHANGED <<req, pc, tx_frame, heard, due, delay>>
  BY DEF Submit, driver_vars, tx_vars, bus_vars, local_vars, clock_vars
<1>3. \A i \in 1 .. Len(bridge_request_queue') :
        \/ /\ i \in 1 .. Len(bridge_request_queue)
           /\ bridge_request_queue'[i] = bridge_request_queue[i]
        \/ /\ i = Len(bridge_request_queue) + 1
           /\ bridge_request_queue'[i].tid = submitted + 1
  BY <1>1, NumberTypes
<1>4. \A i \in 1 .. Len(bridge_request_queue) : bridge_request_queue[i].tid \in Nat
  <2>1. \A i \in 1 .. Len(bridge_request_queue) : bridge_request_queue[i] \in Request
    BY NumberTypes
  <2>2. QED
    BY <2>1 DEF Request
<1>5. \A i \in 1 .. Len(bridge_request_queue') :
        /\ req'.tid < bridge_request_queue'[i].tid
        /\ bridge_request_queue'[i].tid <= submitted'
  BY <1>2, <1>3, <1>4, NumberTypes DEF Numbered, QueueNumbered
<1>6. \A i \in 1 .. Len(bridge_request_queue') : \A j \in 1 .. i - 1 :
        bridge_request_queue'[j].tid < bridge_request_queue'[i].tid
  <2> SUFFICES ASSUME NEW i \in 1 .. Len(bridge_request_queue'),
                      NEW j \in 1 .. i - 1
               PROVE  bridge_request_queue'[j].tid < bridge_request_queue'[i].tid
    OBVIOUS
  <2>1. Len(bridge_request_queue) \in Nat
    BY NumberTypes
  <2>2. i <= Len(bridge_request_queue) + 1
    BY <1>3, <2>1
  <2>3. /\ j \in 1 .. Len(bridge_request_queue)
        /\ j \in 1 .. Len(bridge_request_queue')
        /\ j # Len(bridge_request_queue) + 1
    BY <1>1, <2>1, <2>2, NumberTypes
  <2>4. bridge_request_queue'[j] = bridge_request_queue[j]
    BY <1>3, <2>3
  <2>5. QED
    BY <1>3, <1>4, <2>3, <2>4, NumberTypes DEF Numbered, QueueNumbered
<1>7. QueueNumbered'
  BY <1>2, <1>5, <1>6, NumberTypes DEF Numbered, QueueNumbered
<1>8. BusNumbered'
  BY <1>2 DEF Numbered, BusNumbered
<1>9. QED
  BY <1>7, <1>8 DEF Numbered

LEMMA NextNumbered ==
  TypeOK /\ ClocksOK /\ Numbered /\ [TimedNext]_timed_vars => Numbered'
<1> SUFFICES ASSUME TypeOK, ClocksOK, Numbered, [TimedNext]_timed_vars
             PROVE  Numbered'
  OBVIOUS
<1>1. CASE UNCHANGED timed_vars \/ Quiet \/ Poll
  BY <1>1, NumbersSame
  DEF timed_vars, vars, driver_vars, tx_vars, bus_vars, task_vars, queue_vars,
      local_vars, clock_vars, Quiet, Poll
<1>2. CASE TimedTask
  BY <1>2, TaskKeepsNumbers
<1>3. CASE TimedQueues
  <2>1. CASE Submit
    BY <1>3, <2>1, SubmitKeepsNumbers DEF TimedQueues
  <2>2. CASE Collect
    BY <1>3, <2>2, NumbersSame
    DEF TimedQueues, Collect, driver_vars, tx_vars, bus_vars, local_vars, clock_vars
  <2>3. QED
    BY <1>3, <2>1, <2>2 DEF TimedQueues
<1>4. CASE TimedTimer \/ TimedError
  BY <1>4, NumbersSame
  DEF TimedTimer, TimerUpdate, Tim2IsrEnter, Tim2IsrSignal,
      rs485_tim3_period_elapsed_isr, TimedError, UartError, UartLineError,
      TxDmaError, task_vars, queue_vars, local_vars, tx_vars, bus_vars,
      clock_vars
<1>5. CASE TimedTxCplt
  <2>1. /\ UNCHANGED <<req, submitted, pc, bridge_request_queue, tx_frame>>
        /\ heard' \subseteq heard \cup {tx_frame}
    BY <1>5 DEF TimedTxCplt, HAL_UART_TxCpltCallback, task_vars, queue_vars,
       local_vars
  <2>2. \A t \in Tids :
          \/ (due'[t] # Off => due[t] # Off) /\ delay'[t] = delay[t]
          \/ t = tx_frame.tid /\ (due'[t] # Off => delay'[t] # Off)
    <3>1. /\ due \in [Tids -> Nat \cup {Off}]
          /\ delay \in [Tids -> Delays \cup {Off}]
      BY ClocksOKGroups DEF ClockTypes
    <3>2. CASE UNCHANGED <<due, delay>>
      BY <3>2
    <3>3. ASSUME NEW d \in Delays, due' = [due EXCEPT ![tx_frame.tid] = d],
                 delay' = [delay EXCEPT ![tx_frame.tid] = d]
          PROVE  \A t \in Tids :
                   \/ due'[t] = due[t] /\ delay'[t] = delay[t]
                   \/ t = tx_frame.tid /\ due'[t] = delay'[t]
      BY <3>1, <3>3
    <3>4. QED
      BY <1>5, <3>2, <3>3 DEF TimedTxCplt
  <2>3. QED
    BY <2>1, <2>2, NumbersFrame
<1>6. CASE TimedBus
  <2>1. /\ UNCHANGED <<req, submitted, pc, bridge_request_queue, tx_frame>>
        /\ heard' \subseteq heard \cup {tx_frame}
    BY <1>6 DEF TimedBus, SlaveStartsReply, SlaveChar, SlaveCharDamaged,
       LineNoise, task_vars, queue_vars, local_vars, tx_vars, bus_vars
  <2>2. \A t \in Tids :
          \/ (due'[t] # Off => due[t] # Off) /\ delay'[t] = delay[t]
          \/ t = tx_frame.tid /\ (due'[t] # Off => delay'[t] # Off)
    <3>1. due \in [Tids -> Nat \cup {Off}] /\ delay' = delay
      BY <1>6, ClocksOKGroups DEF ClockTypes, TimedBus
    <3>2. due' = due \/ \E u \in Tids : due' = [due EXCEPT ![u] = Off]
      BY <1>6 DEF TimedBus
    <3>3. \A t \in Tids : due'[t] # Off => due[t] # Off
      BY <3>1, <3>2
    <3>4. QED
      BY <3>1, <3>3
  <2>3. QED
    BY <2>1, <2>2, NumbersFrame
<1>7. CASE Elapse
  <2>1. /\ UNCHANGED <<req, submitted, pc, bridge_request_queue, tx_frame>>
        /\ heard' \subseteq heard \cup {tx_frame}
    BY <1>7 DEF Elapse, vars, driver_vars, tx_vars, bus_vars, task_vars,
       queue_vars, local_vars
  <2>2. \A t \in Tids :
          \/ (due'[t] # Off => due[t] # Off) /\ delay'[t] = delay[t]
          \/ t = tx_frame.tid /\ (due'[t] # Off => delay'[t] # Off)
    <3>1. /\ delay' = delay
          /\ \E d \in Nat : d > 0 /\ due' = [t \in Tids |-> Less(due[t], d)]
      BY <1>7, ElapseStep
    <3>2. \A t \in Tids : due[t] \in Nat \cup {Off}
      BY ClocksOKGroups DEF ClockTypes
    <3>3. \A t \in Tids : due'[t] # Off => due[t] # Off
      BY <3>1, <3>2, LessType
    <3>4. QED
      BY <3>1, <3>3
  <2>3. QED
    BY <2>1, <2>2, NumbersFrame
<1>8. QED
  BY <1>1, <1>2, <1>3, <1>4, <1>5, <1>6, <1>7 DEF TimedNext

LEMMA NumberInvariant == TimedSpec => []Numbered
<1>1. TimedInit => Numbered
  BY DEF TimedInit, Init, DriverInit, Numbered, QueueNumbered, BusNumbered,
         NoRequest, NoTarget
<1>2. QED
  BY <1>1, NextNumbered, TimedTypes, ClocksConsistent, PTL DEF TimedSpec

-----------------------------------------------------------------------------
(* What a step of the task does to the receiver.                           *)

\* The places from the flush of the flags to the response.
Cleared == {"memset", "arm", "tx_mode", "hal_tx", "poll_tx"} \cup RxPhase

\* ... places, and who is told what.
LEMMA TaskRoute ==
  ASSUME Task
  PROVE  /\ pc' = "clear" => pc = "drain"
         /\ pc' = "memset" => pc = "clear"
         /\ pc' = "arm" => pc = "memset"
         /\ pc' = "stop_rx" => pc = "wait_rx"
         /\ pc' = "check" => pc = "stop_rx"
         /\ pc' = "check_frame" => pc = "check"
         /\ pc' = "read" => pc = "check_frame" /\ rx_frame_complete
         /\ pc' = "crc" => pc = "read"
         /\ pc' = "unit" => pc = "crc" /\ CrcOk(rx_buffer, rx_len)
         /\ pc' = "build" => pc = "unit"
         /\ pc' = "send_ok" => pc = "build" /\ resp' = DataResponse
         /\ pc' = "send_fail" =>
              \/ pc = "check" /\ (~sem_result \/ rx_timeout_flag)
              \/ pc = "crc" /\ (rx_len < 4 \/ ~CrcOk(rx_buffer, rx_len))
              \/ pc = "unit" /\ rx_buffer[1].unit # req.unit
<1>1. CASE Dequeue \/ Drain \/ ClearFlags \/ ClearBuffer
  BY <1>1 DEF Dequeue, Drain, ClearFlags, ClearBuffer, Step
<1>2. CASE ArmTx \/ TransmitMode \/ StartDma
  BY <1>2 DEF ArmTx, TransmitMode, StartDma, Step
<1>3. CASE TxComplete \/ TxTimeout \/ StartRx \/ WaitTake \/ WaitTimeout
           \/ StopRx
  BY <1>3 DEF TxComplete, TxTimeout, StartRx, WaitTake, WaitTimeout, StopRx,
              Move, Step
<1>4. CASE CheckTimeout \/ CheckNoTimeout \/ CheckSpurious \/ CheckFrame
           \/ ReadLen
  BY <1>4 DEF CheckTimeout, CheckNoTimeout, CheckSpurious, CheckFrame, ReadLen,
              Move, Step
<1>5. CASE CheckLen \/ CheckCrcBad \/ CheckCrcGood \/ CheckUnitBad
           \/ CheckUnitGood \/ BuildResponse
  BY <1>5 DEF CheckLen, CheckCrcBad, CheckCrcGood, CheckUnitBad, CheckUnitGood,
              BuildResponse, Move, Step
<1>6. CASE SendReject \/ SendFail \/ SendTxTimeout \/ SendOk \/ Guard
  BY <1>6 DEF SendReject, SendFail, SendTxTimeout, SendOk, Guard, Send, Move,
              Step
<1>7. QED
  BY <1>1, <1>2, <1>3, <1>4, <1>5, <1>6 DEF Task

\* ... the line and the buffer.
LEMMA TaskReceives ==
  ASSUME Task, rx_frame_semaphore \in {0, 1}
  PROVE  /\ rxne' \in {rxne, FALSE} /\ isr' = isr /\ TasksMayRun
         /\ pc \in {"poll_tx", "start_rx", "wait_rx"} /\ pc' # "send_txto" =>
              UNCHANGED <<de, rxneie>>
         /\ rx_frame_semaphore' =
              IF pc \in {"drain", "wait_rx"} THEN 0 ELSE rx_frame_semaphore
         /\ pc = "wait_rx" /\ rx_frame_semaphore = 1 => sem_result'
         /\ pc # "wait_rx" => sem_result' = sem_result
         /\ rx_len' = IF pc = "read" THEN rx_index ELSE rx_len
         /\ pc = "clear" =>
              rx_index' = 0 /\ ~rx_frame_complete' /\ ~rx_timeout_flag'
         /\ pc' \in Cleared /\ pc # "clear" =>
              /\ rx_index' = rx_index /\ rx_timeout_flag' = rx_timeout_flag
              /\ rx_buffer' = IF pc = "memset" THEN ZeroBuffer ELSE rx_buffer
              /\ pc = "check_frame" => ~rx_frame_complete'
              /\ pc # "check_frame" => rx_frame_complete' = rx_frame_complete
<1> USE DEF Cleared, RxPhase
<1>1. CASE Dequeue \/ Drain \/ ClearFlags \/ ClearBuffer
  BY <1>1 DEF Dequeue, Drain, ClearFlags, ClearBuffer, Step, FlushFlags,
     FlushMemory, task_vars, local_vars, tx_vars, rx_vars, tim_vars
<1>2. CASE ArmTx \/ TransmitMode \/ StartDma
  BY <1>2 DEF ArmTx, TransmitMode, StartDma, HalTransmitDma, Step,
     rs485_set_receive_mode, task_vars, local_vars, rx_vars, tim_vars
<1>3. CASE TxComplete \/ TxTimeout \/ StartRx
  BY <1>3 DEF TxComplete, TxTimeout, StartRx, Move, Step, driver_vars,
     task_vars, local_vars, tx_vars, rx_vars, tim_vars
<1>4. CASE WaitTake \/ WaitTimeout \/ StopRx
  <2>1. CASE WaitTake
    BY <2>1 DEF WaitTake, Step, tx_vars, tim_vars
  <2>2. CASE WaitTimeout
    BY <2>2 DEF WaitTimeout, Step, driver_vars, tx_vars, rx_vars, tim_vars
  <2>3. CASE StopRx
    BY <2>3 DEF StopRx, Step, task_vars, local_vars, tx_vars, rx_vars
  <2>4. QED
    BY <1>4, <2>1, <2>2, <2>3
<1>5. CASE CheckTimeout \/ CheckNoTimeout \/ CheckSpurious \/ CheckFrame
           \/ ReadLen
  BY <1>5 DEF CheckTimeout, CheckNoTimeout, CheckSpurious, CheckFrame, ReadLen,
     Move, Step, driver_vars, task_vars, local_vars, tx_vars, rx_vars, tim_vars
<1>6. CASE CheckLen \/ CheckCrcBad \/ CheckCrcGood \/ CheckUnitBad
           \/ CheckUnitGood \/ BuildResponse
  BY <1>6 DEF CheckLen, CheckCrcBad, CheckCrcGood, CheckUnitBad, CheckUnitGood,
     BuildResponse, RejectFrame, Move, Step, driver_vars, task_vars,
     local_vars, tx_vars, rx_vars, tim_vars
<1>7. CASE SendReject \/ SendFail \/ SendTxTimeout \/ SendOk \/ Guard
  BY <1>7 DEF SendReject, SendFail, SendTxTimeout, SendOk, Guard, Send, Move,
     Step, driver_vars, task_vars, local_vars, tx_vars, rx_vars, tim_vars,
     rs485_set_receive_mode
<1>8. QED
  BY <1>1, <1>2, <1>3, <1>4, <1>5, <1>6, <1>7 DEF Task

-----------------------------------------------------------------------------
(* A request is sent once, and its slave alone hears it.                   *)

NotYetSent == pc \in Setup \/ (pc = "poll_tx" /\ ~tx_done_flag)
Calm == ShortFrames /\ faults = 0

SentOnce ==
  /\ ~rxne /\ ~tx_failed
  /\ gState = "BUSY_TX" => tx_frame = MbapOf(req)
  /\ NotYetSent => /\ \A t \in Tids : t = req.tid => delay[t] = Off
                   /\ \A q \in heard : q.tid # req.tid
  /\ \A q \in heard : q.tid = req.tid => q = MbapOf(req)

LEMMA TaskSendsOnce ==
  ASSUME TypeOK, Numbered, OnTime, SentOnce, TimedTask
  PROVE  SentOnce'
<1>1. Task /\ UNCHANGED <<delay, heard>>
  BY TaskNumbers DEF TimedTask
<1>2. ~rxne' /\ ~tx_failed'
  <2>1. ~rxne'
    BY <1>1, TaskReceives, TypesUsed DEF SentOnce, TypeOK, DriverTypeOK, RxTypeOK
  <2>2. ~tx_failed'
    BY DEF TimedTask, SentOnce
  <2>3. QED
    BY <2>1, <2>2
<1>3. gState' = IF pc = "hal_tx" THEN "BUSY_TX" ELSE gState
  BY <1>1, TaskEffects
<1>4. tx_frame' = IF pc = "hal_tx" /\ gState = "READY"
                  THEN MbapOf(req) ELSE tx_frame
  BY <1>1, TaskNumbers
<1>5. CASE pc = "receive"
  <2>1. req.tid < req'.tid
    <3>1. /\ bridge_request_queue # <<>>
          /\ req' = bridge_request_queue[1]
          /\ 1 \in 1 .. Len(bridge_request_queue)
      BY <1>1, <1>5, TaskRequest, NumberTypes
    <3>2. QED
      BY <3>1 DEF Numbered, QueueNumbered
  <2>2. req'.tid \in Nat /\ req.tid \in Nat
    <3>1. req' \in Request
      BY <1>1, <1>5, TaskRequest, NumberTypes
    <3>2. QED
      BY <3>1, NumberTypes DEF Request
  <2>3. \A q \in heard : q.tid # req'.tid
    BY <2>1, <2>2, NumberTypes DEF Numbered, BusNumbered, Target
  <2>4. \A t \in Tids : t = req'.tid => delay[t] = Off
    BY <2>1, <2>2 DEF Numbered, BusNumbered
  <2>5. gState' # "BUSY_TX"
    BY <1>3, <1>5 DEF OnTime
  <2>6. QED
    BY <1>1, <1>2, <2>3, <2>4, <2>5 DEF SentOnce
<1>6. CASE pc # "receive"
  <2>1. req' = req
    BY <1>1, <1>6, TaskRequest
  <2>2. NotYetSent' => NotYetSent
    <3>1. SUFFICES ASSUME pc \notin Setup PROVE ~NotYetSent' \/ NotYetSent
      BY DEF NotYetSent
    <3>2. pc' \notin Setup /\ pc' # "poll_tx"
      BY <1>1, <1>6, <3>1, TaskPlaces, TaskEffects
      DEF Setup, Examine, SendPlaces
    <3>3. QED
      BY <3>2 DEF NotYetSent
  <2>3. gState' = "BUSY_TX" => tx_frame' = MbapOf(req)
    BY <1>3, <1>4, TypesUsed DEF SentOnce
  <2>4. MbapOf(req)' = MbapOf(req)
    BY <2>1 DEF MbapOf
  <2>5. QED
    BY <1>1, <1>2, <2>1, <2>2, <2>3, <2>4 DEF SentOnce
<1>7. QED
  BY <1>5, <1>6

LEMMA OthersSendOnce ==
  ASSUME TypeOK, ClocksOK, OnTime, SentOnce, faults' = 0, faults = 0,
         \/ UNCHANGED timed_vars
         \/ TimedQueues \/ TimedTimer \/ TimedTxCplt \/ TimedBus \/ TimedError
         \/ Poll \/ Elapse \/ Quiet
  PROVE  SentOnce'
<1>1. ASSUME UNCHANGED <<rxne, gState, tx_frame, req, pc, tx_done_flag, delay,
                         tx_failed>>,
             heard' \subseteq heard
      PROVE  SentOnce'
  <2>1. NotYetSent' = NotYetSent /\ MbapOf(req)' = MbapOf(req)
    BY <1>1 DEF NotYetSent, MbapOf
  <2>2. QED
    BY <1>1, <2>1 DEF SentOnce
<1>2. CASE UNCHANGED timed_vars \/ Poll \/ Elapse \/ Quiet \/ TimedQueues
  BY <1>1, <1>2
  DEF timed_vars, vars, driver_vars, tx_vars, bus_vars, task_vars, local_vars,
      clock_vars, Poll, Elapse, Quiet, TimedQueues, Submit, Collect
<1>3. CASE TimedTimer
  BY <1>1, <1>3
  DEF TimedTimer, TimerUpdate, Tim2IsrEnter, Tim2IsrSignal,
      rs485_tim3_period_elapsed_isr, tx_vars, bus_vars, task_vars, local_vars
<1>4. CASE TimedBus
  <2>1. ~LineNoise
    BY <1>4 DEF LineNoise
  <2>2. QED
    BY <1>1, <1>4, <2>1
    DEF TimedBus, SlaveStartsReply, SlaveChar, SlaveCharDamaged, tx_vars,
        task_vars, local_vars
<1>5. CASE TimedError
  BY <1>5, TypesUsed DEF TimedError, UartError, UartLineError, TxDmaError,
     HAL_UART_ErrorCallback
<1>6. CASE TimedTxCplt
  <2>1. /\ gState = "BUSY_TX" /\ gState' = "READY" /\ ~rxne' /\ tx_done_flag'
        /\ UNCHANGED <<tx_frame, pc, req, tx_failed>>
        /\ heard' \subseteq heard \cup {tx_frame}
    BY <1>6 DEF TimedTxCplt, HAL_UART_TxCpltCallback, task_vars, local_vars
  <2>2. pc = "poll_tx" /\ tx_frame = MbapOf(req)
    BY <2>1 DEF OnTime, SentOnce
  <2>3. ~NotYetSent'
    BY <2>1, <2>2 DEF NotYetSent, Setup
  <2>4. MbapOf(req)' = MbapOf(req)
    BY <2>1 DEF MbapOf
  <2>5. QED
    BY <2>1, <2>2, <2>3, <2>4 DEF SentOnce
<1>7. QED
  BY <1>2, <1>3, <1>4, <1>5, <1>6

LEMMA SentOnceInvariant ==
  TimedSpec => [](TypeOK /\ ClocksOK /\ Numbered /\ AlarmInv
                  /\ (Calm => OnTime /\ SentOnce))
<1> DEFINE I == Calm => OnTime /\ SentOnce
<1>1. TimedInit => AlarmInv /\ I
  <2>1. TimedInit => AlarmInv
    BY DEF TimedInit, Init, DriverInit, AlarmInv, LenInv, OnTime, Setup
  <2>2. TimedInit => SentOnce
    BY DEF TimedInit, Init, DriverInit, SentOnce, NotYetSent, Setup
  <2>3. QED
    BY <2>1, <2>2 DEF AlarmInv, Calm
<1>2. TypeOK /\ ClocksOK /\ Numbered /\ AlarmInv /\ I /\ [TimedNext]_timed_vars
        => AlarmInv' /\ I'
  <2> SUFFICES ASSUME TypeOK, ClocksOK, Numbered, AlarmInv, I,
                      [TimedNext]_timed_vars
               PROVE  AlarmInv' /\ I'
    OBVIOUS
  <2>1. AlarmInv'
    BY NextAlarm
  <2>2. ASSUME ShortFrames, faults' = 0 PROVE SentOnce'
    <3>1. faults = 0
      BY <2>2, FaultsStay
    <3>2. OnTime /\ SentOnce
      BY <2>2, <3>1 DEF Calm
    <3>3. CASE TimedTask
      BY <3>2, <3>3, TaskSendsOnce
    <3>4. CASE ~TimedTask
      BY <2>2, <3>1, <3>2, <3>4, OthersSendOnce DEF TimedNext
    <3>5. QED
      BY <3>3, <3>4
  <2>3. ShortFrames' = ShortFrames
    BY DEF ShortFrames
  <2>4. QED
    BY <2>1, <2>2, <2>3 DEF AlarmInv, Calm
<1>3. QED
  BY <1>1, <1>2, NumberInvariant, TimedTypes, ClocksConsistent, PTL
  DEF TimedSpec

-----------------------------------------------------------------------------
(* Whose turn it is.  The invariant of the orderly behaviours, in four     *)
(* parts: whose characters are on the bus, what has been received, when    *)
(* the timers can run out, and that a prompt reply is on its way to the    *)
(* client.                                                                 *)

ReplyChar(i) == [unit |-> req.unit, tid |-> req.tid, pos |-> i]

\* A slave owes a reply, or is sending it; what is still to come of it, and
\* when its next and its last character will be complete.
Owed == \E t \in Tids : due[t] # Off
Answering == reply # <<>> \/ Owed
ToCome == IF reply # <<>> THEN Len(reply) ELSE IF Owed THEN ReplyLen ELSE 0
First == IF reply # <<>> THEN left["char"] ELSE due[req.tid] + CHAR
CharTime(n) == n * CHAR
SilenceTime(n) == n * SILENCE
Last == First + CharTime(ToCome - 1)
Silence == IF left["silence"] = Off THEN 0 ELSE left["silence"]
Armed == running["silence"]

\* Only the slave of the request in service answers, and only between the end
\* of its transmission and the end of the wait for it.
Whose ==
  /\ Answering => /\ pc \in {"poll_tx", "start_rx", "wait_rx"} /\ tx_done_flag
                  /\ delay[req.tid] # Off
  /\ pc \in {"start_rx", "wait_rx"} \/ (pc = "poll_tx" /\ tx_done_flag) =>
       ~de /\ rxneie
  /\ \A t \in Tids : due[t] # Off => t = req.tid /\ reply = <<>>
  /\ Len(reply) <= ReplyLen
  /\ \A i \in 1 .. Len(reply) : reply[i] = ReplyChar(ReplyLen - Len(reply) + i)

\* The buffer holds what was sent of that reply and nothing else.
Drained == {"clear", "memset", "arm", "tx_mode", "hal_tx", "poll_tx", "start_rx"}
Received ==
  /\ pc \in Cleared =>
       /\ Answering => rx_index = ReplyLen - ToCome
       /\ ~Answering => rx_index \in {0, ReplyLen}
       /\ \A i \in 1 .. rx_index : rx_buffer[i] = ReplyChar(i)
       /\ ~rx_timeout_flag
       /\ NotYetSent => rx_index = 0
       /\ rx_frame_complete =>
            rx_index = ReplyLen /\ ~Answering /\ pc \notin Drained
  /\ pc \in {"crc", "unit", "build"} => rx_len = rx_index
  /\ pc \in {"unit", "build"} => rx_len = ReplyLen
  /\ rx_frame_semaphore = 1 =>
       /\ ~Answering /\ pc \notin Drained
       /\ pc = "wait_rx" => rx_frame_complete

\* While they run, TIM3 has longer to go than the silence after the reply.
TimersInv ==
  /\ running["silence"] = running["timeout"]
  /\ isr = "tim2" => ~Armed
  /\ ~uif["timeout"]
  /\ uif["silence"] /\ pc = "wait_rx" => Armed
  /\ Armed => left["timeout"] > Silence + SilenceTime(ToCome)
  /\ Armed /\ pc = "wait_rx" => left["timeout"] < left["task"]
  /\ pc = "poll_tx" => left["task"] <= TICK

\* TIM2 does not run out before the next character of a prompt reply; it runs
\* out before the first one of a late reply.
PromptTimes ==
  pc = "wait_rx" => Armed /\ ~uif["silence"] /\ First < left["silence"]
TimerGone ==
  CASE pc = "poll_tx" -> SILENCE + left["task"]
    [] pc = "start_rx" -> SILENCE
    [] OTHER -> Silence
LateTimes ==
  pc # "wait_rx" \/ Armed \/ isr = "tim2" => rx_index = 0 /\ First > TimerGone
AnswerTimes ==
  Answering =>
    /\ First >= 0
    /\ IF reply # <<>> THEN left["char"] <= CHAR
                       ELSE due[req.tid] <= delay[req.tid]
    /\ Last <= delay[req.tid] + CharTime(ReplyLen)
    /\ pc = "wait_rx" => Last < left["task"]
    /\ Prompt(delay[req.tid]) => PromptTimes
    /\ Late(delay[req.tid]) => LateTimes

\* A prompt reply that is complete will be noticed, and is not rejected.
Noticed ==
  pc # "receive" /\ delay[req.tid] # Off /\ Prompt(delay[req.tid]) =>
    /\ pc \in {"poll_tx"} \cup RxPhase /\ ~Answering => rx_index = ReplyLen
    /\ pc = "wait_rx" /\ ~Answering =>
         Armed \/ isr = "tim2" \/ rx_frame_complete
    /\ pc \in {"stop_rx", "check", "check_frame"} => rx_frame_complete
    /\ pc \in {"stop_rx", "check"} => sem_result
    /\ pc # "send_fail"

\* A reply on its way to the client is the one to its request.
OwnReply == pc = "send_ok" => resp.body[1].tid = req.tid

TurnInv ==
  Whose /\ Received /\ TimersInv /\ AnswerTimes /\ Noticed /\ OwnReply

\* What TypeOK and ClocksOK say of the variables that these depend on.
LEMMA TurnTypes ==
  ASSUME TypeOK, ClocksOK, Numbered
  PROVE  /\ reply \in Seq(Char) /\ rx_index \in 0 .. RX_BUFFER_SIZE
         /\ rx_buffer \in [1 .. RX_BUFFER_SIZE -> Char]
         /\ rx_frame_semaphore \in {0, 1}
         /\ rx_frame_complete \in BOOLEAN /\ rx_timeout_flag \in BOOLEAN
         /\ running \in [Timers -> BOOLEAN] /\ uif \in [Timers -> BOOLEAN]
         /\ isr \in {"none", "tim2"}
         /\ due \in [Tids -> Nat \cup {Off}]
         /\ delay \in [Tids -> Delays \cup {Off}]
         /\ left \in [Clocks -> Nat \cup {Off}] /\ phase \in 0 .. TICK - 1
         /\ left["char"] # Off <=> reply # <<>>
         /\ \A t \in Timers : left[t] # Off <=> running[t] /\ ~uif[t]
         /\ left["task"] # Off <=> pc \in Waiting
         /\ pc # "receive" => req.tid \in Tids
<1>1. /\ reply \in Seq(Char) /\ rx_index \in 0 .. RX_BUFFER_SIZE
      /\ rx_buffer \in [1 .. RX_BUFFER_SIZE -> Char]
      /\ rx_frame_semaphore \in {0, 1}
      /\ rx_frame_complete \in BOOLEAN /\ rx_timeout_flag \in BOOLEAN
  BY DEF TypeOK, DriverTypeOK, BusTypeOK, RxTypeOK
<1>2. /\ running \in [Timers -> BOOLEAN] /\ uif \in [Timers -> BOOLEAN]
      /\ isr \in {"none", "tim2"}
  BY DEF TypeOK, DriverTypeOK, TimTypeOK
<1>3. /\ due \in [Tids -> Nat \cup {Off}]
      /\ delay \in [Tids -> Delays \cup {Off}]
      /\ left \in [Clocks -> Nat \cup {Off}] /\ phase \in 0 .. TICK - 1
  BY ClocksOKGroups DEF ClockTypes
<1>4. /\ left["char"] # Off <=> reply # <<>>
      /\ \A t \in Timers : left[t] # Off <=> running[t] /\ ~uif[t]
      /\ left["task"] # Off <=> pc \in Waiting
  BY ClocksOKGroups DEF BusClocks, TimerClocks, TaskClocksOK
<1>5. pc # "receive" => req.tid \in Tids
  BY NumberTypes, BridgeAssumption DEF Numbered, QueueNumbered, Tids
<1>6. QED
  BY <1>1, <1>2, <1>3, <1>4, <1>5

\* Times of several characters.
LEMMA CharTimes ==
  /\ \A n \in Nat : CharTime(n) \in Nat /\ SilenceTime(n) \in Nat
  /\ \A n \in Nat : CharTime(n + 1) = CharTime(n) + CHAR
  /\ \A n \in Nat : SilenceTime(n + 1) = SilenceTime(n) + SILENCE
  /\ \A n \in Nat : CharTime(n) <= SilenceTime(n)
  /\ CharTime(0) = 0 /\ SilenceTime(0) = 0
  /\ \A n, m \in Nat : n <= m => SilenceTime(n) <= SilenceTime(m)
<1>1. CHAR \in Nat /\ SILENCE \in Nat /\ CHAR <= SILENCE
  BY TimingAssumption, TimingOrder
<1>2. \A n, c \in Nat : n * c \in Nat /\ (n + 1) * c = n * c + c /\ 0 * c = 0
  OBVIOUS
<1>3. \A n, c, d \in Nat : c <= d => n * c <= n * d
  OBVIOUS
<1>4. \A n, m, c \in Nat : n <= m => n * c <= m * c
  OBVIOUS
<1>5. QED
  BY <1>1, <1>2, <1>3, <1>4 DEF CharTime, SilenceTime

\* With a reply to come, its length and its times are numbers.
LEMMA AnswerTypes ==
  ASSUME TypeOK, ClocksOK, Numbered, Whose
  PROVE  /\ ToCome \in 0 .. ReplyLen
         /\ Silence \in Nat
         /\ SilenceTime(ToCome) \in Nat
         /\ ~Answering => ToCome = 0 /\ reply = <<>>
         /\ Answering =>
              /\ ToCome \in 1 .. ReplyLen
              /\ req.tid \in Tids
              /\ First \in Nat /\ CharTime(ToCome - 1) \in Nat
              /\ Last \in Nat /\ First <= Last
              /\ delay[req.tid] \in Nat
              /\ reply = <<>> => due[req.tid] \in Nat
<1>1. ReplyLen \in Nat /\ ReplyLen >= 4
  BY DriverAssumption
<1>2. ToCome \in 0 .. ReplyLen /\ (Answering => ToCome \in 1 .. ReplyLen)
  <2>1. Len(reply) \in 0 .. ReplyLen /\ (reply # <<>> => Len(reply) # 0)
    BY <1>1, TurnTypes DEF Whose
  <2>2. QED
    BY <1>1, <2>1 DEF ToCome, Answering
<1>3. Silence \in Nat
  BY TurnTypes DEF Silence, Clocks
<1>4. ~Answering => ToCome = 0 /\ reply = <<>>
  BY DEF Answering, ToCome
<1>5. ASSUME Answering
      PROVE  /\ req.tid \in Tids /\ First \in Nat
             /\ delay[req.tid] \in Nat
             /\ reply = <<>> => due[req.tid] \in Nat
  <2>1. req.tid \in Tids
    BY <1>5, TurnTypes DEF Whose
  <2>2. delay[req.tid] \in Nat
    <3>1. delay[req.tid] \in Delays \cup {Off} /\ delay[req.tid] # Off
      BY <1>5, <2>1, TurnTypes DEF Whose
    <3>2. QED
      BY <3>1, TimingAssumption
  <2>3. reply = <<>> => due[req.tid] \in Nat
    BY <1>5, <2>1, TurnTypes DEF Whose, Answering, Owed
  <2>4. First \in Nat
    BY <2>3, TurnTypes, TimingAssumption DEF First, Clocks
  <2>5. QED
    BY <2>1, <2>2, <2>3, <2>4
<1>6. ASSUME Answering PROVE CharTime(ToCome - 1) \in Nat
  <2>1. ToCome - 1 \in Nat
    BY <1>1, <1>2, <1>6
  <2>2. QED
    BY <2>1, CharTimes
<1>7. Answering => Last \in Nat /\ First <= Last
  BY <1>5, <1>6 DEF Last
<1>8. SilenceTime(ToCome) \in Nat
  BY <1>1, <1>2, CharTimes
<1>9. QED
  BY <1>2, <1>3, <1>4, <1>5, <1>6, <1>7, <1>8

\* What is to come stays the same when nothing happens on the bus.
LEMMA BusSame ==
  ASSUME UNCHANGED <<reply, due>>
  PROVE  /\ Owed' = Owed /\ Answering' = Answering /\ ToCome' = ToCome
         /\ req' = req /\ left'["char"] = left["char"] =>
              First' = First /\ Last' = Last
<1>1. Owed' = Owed
  BY DEF Owed
<1>2. Answering' = Answering /\ ToCome' = ToCome
  BY <1>1 DEF Answering, ToCome
<1>3. req' = req /\ left'["char"] = left["char"] => First' = First
  BY DEF First
<1>4. QED
  BY <1>1, <1>2, <1>3 DEF Last

\* A step that leaves the bus, the receiver, the timers and the task's place
\* alone.
TurnVars == <<pc, req, reply, due, delay, tx_done_flag, de, rxneie, rx_index,
              rx_buffer, rx_timeout_flag, rx_frame_complete,
              rx_frame_semaphore, rx_len, sem_result, resp, running, uif, isr>>
LEMMA TurnFrame ==
  ASSUME TurnInv, UNCHANGED TurnVars,
         \A c \in {"silence", "timeout", "char"} : left'[c] = left[c],
         left'["task"] = left["task"] \/ (pc = "poll_tx" /\ ~Answering
                                          /\ left'["task"] <= TICK)
  PROVE  TurnInv'
<1> USE DEF TurnVars
<1>1. /\ Owed' = Owed /\ Answering' = Answering /\ ToCome' = ToCome
      /\ First' = First /\ Last' = Last
  BY BusSame
<1>2. /\ Silence' = Silence /\ Armed' = Armed /\ NotYetSent' = NotYetSent
      /\ \A i : ReplyChar(i)' = ReplyChar(i)
  BY DEF Silence, Armed, NotYetSent, ReplyChar
<1>3. Whose'
  BY <1>1, <1>2 DEF TurnInv, Whose, ReplyChar
<1>4. Received'
  BY <1>1, <1>2 DEF TurnInv, Received
<1>5. TimersInv'
  BY <1>1, <1>2 DEF TurnInv, TimersInv
<1>6. AnswerTimes'
  BY <1>1, <1>2
  DEF TurnInv, AnswerTimes, PromptTimes, LateTimes, TimerGone, Prompt, Late
<1>7. Noticed' /\ OwnReply'
  BY <1>1, <1>2 DEF TurnInv, Noticed, OwnReply, Prompt
<1>8. QED
  BY <1>3, <1>4, <1>5, <1>6, <1>7 DEF TurnInv

-----------------------------------------------------------------------------
(* The task.                                                               *)

\* What is known of a state in which the next step is taken.
Known ==
  /\ TypeOK /\ ClocksOK /\ Numbered /\ OnTime /\ SentOnce /\ TurnInv
  /\ TimersOnlyInWindow /\ NoLostWakeup /\ AnswerInv

\* The task does not leave the wait before the reply is complete.
LEMMA WaitOutlastsReply ==
  ASSUME Known, TimedTask, pc = "wait_rx"
  PROVE  /\ ~Answering
         /\ delay[req.tid] # Off /\ Prompt(delay[req.tid]) =>
              rx_frame_complete /\ rx_frame_semaphore = 1
<1> USE DEF Known
<1>1. TasksMayRun /\ (left["task"] = 0 \/ rx_frame_semaphore = 1)
  BY TaskReceives, TurnTypes DEF TimedTask, Ready, SendPlaces
<1>2. ~Answering
  <2>1. rx_frame_semaphore = 1 => ~Answering
    BY DEF TurnInv, Received
  <2>2. Answering => Last < left["task"] /\ Last \in Nat
    BY AnswerTypes DEF TurnInv, AnswerTimes
  <2>3. QED
    BY <1>1, <2>1, <2>2
<1>3. ASSUME delay[req.tid] # Off, Prompt(delay[req.tid])
      PROVE  rx_frame_complete /\ rx_frame_semaphore = 1
  <2>1. rx_frame_semaphore = 1 => rx_frame_complete
    BY DEF TurnInv, Received
  <2>2. rx_frame_complete => rx_frame_semaphore = 1
    BY DEF NoLostWakeup
  <2>3. Armed \/ isr = "tim2" \/ rx_frame_complete
    BY <1>2, <1>3 DEF TurnInv, Noticed
  <2>4. Armed => left["task"] # 0
    <3>1. Armed => left["timeout"] > Silence + SilenceTime(ToCome)
                   /\ left["timeout"] < left["task"]
      BY DEF TurnInv, TimersInv
    <3>2. Silence \in Nat /\ SilenceTime(ToCome) \in Nat
      BY AnswerTypes DEF TurnInv
    <3>3. left["timeout"] \in Nat \cup {Off} /\ left["task"] \in Nat \cup {Off}
      BY TurnTypes DEF Clocks
    <3>4. QED
      BY <3>1, <3>2, <3>3
  <2>5. isr = "none"
    BY <1>1 DEF TasksMayRun
  <2>6. QED
    BY <1>1, <2>1, <2>2, <2>3, <2>4, <2>5
<1>4. QED
  BY <1>2, <1>3

\* What a timed step of the task does to the clocks used here.
LEMMA TaskLeft ==
  ASSUME TypeOK, ClocksOK, Numbered, TimedTask
  PROVE  /\ Task /\ UNCHANGED <<due, delay, reply>>
         /\ left'["char"] = left["char"] /\ left'["task"] = WaitAt(pc')
         /\ \A t \in Timers :
              left'[t] = IF pc = "start_rx" THEN Period(t)
                         ELSE IF pc = "stop_rx" THEN Off ELSE left[t]
BY TaskEffects DEF TimedTask, TaskClocks, Clocks, Timers

\* Where no reply is to come, the places follow one another as they should.
LEMMA QuietReceived ==
  ASSUME Known, TimedTask, ~Answering, pc \notin {"poll_tx", "start_rx"}
  PROVE  Received'
<1> USE DEF Known
<1>1. /\ Task /\ UNCHANGED <<due, delay, reply>> /\ Answering' = Answering
      /\ rx_frame_semaphore \in {0, 1}
  BY TaskLeft, BusSame, TurnTypes
<1>2. ASSUME pc' \in Cleared
      PROVE  /\ pc = "clear" \/ pc \in Cleared
             /\ req' = req /\ \A i : ReplyChar(i)' = ReplyChar(i)
             /\ NotYetSent' => pc \in {"clear"} \cup Drained /\ NotYetSent
             /\ pc' \in Drained => pc \in Drained
  <2>1. pc # "receive" /\ (pc = "clear" \/ pc \in Cleared)
    BY <1>1, <1>2, TaskPlaces, TaskRoute, TaskRequest, TaskEffects
    DEF Cleared, RxPhase, Setup, Examine, SendPlaces
  <2>2. req' = req /\ \A i : ReplyChar(i)' = ReplyChar(i)
    BY <1>1, <2>1, TaskRequest DEF ReplyChar
  <2>3. pc' \in Drained => pc \in Drained
    BY <1>1, <1>2, <2>1, TaskPlaces DEF Drained, Cleared, RxPhase, Setup, Examine,
       SendPlaces
  <2>4. NotYetSent' => pc \in {"clear"} \cup Drained /\ NotYetSent
    BY <1>1, <1>2, <2>1, TaskPlaces
    DEF NotYetSent, Drained, Cleared, RxPhase, Setup, Examine, SendPlaces
  <2>5. QED
    BY <2>1, <2>2, <2>3, <2>4
<1>3. ASSUME pc' \in Cleared
      PROVE  /\ rx_index' \in {0, ReplyLen}
             /\ \A i \in 1 .. rx_index' : rx_buffer'[i] = ReplyChar(i)
             /\ ~rx_timeout_flag'
             /\ NotYetSent' => rx_index' = 0
             /\ rx_frame_complete' => rx_index' = ReplyLen /\ pc' \notin Drained
  <2>1. CASE pc = "clear"
    <3>1. rx_index' = 0 /\ ~rx_frame_complete' /\ ~rx_timeout_flag'
      BY <1>1, <2>1, TaskReceives
    <3>2. QED
      BY <3>1
  <2>2. CASE pc = "memset"
    <3>1. rx_index' = 0 /\ ~rx_timeout_flag' /\ ~rx_frame_complete'
      <4>1. /\ pc \in Cleared /\ NotYetSent /\ pc \in Drained
        BY <2>2 DEF Cleared, NotYetSent, Setup, Drained
      <4>2. rx_index = 0 /\ ~rx_timeout_flag /\ ~rx_frame_complete
        BY <4>1 DEF TurnInv, Received
      <4>3. /\ rx_index' = rx_index /\ rx_timeout_flag' = rx_timeout_flag
            /\ rx_frame_complete' = rx_frame_complete
        BY <1>1, <1>3, <2>2, TaskReceives
      <4>4. QED
        BY <4>2, <4>3
    <3>2. QED
      BY <3>1
  <2>3. CASE pc \notin {"clear", "memset"}
    <3>1. /\ rx_index' = rx_index /\ rx_timeout_flag' = rx_timeout_flag
          /\ rx_buffer' = rx_buffer
          /\ ~rx_frame_complete' \/ rx_frame_complete' = rx_frame_complete
      <4>1. pc' \in Cleared /\ pc # "clear"
        BY <1>3, <2>3
      <4>2. /\ pc = "check_frame" => ~rx_frame_complete'
            /\ pc # "check_frame" => rx_frame_complete' = rx_frame_complete
        BY <1>1, <4>1, TaskReceives
      <4>3. /\ rx_index' = rx_index /\ rx_timeout_flag' = rx_timeout_flag
            /\ rx_buffer' = rx_buffer
        BY <1>1, <2>3, <4>1, TaskReceives
      <4>4. QED
        BY <4>2, <4>3
    <3>2. pc \in Cleared
      BY <1>2, <1>3, <2>3
    <3>3. QED
      BY <1>2, <1>3, <3>1, <3>2 DEF TurnInv, Received
  <2>4. QED
    BY <2>1, <2>2, <2>3
<1>4. /\ pc' \in {"crc", "unit", "build"} => rx_len' = rx_index'
      /\ pc' \in {"unit", "build"} => rx_len' = ReplyLen
  <2>1. SUFFICES ASSUME pc' \in {"crc", "unit", "build"}
                 PROVE  /\ rx_len' = rx_index'
                        /\ pc' # "crc" => rx_len' = ReplyLen
    OBVIOUS
  <2>2. pc' \in Cleared /\ pc \in {"read", "crc", "unit"}
    BY <1>1, <2>1, TaskRoute DEF Cleared, RxPhase
  <2>3. rx_index' = rx_index
    BY <1>1, <2>2, TaskReceives
  <2>4. CASE pc = "read"
    BY <1>1, <2>1, <2>3, <2>4, TaskReceives, TaskRoute
  <2>5. CASE pc \in {"crc", "unit"}
    <3>1. rx_len' = rx_len /\ rx_len = rx_index
      BY <1>1, <2>5, TaskReceives DEF TurnInv, Received
    <3>2. pc = "crc" => rx_len = ReplyLen
      BY <1>1, <2>1, <2>5, TaskRoute DEF CrcOk
    <3>3. pc = "unit" => rx_len = ReplyLen
      BY DEF TurnInv, Received
    <3>4. QED
      BY <2>3, <2>5, <3>1, <3>2, <3>3
  <2>6. QED
    BY <2>2, <2>4, <2>5
<1>5. rx_frame_semaphore' = 1 =>
        pc' \notin Drained /\ (pc' = "wait_rx" => rx_frame_complete')
  <2>1. SUFFICES ASSUME rx_frame_semaphore' = 1
                 PROVE  pc' \notin Drained /\ pc' # "wait_rx"
    OBVIOUS
  <2>2. /\ pc \notin {"drain", "wait_rx"} /\ rx_frame_semaphore = 1
    <3>1. rx_frame_semaphore' = IF pc \in {"drain", "wait_rx"}
                                THEN 0 ELSE rx_frame_semaphore
      BY <1>1, TaskReceives
    <3>2. QED
      BY <2>1, <3>1
  <2>3. pc \notin Drained
    BY <2>2 DEF TurnInv, Received
  <2>4. QED
    BY <1>1, <2>2, <2>3, TaskPlaces, TaskRoute
    DEF Drained, Setup, Examine, SendPlaces
<1>6. QED
  BY <1>1, <1>2, <1>3, <1>4, <1>5 DEF Received

\* A prompt reply passes the checks of STEPs 5 to 7.
LEMMA GoodReplyPasses ==
  ASSUME Known, Task, pc \in RxPhase, ~Answering, pc' = "send_fail",
         Prompt(delay[req.tid]), delay[req.tid] # Off
  PROVE  FALSE
<1> USE DEF Known
<1>1. \/ pc = "check" /\ (~sem_result \/ rx_timeout_flag)
      \/ pc = "crc" /\ (rx_len < 4 \/ ~CrcOk(rx_buffer, rx_len))
      \/ pc = "unit" /\ rx_buffer[1].unit # req.unit
  BY TaskRoute
<1>2. pc \in Cleared /\ pc # "receive"
  BY DEF Cleared, RxPhase
<1>3. rx_index = ReplyLen
  BY <1>2 DEF TurnInv, Noticed
<1>4. \A i \in 1 .. ReplyLen : rx_buffer[i] = ReplyChar(i)
  BY <1>2, <1>3 DEF TurnInv, Received
<1>5. ReplyLen \in Nat /\ ReplyLen >= 4
  BY DriverAssumption
<1>6. rx_buffer[1].unit = req.unit /\ rx_buffer[1].tid = req.tid
  <2>1. rx_buffer[1] = ReplyChar(1)
    BY <1>4, <1>5
  <2>2. QED
    BY <2>1 DEF ReplyChar
<1>7. CASE pc = "check"
  BY <1>1, <1>2, <1>7 DEF TurnInv, Noticed, Received
<1>8. CASE pc = "crc"
  <2>1. rx_len = ReplyLen
    BY <1>3, <1>8 DEF TurnInv, Received
  <2>2. req.unit # 0
    BY <1>8 DEF AnswerInv, OnBus, RxPhase
  <2>3. CrcOk(rx_buffer, rx_len)
    BY <1>4, <1>6, <2>1, <2>2 DEF CrcOk, ReplyChar
  <2>4. QED
    BY <1>1, <1>5, <1>8, <2>1, <2>3
<1>9. CASE pc = "unit"
  BY <1>1, <1>6, <1>9
<1>10. QED
  BY <1>1, <1>7, <1>8, <1>9

\* A prompt reply that is complete stays so until the response is built.
LEMMA QuietNoticed ==
  ASSUME Known, TimedTask, ~Answering, ~Answering',
         pc \notin {"poll_tx", "start_rx"}
  PROVE  Noticed'
<1> USE DEF Known
<1>1. Task /\ delay' = delay /\ rx_frame_semaphore \in {0, 1}
  BY TaskLeft, TurnTypes
<1> SUFFICES ASSUME pc' # "receive", delay[req'.tid] # Off,
                    Prompt(delay[req'.tid])
             PROVE  /\ pc' \in {"poll_tx"} \cup RxPhase => rx_index' = ReplyLen
                    /\ pc' # "wait_rx"
                    /\ pc' \in {"stop_rx", "check", "check_frame"} =>
                         rx_frame_complete'
                    /\ pc' \in {"stop_rx", "check"} => sem_result'
                    /\ pc' # "send_fail"
  BY <1>1 DEF Noticed, Prompt
<1>2. CASE pc = "receive"
  BY <1>1, <1>2, TaskPlaces DEF RxPhase, Setup, Examine, SendPlaces
<1>3. CASE pc # "receive"
  <2>1. req' = req
    BY <1>1, <1>3, TaskRequest
  <2>2. pc' \notin {"start_rx", "wait_rx"} /\ pc' # "poll_tx"
    <3>1. pc' \notin {"start_rx", "wait_rx"}
      BY <1>1, TaskPlaces DEF Setup, Examine, SendPlaces
    <3>2. pc # "hal_tx"
      <4>1. pc # "hal_tx" \/ (NotYetSent /\ req.tid \in Tids)
        BY TurnTypes DEF NotYetSent, Setup
      <4>2. QED
        BY <2>1, <4>1 DEF SentOnce
    <3>3. QED
      BY <1>1, <3>1, <3>2, TaskEffects
  <2>3. pc' \in RxPhase => pc \in RxPhase /\ pc' \in Cleared /\ pc # "clear"
    BY <1>1, <2>2, TaskPlaces
    DEF RxPhase, Cleared, Setup, Examine, SendPlaces
  <2>4. pc' \in RxPhase => rx_index' = ReplyLen
    <3>1. pc \in RxPhase => rx_index = ReplyLen
      BY <1>3, <2>1 DEF TurnInv, Noticed
    <3>2. pc' \in RxPhase => rx_index' = rx_index
      BY <1>1, <2>3, TaskReceives
    <3>3. QED
      BY <2>3, <3>1, <3>2
  <2>5. pc' \in {"stop_rx", "check", "check_frame"} =>
          /\ pc \in {"wait_rx", "stop_rx", "check"} /\ rx_frame_complete
          /\ rx_frame_complete' = rx_frame_complete
    <3>1. pc' \in {"stop_rx", "check", "check_frame"} =>
            pc \in {"wait_rx", "stop_rx", "check"}
      BY <1>1, TaskRoute
    <3>2. pc = "wait_rx" => rx_frame_complete
      BY <2>1, WaitOutlastsReply
    <3>3. pc \in {"stop_rx", "check"} => rx_frame_complete
      BY <1>3, <2>1 DEF TurnInv, Noticed
    <3>4. pc' \in {"stop_rx", "check", "check_frame"} =>
            rx_frame_complete' = rx_frame_complete
      <4>1. pc' \in {"stop_rx", "check", "check_frame"} =>
              pc' \in Cleared /\ pc # "clear" /\ pc # "check_frame"
        BY <3>1 DEF Cleared, RxPhase
      <4>2. QED
        BY <1>1, <4>1, TaskReceives
    <3>5. QED
      BY <3>1, <3>2, <3>3, <3>4
  <2>6. pc' \in {"stop_rx", "check"} => sem_result'
    <3>1. CASE pc = "wait_rx"
      <4>1. rx_frame_semaphore = 1
        BY <2>1, <3>1, WaitOutlastsReply
      <4>2. QED
        BY <1>1, <3>1, <4>1, TaskReceives
    <3>2. CASE pc # "wait_rx"
      <4>1. pc' \in {"stop_rx", "check"} => pc = "stop_rx"
        BY <1>1, <3>2, TaskRoute
      <4>2. pc = "stop_rx" => sem_result
        BY <1>3, <2>1 DEF TurnInv, Noticed
      <4>3. sem_result' = sem_result
        BY <1>1, <3>2, TaskReceives
      <4>4. QED
        BY <4>1, <4>2, <4>3
    <3>3. QED
      BY <3>1, <3>2
  <2>7. pc' # "send_fail"
    <3>1. pc' = "send_fail" => pc \in RxPhase
      BY <1>1, TaskRoute DEF RxPhase
    <3>2. QED
      BY <1>1, <2>1, <3>1, GoodReplyPasses
  <2>8. QED
    BY <2>2, <2>4, <2>5, <2>6, <2>7
<1>4. QED
  BY <1>2, <1>3

\* The response is built from a reply to this very request.
LEMMA BuildsOwnReply ==
  ASSUME Known, TimedTask
  PROVE  OwnReply'
<1> USE DEF Known
<1> SUFFICES ASSUME pc' = "send_ok" PROVE resp'.body[1].tid = req'.tid
  BY DEF OwnReply
<1>1. Task /\ pc = "build" /\ resp' = DataResponse
  BY TaskLeft, TaskRoute
<1>2. req' = req
  BY <1>1, TaskRequest
<1>3. ReplyLen \in Nat /\ ReplyLen >= 4
  BY DriverAssumption
<1>4. /\ rx_len = ReplyLen /\ rx_index = ReplyLen
      /\ \A i \in 1 .. rx_index : rx_buffer[i] = ReplyChar(i)
  BY <1>1 DEF TurnInv, Received, Cleared, RxPhase
<1>5. rx_buffer[1] = ReplyChar(1) /\ 1 \in 1 .. rx_len
  BY <1>3, <1>4
<1>6. resp'.body = [i \in 1 .. rx_len |-> rx_buffer[i]]
  <2>1. resp \in Response
    BY DEF TypeOK, LocalTypeOK
  <2>2. QED
    BY <1>1, <2>1 DEF DataResponse, Response
<1>7. QED
  BY <1>2, <1>5, <1>6 DEF ReplyChar

\* The steps of the task that neither end the polling nor start the timers.
LEMMA QuietTurn ==
  ASSUME Known, OnTime', TimedTask, pc \notin {"poll_tx", "start_rx"}
  PROVE  TurnInv'
<1> USE DEF Known
<1>1. ~Answering
  <2>1. pc = "wait_rx" => ~Answering
    BY WaitOutlastsReply
  <2>2. QED
    BY <2>1 DEF TurnInv, Whose
<1>2. /\ Task /\ UNCHANGED <<due, delay, reply>>
      /\ left'["task"] = WaitAt(pc')
      /\ \A t \in Timers :
           left'[t] = IF pc = "stop_rx" THEN Off ELSE left[t]
  BY TaskLeft
<1>3. Answering' = Answering /\ ToCome' = ToCome
  BY <1>2, BusSame
<1>4. /\ pc' \notin {"start_rx", "wait_rx"}
      /\ pc' = "poll_tx" => ~tx_done_flag'
  <2>1. pc' \notin {"start_rx", "wait_rx"}
    BY <1>2, TaskPlaces DEF Setup, Examine, SendPlaces
  <2>2. pc' = "poll_tx" => ~tx_done_flag'
    BY <1>2, TaskEffects, TaskRequest DEF OnTime
  <2>3. QED
    BY <2>1, <2>2
<1>5. Whose'
  <2>1. reply' = <<>> /\ \A t \in Tids : due'[t] = Off
    BY <1>1, <1>2 DEF Answering, Owed
  <2>2. Len(reply') = 0
    BY <2>1
  <2>3. QED
    BY <1>1, <1>3, <1>4, <2>1, <2>2, DriverAssumption DEF Whose
<1>6. TimersInv'
  <2>1. isr = "none" /\ isr' = "none" /\ \A t \in Timers : ~uif[t]
    BY <1>2, TaskReceives, TurnTypes DEF TasksMayRun
  <2>2. uif' = uif
    BY <1>2, TaskEffects
  <2>3. \A t \in Timers : running'[t] => running[t] /\ pc = "wait_rx"
    <3>1. CASE pc = "stop_rx"
      BY <1>2, <3>1, TaskEffects
    <3>2. CASE pc # "stop_rx"
      BY <1>2, <3>2, TaskEffects DEF TimersOnlyInWindow
    <3>3. QED
      BY <3>1, <3>2
  <2>4. running'["silence"] = running'["timeout"]
    BY <1>2, TaskEffects DEF TurnInv, TimersInv, Timers
  <2>5. Armed' => left'["timeout"] > Silence' + SilenceTime(ToCome)'
    <3>1. Armed' => Armed /\ pc = "wait_rx"
      BY <2>3 DEF Armed, Timers
    <3>2. pc = "wait_rx" => left'["timeout"] = left["timeout"]
                            /\ left'["silence"] = left["silence"]
      BY <1>2 DEF Timers
    <3>3. pc = "wait_rx" => Silence' = Silence
      BY <3>2 DEF Silence
    <3>4. QED
      BY <1>3, <3>1, <3>2, <3>3 DEF TurnInv, TimersInv, SilenceTime
  <2>6. pc' = "poll_tx" => left'["task"] <= TICK
    BY <1>2, TimingAssumption DEF WaitAt, SendPlaces
  <2>7. QED
    BY <1>4, <2>1, <2>2, <2>4, <2>5, <2>6 DEF TimersInv, Timers
<1>7. AnswerTimes'
  BY <1>1, <1>3 DEF AnswerTimes
<1>8. QED
  BY <1>1, <1>3, <1>5, <1>6, <1>7, QuietReceived, QuietNoticed, BuildsOwnReply
  DEF TurnInv

\* The polling loop ends with the frame.
LEMMA PollTurn ==
  ASSUME Known, OnTime', TimedTask, pc = "poll_tx"
  PROVE  TurnInv'
<1> USE DEF Known
<1>1. /\ Task /\ UNCHANGED <<due, delay, reply>>
      /\ \A t \in Timers : left'[t] = left[t]
      /\ left'["char"] = left["char"]
  BY TaskLeft
<1>2. pc' = "start_rx" /\ tx_done_flag
  <2>1. ~tx_failed'
    BY DEF TimedTask, SentOnce
  <2>2. QED
    BY <1>1, <2>1, TaskPlaces DEF OnTime, Setup, Examine, SendPlaces
<1>3. UNCHANGED <<driver_vars, task_vars>>
  BY <1>1, <1>2 DEF Task, Dequeue, Drain, ClearFlags, ClearBuffer, ArmTx,
     TransmitMode, StartDma, TxComplete, TxTimeout, StartRx, WaitTake,
     WaitTimeout, StopRx, CheckTimeout, CheckNoTimeout, CheckSpurious,
     CheckFrame, ReadLen, CheckLen, CheckCrcBad, CheckCrcGood, CheckUnitBad,
     CheckUnitGood, BuildResponse, SendReject, SendFail, SendTxTimeout,
     SendOk, Send, Guard, Move, Step
<1>4. /\ UNCHANGED <<req, tx_done_flag, de, rxneie, rx_index, rx_buffer,
                     rx_timeout_flag, rx_frame_complete, rx_frame_semaphore>>
      /\ UNCHANGED <<running, uif, isr>>
  BY <1>3 DEF driver_vars, tx_vars, rx_vars, tim_vars, task_vars, local_vars
<1>5. /\ Owed' = Owed /\ Answering' = Answering /\ ToCome' = ToCome
      /\ First' = First /\ Last' = Last /\ \A i : ReplyChar(i)' = ReplyChar(i)
  BY <1>1, <1>4, BusSame DEF ReplyChar
<1>6. Whose'
  <2>1. ~de /\ rxneie
    BY <1>2 DEF TurnInv, Whose
  <2>2. QED
    BY <1>1, <1>2, <1>4, <1>5, <2>1 DEF TurnInv, Whose, ReplyChar
<1>7. Received'
  BY <1>2, <1>4, <1>5
  DEF TurnInv, Received, Cleared, RxPhase, Drained, NotYetSent, Setup
<1>8. TimersInv'
  <2>1. /\ ~running'["silence"] /\ ~running'["timeout"]
        /\ ~uif'["silence"] /\ ~uif'["timeout"] /\ isr' = "none"
    BY <1>4 DEF TimersOnlyInWindow, Timers
  <2>2. running'["silence"] = running'["timeout"]
    BY <1>4, <2>1, TurnTypes DEF Timers
  <2>3. QED
    BY <1>2, <2>1, <2>2 DEF TimersInv, Armed
<1>9. AnswerTimes'
  <2> SUFFICES ASSUME Answering PROVE AnswerTimes'
    BY <1>5 DEF AnswerTimes
  <2>1. left["task"] \in Nat
    BY TurnTypes DEF Clocks, Waiting
  <2>2. LateTimes => LateTimes'
    <3>1. LateTimes => rx_index = 0 /\ First > SILENCE + left["task"]
      BY DEF LateTimes, TimerGone
    <3>2. TimerGone' = SILENCE
      BY <1>2 DEF TimerGone
    <3>3. First \in Nat /\ SILENCE \in Nat
      BY AnswerTypes, TimingAssumption DEF TurnInv
    <3>4. First' > SILENCE \/ ~(First > SILENCE + left["task"])
      <4>1. First' = First
        BY <1>5
      <4>2. QED
        BY <2>1, <3>3, <4>1
    <3>5. QED
      BY <1>4, <1>5, <3>1, <3>2, <3>4 DEF LateTimes
  <2>3. PromptTimes'
    BY <1>2 DEF PromptTimes
  <2>4. QED
    BY <1>1, <1>2, <1>4, <1>5, <2>2, <2>3
    DEF TurnInv, AnswerTimes, Prompt, Late
<1>10. Noticed'
  BY <1>1, <1>2, <1>4, <1>5 DEF TurnInv, Noticed, Prompt, RxPhase
<1>11. OwnReply'
  BY <1>2 DEF OwnReply
<1>12. QED
  BY <1>6, <1>7, <1>8, <1>9, <1>10, <1>11 DEF TurnInv

\* The timers start: before the first character of a prompt reply, and TIM2
\* runs out before that of a late one.
LEMMA StartTurn ==
  ASSUME Known, Orderly, TimedTask, pc = "start_rx"
  PROVE  TurnInv'
<1> USE DEF Known
<1>1. /\ Task /\ UNCHANGED <<due, delay, reply>>
      /\ left'["silence"] = SILENCE /\ left'["timeout"] = RESPONSE_TIMEOUT
      /\ left'["char"] = left["char"] /\ left'["task"] = WaitAt(pc')
  BY TaskLeft DEF Period, Timers
<1>2. pc' = "wait_rx"
  BY <1>1, TaskPlaces DEF Setup, Examine, SendPlaces
<1>3. StartRx
  BY <1>1, <1>2 DEF Task, Dequeue, Drain, ClearFlags, ClearBuffer, ArmTx,
     TransmitMode, StartDma, TxComplete, TxTimeout, StartRx, WaitTake,
     WaitTimeout, StopRx, CheckTimeout, CheckNoTimeout, CheckSpurious,
     CheckFrame, ReadLen, CheckLen, CheckCrcBad, CheckCrcGood, CheckUnitBad,
     CheckUnitGood, BuildResponse, SendReject, SendFail, SendTxTimeout,
     SendOk, Send, Guard, Move, Step
<1>4. /\ UNCHANGED <<req, tx_done_flag, de, rxneie, rx_index, rx_buffer,
                     rx_timeout_flag, rx_frame_complete, rx_frame_semaphore>>
      /\ isr = "none" /\ isr' = "none"
      /\ \A t \in Timers : running'[t] /\ ~uif'[t]
      /\ running'["silence"] = running'["timeout"]
  BY <1>3 DEF StartRx, Step, TasksMayRun, rs485_start_rx_timeout, tx_vars,
     rx_vars, task_vars, local_vars, Timers
<1>5. /\ Owed' = Owed /\ Answering' = Answering /\ ToCome' = ToCome
      /\ First' = First /\ Last' = Last /\ \A i : ReplyChar(i)' = ReplyChar(i)
  BY <1>1, <1>4, BusSame DEF ReplyChar
<1>6. left'["task"] = RX_WAIT - phase
  BY <1>1, <1>2 DEF WaitAt, SendPlaces, Ticks
<1>7. /\ phase \in 0 .. TICK - 1 /\ TICK \in Nat /\ RX_WAIT \in Nat
      /\ SILENCE \in Nat /\ CHAR \in Nat /\ CHAR < SILENCE
      /\ RESPONSE_TIMEOUT \in Nat /\ RESPONSE_TIMEOUT + TICK <= RX_WAIT
  BY TurnTypes, TimingAssumption, TimingOrder
<1>8. /\ SilenceTime(ReplyLen) \in Nat /\ CharTime(ReplyLen) \in Nat
      /\ CharTime(ReplyLen) <= SilenceTime(ReplyLen)
      /\ SILENCE + SilenceTime(ReplyLen) < RESPONSE_TIMEOUT
  <2>1. ReplyLen \in Nat
    BY DriverAssumption
  <2>2. SilenceTime(ReplyLen + 1) < RESPONSE_TIMEOUT
    BY TimingOrder DEF SilenceTime
  <2>3. SilenceTime(ReplyLen + 1) = SilenceTime(ReplyLen) + SILENCE
    BY <2>1, CharTimes
  <2>4. QED
    BY <1>7, <2>1, <2>2, <2>3, CharTimes
<1>9. Whose'
  <2>1. ~de /\ rxneie
    BY DEF TurnInv, Whose
  <2>2. QED
    BY <1>1, <1>2, <1>4, <1>5, <2>1 DEF TurnInv, Whose, ReplyChar
<1>10. Received'
  <2>1. rx_frame_semaphore # 1
    BY DEF TurnInv, Received, Drained
  <2>2. QED
    BY <1>2, <1>4, <1>5, <2>1
    DEF TurnInv, Received, Cleared, RxPhase, Drained, NotYetSent, Setup
<1>11. TimersInv'
  <2>1. Silence' = SILENCE
    BY <1>1, <1>7 DEF Silence
  <2>2. SilenceTime(ToCome') <= SilenceTime(ReplyLen)
    <3>1. ToCome \in 0 .. ReplyLen /\ ReplyLen \in Nat
      BY AnswerTypes, DriverAssumption DEF TurnInv
    <3>2. QED
      BY <1>5, <3>1, CharTimes
  <2>3. SilenceTime(ToCome') \in Nat
    BY <1>5, AnswerTypes DEF TurnInv
  <2>4. left'["timeout"] > Silence' + SilenceTime(ToCome')
    BY <1>1, <1>7, <1>8, <2>1, <2>2, <2>3
  <2>5. left'["timeout"] < left'["task"]
    BY <1>1, <1>6, <1>7
  <2>6. QED
    BY <1>2, <1>4, <2>4, <2>5 DEF TimersInv, Armed, Timers, SilenceTime
<1>12. AnswerTimes'
  <2> SUFFICES ASSUME Answering PROVE AnswerTimes'
    BY <1>5 DEF AnswerTimes
  <2>1. /\ req.tid \in Tids /\ First \in Nat /\ Last \in Nat
        /\ delay[req.tid] \in Nat /\ (reply = <<>> => due[req.tid] \in Nat)
        /\ left["char"] \in Nat \cup {Off}
    BY AnswerTypes, TurnTypes DEF TurnInv, Clocks
  <2>2. AnswerTimes
    BY DEF TurnInv
  <2>3. Prompt(delay[req.tid]) \/ Late(delay[req.tid])
    BY <2>1 DEF Orderly
  <2>4. Last < left'["task"]
    <3>1. Last <= delay[req.tid] + CharTime(ReplyLen)
      BY <2>2 DEF AnswerTimes
    <3>2. CASE Prompt(delay[req.tid])
      BY <1>6, <1>7, <1>8, <2>1, <3>1, <3>2 DEF Prompt
    <3>3. CASE Late(delay[req.tid])
      <4>1. delay[req.tid] + CharTime(ReplyLen) + TICK <= RX_WAIT
        BY <3>3 DEF Late, CharTime
      <4>2. QED
        BY <1>6, <1>7, <1>8, <2>1, <3>1, <4>1
    <3>4. QED
      BY <2>3, <3>2, <3>3
  <2>5. Prompt(delay[req.tid]) => First < SILENCE
    BY <1>7, <2>1, <2>2 DEF AnswerTimes, Prompt, First
  <2>6. Late(delay[req.tid]) => rx_index = 0 /\ First > SILENCE
    BY <2>2 DEF AnswerTimes, LateTimes, TimerGone
  <2>7. TimerGone' = SILENCE
    BY <1>1, <1>2, <1>7 DEF TimerGone, Silence
  <2>8. Prompt(delay[req.tid]) => PromptTimes'
    BY <1>1, <1>4, <1>5, <2>5 DEF PromptTimes, Armed, Timers
  <2>9. Late(delay[req.tid]) => LateTimes'
    BY <1>4, <1>5, <2>6, <2>7 DEF LateTimes
  <2>10. QED
    BY <1>1, <1>4, <1>5, <2>2, <2>4, <2>8, <2>9 DEF AnswerTimes, Prompt, Late
<1>13. Noticed'
  BY <1>1, <1>2, <1>4, <1>5 DEF TurnInv, Noticed, Prompt, RxPhase, Armed, Timers
<1>14. OwnReply'
  BY <1>2 DEF OwnReply
<1>15. QED
  BY <1>9, <1>10, <1>11, <1>12, <1>13, <1>14 DEF TurnInv

-----------------------------------------------------------------------------
(* Time, and the handlers of the timers.                                   *)

\* Time brings the answer nearer, and the timers to their end, alike.
LEMMA ElapseBrings ==
  ASSUME Known, Elapse
  PROVE  \E d \in Nat :
           /\ d > 0
           /\ \A c \in {"silence", "timeout", "char", "task"} :
                /\ left[c] # Off => d <= left[c] /\ left'[c] = left[c] - d
                /\ left[c] = Off => left'[c] = Off
           /\ \A t \in Tids :
                /\ due[t] = Off => due'[t] = Off
                /\ due[t] # Off => due'[t] # Off
                /\ due[t] # Off /\ reply = <<>> =>
                     d <= due[t] /\ due'[t] = due[t] - d
<1> USE DEF Known
<1>1. ClockTypes
  BY ClocksOKGroups
<1>2. PICK d \in Events :
        /\ d > 0 /\ \A e \in Events : d <= e
        /\ left' = [c \in Clocks |-> Left(c, d)]
        /\ due' = [t \in Tids |-> Less(due[t], d)]
  BY DEF Elapse
<1>3. d \in Nat
  BY <1>1, <1>2 DEF Events, ClockTypes
<1>4. \A c \in {"silence", "timeout", "char", "task"} :
        /\ left'[c] = (IF left[c] = Off THEN Less(left[c], d) ELSE left[c] - d)
        /\ left[c] \in Nat \cup {Off} /\ (left[c] # Off => d <= left[c])
  BY <1>1, <1>2 DEF ClockTypes, Clocks, Events, Left
<1>5. \A t \in Tids :
        /\ due'[t] = Less(due[t], d) /\ due[t] \in Nat \cup {Off}
        /\ due[t] # Off /\ reply = <<>> => d <= due[t]
  BY <1>1, <1>2 DEF ClockTypes, Events
<1>6. \A x \in Nat \cup {Off} :
        /\ x = Off => Less(x, d) = Off
        /\ x # Off => Less(x, d) # Off
        /\ x # Off /\ d <= x => Less(x, d) = x - d
  BY <1>3 DEF Less
<1>7. QED
  BY <1>2, <1>3, <1>4, <1>5, <1>6

LEMMA ElapseTurn ==
  ASSUME Known, Elapse
  PROVE  TurnInv'
<1> USE DEF Known
<1>1. PICK d \in Nat :
        /\ d > 0
        /\ \A c \in {"silence", "timeout", "char", "task"} :
             /\ left[c] # Off => d <= left[c] /\ left'[c] = left[c] - d
             /\ left[c] = Off => left'[c] = Off
        /\ \A t \in Tids :
             /\ due[t] = Off => due'[t] = Off
             /\ due[t] # Off => due'[t] # Off
             /\ due[t] # Off /\ reply = <<>> =>
                  d <= due[t] /\ due'[t] = due[t] - d
  BY ElapseBrings
<1>2. /\ UNCHANGED <<pc, req, reply, delay, tx_done_flag, de, rxneie, rx_index,
                     rx_buffer, rx_timeout_flag, rx_frame_complete,
                     rx_frame_semaphore, rx_len, sem_result, resp>>
      /\ UNCHANGED <<running, uif, isr>>
  BY DEF Elapse, vars, driver_vars, tx_vars, rx_vars, tim_vars, bus_vars,
     task_vars, local_vars
<1>3. /\ pc # "start_rx" /\ isr = "none" /\ \A t \in Timers : ~uif[t]
      /\ \A t \in Timers : left[t] # Off <=> running[t]
  BY TurnTypes DEF Elapse, Ready, SendPlaces, TasksMayRun
<1>4. Owed' = Owed /\ Answering' = Answering /\ ToCome' = ToCome
  <2>1. Owed' = Owed
    BY <1>1 DEF Owed
  <2>2. QED
    BY <1>2, <2>1 DEF Answering, ToCome
<1>5. \A i : ReplyChar(i)' = ReplyChar(i)
  BY <1>2 DEF ReplyChar
<1>6. ASSUME Answering
      PROVE  /\ First \in Nat /\ Last \in Nat /\ First' = First - d
             /\ First' >= 0 /\ Last' = Last - d
             /\ reply # <<>> => left'["char"] <= left["char"]
             /\ reply = <<>> => due'[req.tid] <= due[req.tid]
  <2>1. /\ req.tid \in Tids /\ First \in Nat /\ Last \in Nat
        /\ CharTime(ToCome - 1) \in Nat
        /\ reply = <<>> => due[req.tid] \in Nat
        /\ left["char"] \in Nat \cup {Off} /\ CHAR \in Nat
        /\ reply # <<>> => left["char"] # Off
    BY <1>6, AnswerTypes, TurnTypes, TimingAssumption DEF TurnInv, Clocks
  <2>2. CASE reply # <<>>
    <3>1. First = left["char"] /\ First' = left'["char"]
      BY <1>2, <2>2 DEF First
    <3>2. First' = First - d /\ First' >= 0
      BY <1>1, <2>1, <2>2, <3>1
    <3>3. Last' = Last - d
      BY <1>4, <2>1, <3>2 DEF Last, CharTime
    <3>4. QED
      BY <2>1, <2>2, <3>1, <3>2, <3>3
  <2>3. CASE reply = <<>>
    <3>1. First = due[req.tid] + CHAR /\ First' = due'[req.tid] + CHAR
      BY <1>2, <2>3 DEF First
    <3>2. due[req.tid] # Off
      BY <2>1, <2>3
    <3>3. d <= due[req.tid] /\ due'[req.tid] = due[req.tid] - d
      BY <1>1, <2>1, <2>3, <3>2
    <3>4. First' = First - d /\ First' >= 0
      BY <2>1, <2>3, <3>1, <3>3
    <3>5. Last' = Last - d
      BY <1>4, <2>1, <3>4 DEF Last, CharTime
    <3>6. QED
      BY <2>1, <2>3, <3>3, <3>4, <3>5
  <2>4. QED
    BY <2>2, <2>3
<1>7. /\ left["silence"] \in Nat \cup {Off} /\ left["timeout"] \in Nat \cup {Off}
      /\ left["task"] \in Nat \cup {Off} /\ Silence \in Nat
      /\ SilenceTime(ToCome) \in Nat
      /\ SilenceTime(ToCome') = SilenceTime(ToCome)
  BY <1>4, TurnTypes, AnswerTypes DEF TurnInv, Clocks
<1>8. Armed => /\ left["silence"] # Off /\ Silence = left["silence"]
               /\ Silence' = Silence - d
               /\ left'["timeout"] = left["timeout"] - d
  <2>1. Armed => left["silence"] # Off /\ left["timeout"] # Off
    BY <1>3 DEF TurnInv, TimersInv, Armed, Timers
  <2>2. left["silence"] # Off => left'["silence"] = left["silence"] - d
                                 /\ d <= left["silence"]
    BY <1>1
  <2>3. QED
    BY <1>1, <1>7, <2>1, <2>2 DEF Silence
<1>9. pc \in {"poll_tx", "wait_rx"} =>
        left["task"] \in Nat /\ left'["task"] = left["task"] - d
  BY <1>1, <1>7, TurnTypes DEF Waiting
<1>10. Whose'
  BY <1>1, <1>2, <1>4, <1>5 DEF TurnInv, Whose, ReplyChar
<1>11. Received'
  BY <1>2, <1>4, <1>5 DEF TurnInv, Received, NotYetSent
<1>12. TimersInv'
  <2>1. Armed' = Armed
    BY <1>2 DEF Armed
  <2>2. Armed => left'["timeout"] > Silence' + SilenceTime(ToCome')
    <3>1. Armed => left["timeout"] > Silence + SilenceTime(ToCome)
      BY DEF TurnInv, TimersInv
    <3>2. QED
      BY <1>7, <1>8, <3>1
  <2>3. Armed /\ pc = "wait_rx" => left'["timeout"] < left'["task"]
    <3>1. Armed /\ pc = "wait_rx" => left["timeout"] < left["task"]
      BY DEF TurnInv, TimersInv
    <3>2. QED
      BY <1>7, <1>8, <1>9, <3>1
  <2>4. pc = "poll_tx" => left'["task"] <= TICK
    <3>1. pc = "poll_tx" => left["task"] <= TICK
      BY DEF TurnInv, TimersInv
    <3>2. QED
      BY <1>9, <3>1, TimingAssumption
  <2>5. QED
    BY <1>2, <2>1, <2>2, <2>3, <2>4 DEF TurnInv, TimersInv, SilenceTime
<1>13. AnswerTimes'
  <2> SUFFICES ASSUME Answering PROVE AnswerTimes'
    BY <1>4 DEF AnswerTimes
  <2>1. AnswerTimes /\ pc \in {"poll_tx", "wait_rx"}
    BY <1>3 DEF TurnInv, Whose
  <2>2. /\ delay[req.tid] \in Nat /\ (reply = <<>> => due[req.tid] \in Nat)
        /\ CharTime(ReplyLen) \in Nat /\ left["char"] \in Nat \cup {Off}
    BY AnswerTypes, TurnTypes, CharTimes, DriverAssumption DEF TurnInv, Clocks
  <2>3. IF reply # <<>> THEN left'["char"] <= CHAR
                        ELSE due'[req.tid] <= delay[req.tid]
    <3>1. IF reply # <<>> THEN left["char"] <= CHAR
                          ELSE due[req.tid] <= delay[req.tid]
      BY <2>1 DEF AnswerTimes
    <3>2. reply # <<>> => left["char"] \in Nat /\ left'["char"] = left["char"] - d
      BY <1>1, <2>2, TurnTypes
    <3>3. reply = <<>> => due'[req.tid] = due[req.tid] - d
      <4>1. reply = <<>> => due[req.tid] # Off
        BY <2>2
      <4>2. req.tid \in Tids
        BY AnswerTypes DEF TurnInv
      <4>3. QED
        BY <1>1, <4>1, <4>2
    <3>4. CHAR \in Nat
      BY TimingAssumption
    <3>5. QED
      BY <2>2, <3>1, <3>2, <3>3, <3>4
  <2>4. Last' <= delay[req.tid] + CharTime(ReplyLen)
    BY <1>6, <2>1, <2>2 DEF AnswerTimes
  <2>5. pc = "wait_rx" => Last' < left'["task"]
    BY <1>6, <1>9, <2>1 DEF AnswerTimes
  <2>6. PromptTimes => PromptTimes'
    <3>1. PromptTimes /\ pc = "wait_rx" => Armed /\ First < left["silence"]
      BY DEF PromptTimes
    <3>2. PromptTimes /\ pc = "wait_rx" => First' < left'["silence"]
      BY <1>1, <1>6, <1>7, <1>8, <3>1
    <3>3. QED
      BY <1>2, <3>2 DEF PromptTimes, Armed
  <2>7. LateTimes => LateTimes'
    <3>1. CASE pc = "poll_tx"
      <4>1. TimerGone = SILENCE + left["task"] /\ TimerGone' = SILENCE + left'["task"]
        BY <1>2, <3>1 DEF TimerGone
      <4>2. LateTimes => First' > TimerGone'
        BY <1>6, <1>9, <3>1, <4>1, TimingAssumption DEF LateTimes
      <4>3. QED
        BY <1>2, <3>1, <4>2 DEF LateTimes
    <3>2. CASE pc = "wait_rx"
      <4>1. TimerGone = Silence /\ TimerGone' = Silence'
        BY <1>2, <3>2 DEF TimerGone
      <4>2. LateTimes /\ Armed => First' > TimerGone'
        BY <1>6, <1>7, <1>8, <3>2, <4>1 DEF LateTimes
      <4>3. QED
        BY <1>2, <1>3, <3>2, <4>2 DEF LateTimes, Armed
    <3>3. QED
      BY <2>1, <3>1, <3>2
  <2>8. QED
    BY <1>2, <1>6, <2>1, <2>3, <2>4, <2>5, <2>6, <2>7
    DEF AnswerTimes, Prompt, Late, CharTime
<1>14. Noticed' /\ OwnReply'
  BY <1>2, <1>4 DEF TurnInv, Noticed, OwnReply, Prompt, Armed
<1>15. QED
  BY <1>10, <1>11, <1>12, <1>13, <1>14 DEF TurnInv

\* In orderly behaviours the slave's answer is prompt or late.
LEMMA InTimeOrNot ==
  ASSUME Known, Orderly, Answering
  PROVE  Prompt(delay[req.tid]) \/ Late(delay[req.tid])
BY AnswerTypes DEF Known, TurnInv, Orderly

\* The handlers of TIM2 and TIM3, and their updates.
LEMMA TimerTurn ==
  ASSUME Known, Orderly, TimedTimer
  PROVE  TurnInv'
<1> USE DEF Known
<1>1. /\ UNCHANGED <<pc, req, reply, due, delay, tx_done_flag, de, rxneie,
                     rx_index, rx_buffer, rx_len,
                     sem_result, resp>>
      /\ left'["char"] = left["char"] /\ left'["task"] = left["task"]
  <2>1. ClockTypes
    BY ClocksOKGroups
  <2>2. left'["char"] = left["char"] /\ left'["task"] = left["task"]
    BY <2>1 DEF TimedTimer, ClockTypes, Clocks, Timers, Stopped
  <2>3. QED
    BY <2>2 DEF TimedTimer, TimerUpdate, Tim2IsrEnter, Tim2IsrSignal,
       rs485_tim3_period_elapsed_isr, tx_vars, rx_vars, bus_vars, task_vars,
       local_vars
<1>2. /\ Owed' = Owed /\ Answering' = Answering /\ ToCome' = ToCome
      /\ First' = First /\ Last' = Last /\ \A i : ReplyChar(i)' = ReplyChar(i)
  BY <1>1, BusSame DEF ReplyChar
<1>3. Whose'
  BY <1>1, <1>2 DEF TurnInv, Whose, ReplyChar
<1>4. OwnReply'
  BY <1>1 DEF TurnInv, OwnReply
<1>5. /\ running \in [Timers -> BOOLEAN] /\ uif \in [Timers -> BOOLEAN]
      /\ Silence \in Nat /\ SilenceTime(ToCome) \in Nat
      /\ left \in [Clocks -> Nat \cup {Off}]
      /\ Answering => First \in Nat /\ req.tid \in Tids
      /\ \A t \in Timers : left[t] # Off <=> running[t] /\ ~uif[t]
  BY TurnTypes, AnswerTypes DEF TurnInv
<1>6. Answering => pc \in {"poll_tx", "start_rx", "wait_rx"}
  BY DEF TurnInv, Whose
<1>7. ASSUME NEW t \in Timers, left[t] = 0, TimerUpdate(t),
             left' = [left EXCEPT ![t] = Off]
      PROVE  TurnInv'
  <2>1. running[t] /\ uif' = [uif EXCEPT ![t] = TRUE] /\ ~uif[t]
        /\ UNCHANGED <<running, isr, rx_timeout_flag, rx_frame_complete,
                       rx_frame_semaphore>>
    BY <1>7 DEF TimerUpdate, rx_vars
  <2>2. pc \in {"wait_rx", "stop_rx"}
    BY <2>1 DEF TimersOnlyInWindow
  <2>3. running["silence"] = running["timeout"]
    BY DEF TurnInv, TimersInv
  <2>4. Armed
    BY <2>1, <2>3 DEF Armed, Timers
  <2>5. t = "silence"
    <3>1. left["timeout"] > Silence + SilenceTime(ToCome)
      BY <2>4 DEF TurnInv, TimersInv
    <3>2. left["timeout"] # 0
      BY <1>5, <3>1
    <3>3. QED
      BY <1>7, <3>2 DEF Timers
  <2>6. /\ left'["silence"] = Off /\ left'["timeout"] = left["timeout"]
        /\ uif'["timeout"] = uif["timeout"] /\ Silence = 0
    BY <1>5, <1>7, <2>1, <2>5 DEF Clocks, Timers, Silence
  <2>7. Silence' = 0
    BY <2>6 DEF Silence
  <2>8. Received'
    BY <1>1, <1>2, <2>1 DEF TurnInv, Received, NotYetSent
  <2>9. TimersInv'
    <3>1. Armed' /\ Armed
      BY <2>1, <2>4 DEF Armed
    <3>2. QED
      BY <1>1, <1>2, <2>1, <2>2, <2>6, <2>7, <3>1
      DEF TurnInv, TimersInv, SilenceTime
  <2>10. AnswerTimes'
    <3> SUFFICES ASSUME Answering PROVE AnswerTimes'
      BY <1>2 DEF AnswerTimes
    <3>1. pc = "wait_rx"
      BY <1>6, <2>2
    <3>2. ~Prompt(delay[req.tid])
      <4>1. ~PromptTimes
        BY <1>5, <1>7, <2>5, <3>1 DEF PromptTimes
      <4>2. QED
        BY <4>1 DEF TurnInv, AnswerTimes
    <3>3. TimerGone' = TimerGone
      BY <1>1, <2>6, <2>7, <3>1 DEF TimerGone
    <3>4. LateTimes => LateTimes'
      BY <1>1, <1>2, <2>1, <3>3 DEF LateTimes, Armed
    <3>5. QED
      BY <1>1, <1>2, <3>2, <3>4 DEF TurnInv, AnswerTimes, Prompt, Late, CharTime
  <2>11. Noticed'
    BY <1>1, <1>2, <2>1 DEF TurnInv, Noticed, Prompt, Armed
  <2>12. QED
    BY <1>3, <1>4, <2>8, <2>9, <2>10, <2>11 DEF TurnInv
<1>8. ASSUME Tim2IsrEnter, left' = Stopped
      PROVE  TurnInv'
  <2>1. /\ isr' = "tim2" /\ uif["silence"] /\ isr = "none"
        /\ \A t \in Timers : ~running'[t]
        /\ running'["silence"] = running'["timeout"]
        /\ ~uif'["silence"] /\ uif'["timeout"] = uif["timeout"]
        /\ UNCHANGED <<rx_timeout_flag, rx_frame_complete, rx_frame_semaphore>>
    BY <1>5, <1>8 DEF Tim2IsrEnter, rs485_stop_rx_timeout, rx_vars, Timers
  <2>2. pc \in {"wait_rx", "stop_rx"}
    BY <2>1 DEF TimersOnlyInWindow, Timers
  <2>3. Silence = 0 /\ Silence' = 0
    BY <1>5, <1>8, <2>1 DEF Silence, Stopped, Clocks, Timers
  <2>4. Received'
    BY <1>1, <1>2, <2>1 DEF TurnInv, Received, NotYetSent
  <2>5. TimersInv'
    BY <1>1, <2>1, <2>2 DEF TurnInv, TimersInv, Armed, Timers
  <2>6. AnswerTimes'
    <3> SUFFICES ASSUME Answering PROVE AnswerTimes'
      BY <1>2 DEF AnswerTimes
    <3>1. pc = "wait_rx"
      BY <1>6, <2>2
    <3>2. ~Prompt(delay[req.tid])
      BY <2>1, <3>1 DEF TurnInv, AnswerTimes, PromptTimes
    <3>3. TimerGone' = TimerGone
      BY <1>1, <2>3, <3>1 DEF TimerGone
    <3>4. Armed
      BY <2>1, <3>1 DEF TurnInv, TimersInv
    <3>5. LateTimes => LateTimes'
      BY <1>1, <1>2, <3>3, <3>4 DEF LateTimes
    <3>6. QED
      BY <1>1, <1>2, <3>2, <3>5 DEF TurnInv, AnswerTimes, Prompt, Late, CharTime
  <2>7. Noticed'
    BY <1>1, <1>2, <2>1 DEF TurnInv, Noticed, Prompt
  <2>8. QED
    BY <1>3, <1>4, <2>4, <2>5, <2>6, <2>7 DEF TurnInv
<1>9. ASSUME Tim2IsrSignal, left' = left
      PROVE  TurnInv'
  <2>1. isr = "tim2" /\ isr' = "none" /\ UNCHANGED <<running, uif, rx_timeout_flag>>
        /\ \/ /\ rx_index > 0 /\ rx_frame_complete' /\ rx_frame_semaphore' = 1
           \/ /\ rx_index = 0
              /\ UNCHANGED <<rx_frame_complete, rx_frame_semaphore>>
    BY <1>9 DEF Tim2IsrSignal
  <2>2. pc \in {"wait_rx", "stop_rx"} /\ ~Armed /\ ~Armed'
    BY <2>1 DEF TimersOnlyInWindow, TurnInv, TimersInv, Armed
  <2>3. Answering => Late(delay[req.tid]) /\ ~Prompt(delay[req.tid])
                     /\ pc = "wait_rx" /\ rx_index = 0
    <3> SUFFICES ASSUME Answering
                 PROVE  Late(delay[req.tid]) /\ ~Prompt(delay[req.tid])
                        /\ pc = "wait_rx" /\ rx_index = 0
      OBVIOUS
    <3>1. pc = "wait_rx"
      BY <1>6, <2>2
    <3>2. ~Prompt(delay[req.tid])
      BY <2>2, <3>1 DEF TurnInv, AnswerTimes, PromptTimes
    <3>3. Late(delay[req.tid])
      BY <3>2, InTimeOrNot
    <3>4. QED
      BY <2>1, <3>1, <3>2, <3>3 DEF TurnInv, AnswerTimes, LateTimes
  <2>4. Received'
    <3>1. pc \in Cleared /\ pc \notin Drained
      BY <2>2 DEF Cleared, RxPhase, Drained
    <3>2. rx_index > 0 => ~Answering /\ rx_index = ReplyLen
      BY <2>3, <3>1, TurnTypes DEF TurnInv, Received
    <3>3. CASE rx_index = 0
      BY <1>1, <1>2, <2>1, <3>3 DEF TurnInv, Received, NotYetSent
    <3>4. CASE rx_index > 0
      BY <1>1, <1>2, <2>1, <2>2, <3>1, <3>2, <3>4
      DEF TurnInv, Received, NotYetSent, Setup
    <3>5. QED
      BY <3>3, <3>4, TurnTypes
  <2>5. TimersInv'
    BY <1>1, <1>9, <2>1, <2>2 DEF TurnInv, TimersInv, Armed
  <2>6. AnswerTimes'
    <3> SUFFICES ASSUME Answering PROVE AnswerTimes'
      BY <1>2 DEF AnswerTimes
    <3>1. LateTimes'
      BY <1>1, <2>1, <2>2, <2>3 DEF LateTimes
    <3>2. QED
      BY <1>1, <1>2, <2>3, <3>1 DEF TurnInv, AnswerTimes, Prompt, Late, CharTime
  <2>7. Noticed'
    <3> SUFFICES ASSUME delay[req.tid] # Off, Prompt(delay[req.tid])
                 PROVE  /\ ~Answering => rx_index = ReplyLen
                        /\ ~Answering /\ pc = "wait_rx" => rx_frame_complete'
                        /\ pc = "stop_rx" => rx_frame_complete' /\ sem_result
      BY <1>1, <1>2, <2>2 DEF Noticed, Prompt
    <3>1. ~Answering => rx_index = ReplyLen
      BY <2>2 DEF TurnInv, Noticed, RxPhase
    <3>2. ~Answering => rx_frame_complete'
      BY <2>1, <3>1, DriverAssumption
    <3>3. pc = "stop_rx" => rx_frame_complete' /\ sem_result
      <4>1. pc = "stop_rx" => ~Answering /\ sem_result
        BY <1>6 DEF TurnInv, Noticed
      <4>2. QED
        BY <3>2, <4>1
    <3>4. QED
      BY <3>1, <3>2, <3>3
  <2>8. QED
    BY <1>3, <1>4, <2>4, <2>5, <2>6, <2>7 DEF TurnInv
<1>10. ~rs485_tim3_period_elapsed_isr
  BY DEF rs485_tim3_period_elapsed_isr, TurnInv, TimersInv
<1>11. QED
  BY <1>7, <1>8, <1>9, <1>10 DEF TimedTimer

-----------------------------------------------------------------------------
(* The bus.                                                                *)

\* The end of the transmission hands the turn to the slave.
LEMMA TxCpltTurn ==
  ASSUME Known, TimedTxCplt
  PROVE  TurnInv'
<1> USE DEF Known
<1>1. /\ gState = "BUSY_TX" /\ ~rxne
      /\ ~de' /\ rxneie' /\ tx_done_flag'
      /\ UNCHANGED <<pc, req, reply, rx_vars, tim_vars, rx_len, sem_result, resp>>
      /\ left' = [left EXCEPT !["tx"] = Off]
  BY DEF TimedTxCplt, HAL_UART_TxCpltCallback, SentOnce, task_vars, local_vars
<1>2. /\ pc = "poll_tx" /\ ~tx_done_flag /\ tx_frame = MbapOf(req) /\ NotYetSent
  BY <1>1 DEF OnTime, SentOnce, NotYetSent
<1>3. ~Answering /\ reply = <<>> /\ \A t \in Tids : due[t] = Off
  BY <1>2 DEF TurnInv, Whose, Answering, Owed
<1>4. /\ req.tid \in Tids /\ delay[req.tid] = Off
      /\ due \in [Tids -> Nat \cup {Off}]
      /\ delay \in [Tids -> Delays \cup {Off}]
      /\ left \in [Clocks -> Nat \cup {Off}]
  BY <1>2, TurnTypes DEF SentOnce
<1>5. PICK d \in Delays \cup {Off} :
        /\ due' = [due EXCEPT ![req.tid] = d]
        /\ delay' = [delay EXCEPT ![req.tid] = d]
  <2>1. tx_frame.tid = req.tid
    BY <1>2 DEF MbapOf
  <2>2. CASE UNCHANGED <<due, delay>>
    <3>1. /\ due' = [due EXCEPT ![req.tid] = Off]
          /\ delay' = [delay EXCEPT ![req.tid] = Off]
      BY <1>3, <1>4, <2>2
    <3>2. QED
      BY <3>1
  <2>3. CASE \E e \in Delays : /\ due' = [due EXCEPT ![tx_frame.tid] = e]
                               /\ delay' = [delay EXCEPT ![tx_frame.tid] = e]
    BY <2>1, <2>3
  <2>4. QED
    BY <2>2, <2>3 DEF TimedTxCplt
<1>6. d \in Nat \cup {Off} /\ due'[req.tid] = d /\ delay'[req.tid] = d
      /\ \A t \in Tids : due'[t] # Off => t = req.tid /\ d # Off
  BY <1>3, <1>4, <1>5, TimingAssumption
<1>7. /\ UNCHANGED <<rx_index, rx_buffer, rx_timeout_flag, rx_frame_complete,
                     rx_frame_semaphore, running, uif, isr>>
      /\ \A c \in {"silence", "timeout", "char", "task"} : left'[c] = left[c]
      /\ req'.tid = req.tid /\ \A i : ReplyChar(i)' = ReplyChar(i)
  BY <1>1, <1>4 DEF rx_vars, tim_vars, Clocks, ReplyChar
<1>8. Answering' <=> d # Off
  BY <1>1, <1>3, <1>4, <1>6 DEF Answering, Owed
<1>9. d # Off => /\ ToCome' = ReplyLen /\ First' = d + CHAR
                 /\ Last' = d + CharTime(ReplyLen)
  <2> SUFFICES ASSUME d # Off
               PROVE  /\ ToCome' = ReplyLen /\ First' = d + CHAR
                      /\ Last' = d + CharTime(ReplyLen)
    OBVIOUS
  <2>1. ToCome' = ReplyLen
    BY <1>1, <1>3, <1>8 DEF ToCome, Answering
  <2>2. First' = d + CHAR
    BY <1>1, <1>3, <1>6 DEF First
  <2>3. CharTime(ReplyLen) = CharTime(ReplyLen - 1) + CHAR
        /\ CharTime(ReplyLen - 1) \in Nat
    <3>1. ReplyLen - 1 \in Nat /\ (ReplyLen - 1) + 1 = ReplyLen
      BY DriverAssumption
    <3>2. CharTime((ReplyLen - 1) + 1) = CharTime(ReplyLen - 1) + CHAR
          /\ CharTime(ReplyLen - 1) \in Nat
      BY <3>1, CharTimes
    <3>3. QED
      BY <3>1, <3>2
  <2>4. Last' = First' + CharTime(ToCome' - 1)
    BY DEF Last, CharTime
  <2>5. QED
    BY <1>6, <2>1, <2>2, <2>3, <2>4, TimingAssumption
<1>10. Whose'
  <2>1. Len(reply') = 0
    BY <1>1, <1>3
  <2>2. QED
    BY <1>1, <1>2, <1>3, <1>6, <1>8, <2>1, DriverAssumption DEF Whose
<1>11. Received'
  <2>1. rx_index = 0 /\ ~rx_timeout_flag /\ ~rx_frame_complete
        /\ rx_frame_semaphore # 1
    BY <1>2 DEF TurnInv, Received, Cleared, Drained
  <2>2. rx_index' = 0 /\ ~rx_timeout_flag' /\ ~rx_frame_complete'
        /\ rx_frame_semaphore' # 1
    BY <1>7, <2>1
  <2>3. Answering' => ToCome' = ReplyLen
    BY <1>8, <1>9
  <2>4. QED
    BY <1>1, <1>2, <2>2, <2>3, DriverAssumption DEF Received
<1>12. TimersInv'
  <2>1. ~Armed /\ ~Armed' /\ isr' = "none"
    BY <1>2, <1>7 DEF TimersOnlyInWindow, Armed, Timers
  <2>2. QED
    BY <1>1, <1>2, <1>7, <2>1 DEF TurnInv, TimersInv, Armed
<1>13. AnswerTimes'
  <2> SUFFICES ASSUME d # Off PROVE AnswerTimes'
    BY <1>8 DEF AnswerTimes
  <2>1. d \in Nat /\ CHAR \in Nat
    BY <1>6, TimingAssumption
  <2>2. /\ First' >= 0 /\ Last' <= delay'[req'.tid] + CharTime(ReplyLen)
        /\ due'[req'.tid] <= delay'[req'.tid] /\ reply' = <<>>
    <3>1. CharTime(ReplyLen) \in Nat
      BY CharTimes, DriverAssumption
    <3>2. QED
      BY <1>1, <1>3, <1>6, <1>7, <1>9, <2>1, <3>1
  <2>3. PromptTimes'
    BY <1>1, <1>2 DEF PromptTimes
  <2>4. Late(d) => LateTimes'
    <3>1. TimerGone' = SILENCE + left["task"]
      BY <1>1, <1>2, <1>7 DEF TimerGone
    <3>2. left["task"] <= TICK /\ left["task"] \in Nat
      BY <1>2, TurnTypes DEF TurnInv, TimersInv, Waiting, Clocks
    <3>3. Late(d) => First' > TimerGone'
      BY <1>9, <2>1, <3>1, <3>2, TimingAssumption DEF Late
    <3>4. rx_index' = 0
      BY <1>2, <1>7 DEF TurnInv, Received, Cleared
    <3>5. QED
      BY <3>3, <3>4 DEF LateTimes
  <2>5. QED
    BY <1>1, <1>2, <1>6, <1>7, <2>2, <2>3, <2>4
    DEF AnswerTimes, Prompt, Late, CharTime
<1>14. Noticed' /\ OwnReply'
  <2>1. delay'[req'.tid] # Off => Answering'
    BY <1>6, <1>7, <1>8
  <2>2. QED
    BY <1>1, <1>2, <2>1 DEF Noticed, OwnReply
<1>15. QED
  BY <1>10, <1>11, <1>12, <1>13, <1>14 DEF TurnInv

\* The slave begins: what was owed is now on its way, at the same times.
LEMMA ReplyBegins ==
  ASSUME Known, SlaveStartsReply, TimedBus, reply = <<>>, reply' # <<>>
  PROVE  TurnInv'
<1> USE DEF Known
<1>1. PICK t \in Tids : /\ due[t] = 0 /\ \E q \in heard \ heard' : q.tid = t
                        /\ due' = [due EXCEPT ![t] = Off]
                        /\ left' = [left EXCEPT !["char"] = CHAR]
  BY DEF TimedBus, SlaveChar, SlaveCharDamaged, LineNoise, bus_vars
<1>2. UNCHANGED <<pc, req, tx_vars, rx_vars, tim_vars, rx_len, sem_result,
                  resp, delay>>
  BY DEF TimedBus, SlaveStartsReply, task_vars, local_vars
<1>3. /\ due \in [Tids -> Nat \cup {Off}]
      /\ left \in [Clocks -> Nat \cup {Off}]
      /\ CHAR \in Nat /\ heard \in SUBSET Target
      /\ ReplyLen \in Nat /\ ReplyLen >= 4
  BY TurnTypes, TypesUsed, TimingAssumption, DriverAssumption
<1>4. t = req.tid /\ due[req.tid] = 0
  BY <1>1 DEF TurnInv, Whose
<1>5. /\ \A u \in Tids : due'[u] = Off
      /\ \A c \in {"silence", "timeout", "task"} : left'[c] = left[c]
      /\ left'["char"] = CHAR
  BY <1>1, <1>3, <1>4 DEF TurnInv, Whose, Clocks
<1>6. reply' = [i \in 1 .. ReplyLen |-> ReplyChar(i)]
  <2>1. PICK q \in heard : heard' = heard \ {q} /\ reply' = ReplyFrame(q)
    BY DEF SlaveStartsReply
  <2>2. q.tid = req.tid
    BY <1>1, <1>4, <2>1
  <2>3. q = MbapOf(req)
    BY <2>1, <2>2 DEF SentOnce
  <2>4. QED
    BY <2>1, <2>3 DEF ReplyFrame, MbapOf, ReplyChar
<1>7. Len(reply') = ReplyLen /\ \A i \in 1 .. ReplyLen : reply'[i] = ReplyChar(i)
  BY <1>3, <1>6
<1>8. /\ UNCHANGED <<tx_done_flag, de, rxneie, rx_index, rx_buffer,
                     rx_timeout_flag, rx_frame_complete, rx_frame_semaphore>>
      /\ UNCHANGED <<running, uif, isr>>
      /\ \A i : ReplyChar(i)' = ReplyChar(i)
  BY <1>2 DEF tx_vars, rx_vars, tim_vars, ReplyChar
<1>9. /\ Owed /\ ~Owed' /\ Answering /\ Answering'
      /\ ToCome = ReplyLen /\ ToCome' = ReplyLen
      /\ First = CHAR /\ First' = CHAR /\ Last' = Last
  <2>1. Owed /\ ~Owed'
    BY <1>1, <1>4, <1>5 DEF Owed
  <2>2. Answering /\ Answering' /\ ToCome = ReplyLen /\ ToCome' = ReplyLen
    BY <1>7, <2>1 DEF Answering, ToCome
  <2>3. First = CHAR /\ First' = CHAR
    BY <1>3, <1>4, <1>5 DEF First
  <2>4. QED
    BY <2>1, <2>2, <2>3 DEF Last, CharTime
<1>10. /\ pc \in {"poll_tx", "start_rx", "wait_rx"} /\ tx_done_flag
       /\ delay[req.tid] # Off /\ ~de /\ rxneie
  BY <1>9 DEF TurnInv, Whose
<1>11. Whose'
  <2>1. \A i \in 1 .. Len(reply') :
          reply'[i] = ReplyChar(ReplyLen - Len(reply') + i)
    <3>1. \A i \in 1 .. ReplyLen : ReplyLen - ReplyLen + i = i
      BY <1>3
    <3>2. QED
      BY <1>7, <3>1
  <2>2. QED
    BY <1>2, <1>3, <1>5, <1>7, <1>8, <1>10, <2>1 DEF Whose, ReplyChar
<1>12. Received'
  BY <1>2, <1>8, <1>9 DEF TurnInv, Received, NotYetSent
<1>13. TimersInv'
  <2>1. Silence' = Silence
    BY <1>5 DEF Silence
  <2>2. QED
    BY <1>2, <1>5, <1>8, <1>9, <2>1 DEF TurnInv, TimersInv, Armed, SilenceTime
<1>14. AnswerTimes'
  <2>1. TimerGone' = TimerGone
    BY <1>2, <1>5 DEF TimerGone, Silence
  <2>2. First' >= 0 /\ left'["char"] <= CHAR
    BY <1>3, <1>5, <1>9
  <2>3. PromptTimes => PromptTimes'
    BY <1>2, <1>5, <1>8, <1>9 DEF PromptTimes, Armed
  <2>4. LateTimes => LateTimes'
    BY <1>2, <1>8, <1>9, <2>1 DEF LateTimes, Armed
  <2>5. QED
    BY <1>2, <1>5, <1>8, <1>9, <2>2, <2>3, <2>4
    DEF TurnInv, AnswerTimes, Prompt, Late, CharTime
<1>15. Noticed' /\ OwnReply'
  BY <1>2, <1>8, <1>9, <1>10 DEF TurnInv, Noticed, OwnReply, Prompt, RxPhase, Armed
<1>16. QED
  BY <1>11, <1>12, <1>13, <1>14, <1>15 DEF TurnInv

\* Its next character is stored in its place and restarts the silence.
LEMMA CharComes ==
  ASSUME Known, TimedBus, SlaveChar
  PROVE  TurnInv'
<1> USE DEF Known
<1>1. /\ left["char"] = 0 /\ reply # <<>> /\ reply' = Tail(reply)
      /\ due' = due
      /\ left' = LET l == [left EXCEPT !["char"] = IF reply' = <<>> THEN Off
                                                   ELSE CHAR]
                 IN  IF rxneie THEN Restarted(l) ELSE l
  <2>1. reply # <<>> /\ reply' = Tail(reply) /\ heard' = heard
    BY DEF SlaveChar
  <2>2. reply' # reply
    <3>1. Len(Tail(reply)) # Len(reply)
      BY <2>1, TurnTypes
    <3>2. QED
      BY <2>1, <3>1
  <2>3. ~SlaveStartsReply /\ ~LineNoise
    BY <2>1, <2>2 DEF SlaveStartsReply, LineNoise, bus_vars
  <2>4. QED
    BY <2>1, <2>3 DEF TimedBus
<1>2. UNCHANGED <<pc, req, tx_vars, rx_len, sem_result, resp, delay>>
  BY DEF TimedBus, SlaveChar, task_vars, local_vars
<1>3. /\ due \in [Tids -> Nat \cup {Off}] /\ reply \in Seq(Char)
      /\ left \in [Clocks -> Nat \cup {Off}]
      /\ uif \in [Timers -> BOOLEAN]
      /\ rx_buffer \in [1 .. RX_BUFFER_SIZE -> Char]
      /\ CHAR \in Nat /\ SILENCE \in Nat /\ CHAR < SILENCE
      /\ ReplyLen \in Nat /\ ReplyLen >= 4
      /\ RX_BUFFER_SIZE \in Nat /\ RX_BUFFER_SIZE >= ReplyLen
  BY TurnTypes, TimingAssumption, TimingOrder, DriverAssumption
<1>4. /\ Answering /\ pc \in {"poll_tx", "start_rx", "wait_rx"} /\ tx_done_flag
      /\ delay[req.tid] # Off /\ ~de /\ rxneie
      /\ \A t \in Tids : due[t] = Off
  BY <1>1 DEF TurnInv, Whose, Answering
<1>5. /\ ToCome = Len(reply) /\ ToCome \in 1 .. ReplyLen /\ First = 0
      /\ Head(reply) = ReplyChar(ReplyLen - ToCome + 1)
  <2>1. ToCome = Len(reply) /\ First = 0
    BY <1>1 DEF ToCome, First
  <2>2. ToCome \in 1 .. ReplyLen
    BY <1>4, AnswerTypes DEF TurnInv
  <2>3. Head(reply) = reply[1]
    BY <1>1, <1>3
  <2>4. QED
    BY <2>1, <2>2, <2>3 DEF TurnInv, Whose
<1>6. pc \in Cleared /\ ~NotYetSent /\ rx_index = ReplyLen - ToCome
      /\ rx_index \in Nat /\ rx_index < RX_BUFFER_SIZE
  <2>1. pc \in Cleared /\ ~NotYetSent
    BY <1>4 DEF Cleared, RxPhase, NotYetSent, Setup
  <2>2. rx_index = ReplyLen - ToCome
    BY <1>4, <2>1 DEF TurnInv, Received
  <2>3. QED
    BY <1>3, <1>5, <2>1, <2>2
<1>7. /\ rx_index' = rx_index + 1
      /\ rx_buffer' = [rx_buffer EXCEPT ![rx_index + 1] = ReplyChar(rx_index + 1)]
      /\ uif' = [uif EXCEPT !["silence"] = FALSE]
      /\ UNCHANGED <<rx_frame_complete, rx_timeout_flag, rx_frame_semaphore,
                     running, isr>>
  <2>1. rs485_uart_rx_isr(Head(reply))
    BY <1>4 DEF SlaveChar
  <2>2. Head(reply) = ReplyChar(rx_index + 1)
    BY <1>5, <1>6
  <2>3. QED
    BY <1>3, <1>6, <2>1, <2>2 DEF rs485_uart_rx_isr
<1>8. /\ UNCHANGED <<tx_done_flag, de, rxneie>>
      /\ \A i : ReplyChar(i)' = ReplyChar(i)
  BY <1>2 DEF tx_vars, ReplyChar
<1>9. /\ Len(reply') = ToCome - 1 /\ (Answering' <=> ToCome # 1)
      /\ ToCome' = ToCome - 1
      /\ \A i \in 1 .. Len(reply') : reply'[i] = reply[i + 1]
  <2>1. Len(reply') = ToCome - 1 /\ (reply' = <<>> <=> ToCome = 1)
        /\ \A i \in 1 .. Len(reply') : reply'[i] = reply[i + 1]
    <3>1. /\ Len(reply') = Len(reply) - 1 /\ reply' \in Seq(Char)
          /\ \A i \in 1 .. Len(reply') : reply'[i] = reply[i + 1]
      BY <1>1, <1>3
    <3>2. reply' = <<>> <=> Len(reply') = 0
      BY <3>1
    <3>3. QED
      BY <1>3, <1>5, <3>1, <3>2
  <2>2. ~Owed'
    BY <1>1, <1>4 DEF Owed
  <2>3. QED
    BY <1>5, <2>1, <2>2 DEF Answering, ToCome
<1>10. /\ left'["timeout"] = left["timeout"] /\ left'["task"] = left["task"]
       /\ Answering' => left'["char"] = CHAR
       /\ Armed => left'["silence"] = SILENCE
       /\ ~Armed => left'["silence"] = left["silence"]
  <2>1. ~Owed'
    BY <1>1, <1>4 DEF Owed
  <2>2. Answering' => reply' # <<>>
    BY <2>1 DEF Answering
  <2>3. QED
    BY <1>1, <1>3, <1>4, <2>2 DEF Restarted, Period, Armed, Clocks, Timers
<1>11. Answering' => First' = CHAR /\ Last' = Last
  <2> SUFFICES ASSUME Answering' PROVE First' = CHAR /\ Last' = Last
    OBVIOUS
  <2>1. First' = CHAR
    BY <1>1, <1>4, <1>10 DEF First, Answering, Owed
  <2>2. ToCome - 2 \in Nat /\ (ToCome - 2) + 1 = ToCome - 1
        /\ ToCome' - 1 = ToCome - 2
    BY <1>3, <1>5, <1>9
  <2>3. CharTime(ToCome - 1) = CharTime(ToCome - 2) + CHAR
        /\ CharTime(ToCome - 2) \in Nat
    <3>1. CharTime((ToCome - 2) + 1) = CharTime(ToCome - 2) + CHAR
          /\ CharTime(ToCome - 2) \in Nat
      BY <2>2, CharTimes
    <3>2. QED
      BY <2>2, <3>1
  <2>4. Last' = First' + CharTime(ToCome' - 1)
    BY DEF Last, CharTime
  <2>5. QED
    BY <1>3, <1>5, <2>1, <2>2, <2>3, <2>4 DEF Last
<1>12. Whose'
  <2>1. \A i \in 1 .. Len(reply') :
          reply'[i] = ReplyChar(ReplyLen - Len(reply') + i)
    <3> SUFFICES ASSUME NEW i \in 1 .. Len(reply')
                 PROVE  reply'[i] = ReplyChar(ReplyLen - Len(reply') + i)
      OBVIOUS
    <3>1. /\ i + 1 \in 1 .. Len(reply)
          /\ ReplyLen - Len(reply) + (i + 1) = ReplyLen - Len(reply') + i
      BY <1>3, <1>5, <1>9
    <3>2. reply[i + 1] = ReplyChar(ReplyLen - Len(reply) + (i + 1))
      BY <3>1 DEF TurnInv, Whose
    <3>3. QED
      BY <1>9, <3>1, <3>2
  <2>2. Len(reply') <= ReplyLen
    BY <1>3, <1>5, <1>9
  <2>3. QED
    BY <1>1, <1>2, <1>4, <1>8, <2>1, <2>2 DEF Whose, ReplyChar
<1>13. Received'
  <2>1. ~rx_timeout_flag /\ ~rx_frame_complete /\ rx_frame_semaphore # 1
    BY <1>4, <1>6 DEF TurnInv, Received
  <2>2. rx_index' = ReplyLen - ToCome' /\ (~Answering' => rx_index' = ReplyLen)
    <3>1. /\ ToCome \in 1 .. ReplyLen /\ ToCome' = ToCome - 1
          /\ rx_index = ReplyLen - ToCome /\ rx_index' = rx_index + 1
      BY <1>5, <1>6, <1>7, <1>9
    <3>2. rx_index' = ReplyLen - ToCome' /\ (ToCome = 1 => rx_index' = ReplyLen)
      BY <1>3, <3>1
    <3>3. ~Answering' => ToCome = 1
      BY <1>9
    <3>4. QED
      BY <3>2, <3>3
  <2>3. \A i \in 1 .. rx_index' : rx_buffer'[i] = ReplyChar(i)
    <3>1. \A i \in 1 .. rx_index : rx_buffer[i] = ReplyChar(i)
      BY <1>6 DEF TurnInv, Received
    <3>2. QED
      BY <1>3, <1>6, <1>7, <3>1
  <2>4. ~NotYetSent'
    BY <1>2, <1>6, <1>8 DEF NotYetSent
  <2>5. pc' \notin {"crc", "unit", "build"}
    BY <1>2, <1>4
  <2>6. QED
    BY <1>7, <1>8, <2>1, <2>2, <2>3, <2>4, <2>5 DEF Received
<1>14. TimersInv'
  <2>1. ~uif'["silence"] /\ uif'["timeout"] = uif["timeout"]
    BY <1>3, <1>7 DEF Timers
  <2>2. Armed => left'["timeout"] > Silence' + SilenceTime(ToCome')
    <3> SUFFICES ASSUME Armed
                 PROVE  left'["timeout"] > Silence' + SilenceTime(ToCome')
      OBVIOUS
    <3>1. Silence' = SILENCE
      BY <1>3, <1>10 DEF Silence
    <3>2. SilenceTime(ToCome) = SilenceTime(ToCome') + SILENCE
          /\ SilenceTime(ToCome') \in Nat
      <4>1. ToCome' \in Nat /\ ToCome = ToCome' + 1
        BY <1>3, <1>5, <1>9
      <4>2. QED
        BY <4>1, CharTimes
    <3>3. left["timeout"] > Silence + SilenceTime(ToCome) /\ Silence \in Nat
      BY AnswerTypes DEF TurnInv, TimersInv
    <3>4. left["timeout"] \in Nat \cup {Off}
      BY <1>3 DEF Clocks
    <3>5. QED
      BY <1>3, <1>10, <3>1, <3>2, <3>3, <3>4
  <2>3. QED
    BY <1>2, <1>7, <1>10, <2>1, <2>2 DEF TurnInv, TimersInv, Armed, SilenceTime
<1>15. AnswerTimes'
  <2> SUFFICES ASSUME Answering' PROVE AnswerTimes'
    BY DEF AnswerTimes
  <2>1. AnswerTimes
    BY <1>4 DEF TurnInv
  <2>2. PromptTimes => PromptTimes'
    <3>1. pc = "wait_rx" /\ Armed => First' < left'["silence"]
      BY <1>3, <1>10, <1>11
    <3>2. ~uif'["silence"]
      BY <1>3, <1>7 DEF Timers
    <3>3. QED
      BY <1>2, <1>7, <3>1, <3>2 DEF PromptTimes, Armed
  <2>3. LateTimes => LateTimes'
    <3>1. TimerGone \in Nat
      BY <1>3, <1>4, AnswerTypes, TurnTypes
      DEF TurnInv, TimerGone, Waiting, Clocks
    <3>2. LateTimes => pc = "wait_rx" /\ ~Armed /\ isr # "tim2"
      BY <1>5, <3>1 DEF LateTimes
    <3>3. QED
      BY <1>2, <1>7, <3>2 DEF LateTimes, Armed
  <2>4. left'["char"] <= CHAR /\ reply' # <<>> /\ First' >= 0
    BY <1>1, <1>3, <1>4, <1>10, <1>11 DEF Answering, Owed
  <2>5. QED
    BY <1>2, <1>4, <1>10, <1>11, <2>1, <2>2, <2>3, <2>4
    DEF AnswerTimes, Prompt, Late, CharTime
<1>16. Noticed' /\ OwnReply'
  <2>1. ~Answering' => rx_index' = ReplyLen
    BY <1>3, <1>5, <1>6, <1>7, <1>9
  <2>2. Prompt(delay[req.tid]) /\ pc = "wait_rx" => Armed
    BY <1>4 DEF TurnInv, AnswerTimes, PromptTimes
  <2>3. QED
    BY <1>2, <1>4, <1>7, <2>1, <2>2 DEF Noticed, OwnReply, Prompt, Armed
<1>17. QED
  BY <1>12, <1>13, <1>14, <1>15, <1>16 DEF TurnInv

-----------------------------------------------------------------------------
(* The theorems.                                                           *)

LEMMA NextTurn ==
  ASSUME Known, Orderly, OnTime', faults' = 0, [TimedNext]_timed_vars
  PROVE  TurnInv'
<1> USE DEF Known
<1>1. TurnInv
  OBVIOUS
<1>2. CASE UNCHANGED timed_vars \/ Quiet \/ TimedQueues
  <2>1. UNCHANGED TurnVars /\ left' = left
    BY <1>2 DEF TurnVars, timed_vars, vars, driver_vars, tx_vars, rx_vars,
       tim_vars, bus_vars, task_vars, local_vars, clock_vars, Quiet,
       TimedQueues, Submit, Collect
  <2>2. QED
    BY <1>1, <2>1, TurnFrame
<1>3. CASE Poll
  <2>1. /\ UNCHANGED TurnVars /\ pc = "poll_tx" /\ ~tx_done_flag
        /\ left' = [left EXCEPT !["task"] = Ticks(TICK)]
    BY <1>3 DEF Poll, TurnVars, vars, driver_vars, tx_vars, rx_vars, tim_vars,
       bus_vars, task_vars, local_vars
  <2>2. Ticks(TICK) <= TICK
    BY TurnTypes, TicksPositive
  <2>3. ~Answering
    BY <2>1 DEF TurnInv, Whose
  <2>4. left'["task"] <= TICK
        /\ \A c \in {"silence", "timeout", "char"} : left'[c] = left[c]
    BY <2>1, <2>2, TurnTypes DEF Clocks
  <2>5. QED
    BY <1>1, <2>1, <2>3, <2>4, TurnFrame
<1>4. CASE TimedTask
  BY <1>4, QuietTurn, PollTurn, StartTurn
<1>5. CASE TimedTimer
  BY <1>5, TimerTurn
<1>6. CASE TimedTxCplt
  BY <1>6, TxCpltTurn
<1>7. CASE TimedBus
  <2>1. faults = 0
    BY DEF Orderly
  <2>2. CASE SlaveStartsReply
    <3>1. reply = <<>> /\ reply' # <<>>
      BY <2>2, TypesUsed, ReplyFrameNotEmpty DEF SlaveStartsReply
    <3>2. QED
      BY <1>7, <2>2, <3>1, ReplyBegins
  <2>3. CASE SlaveChar
    BY <1>7, <2>3, CharComes
  <2>4. ~SlaveCharDamaged /\ ~LineNoise
    BY <2>1 DEF SlaveCharDamaged, LineNoise
  <2>5. QED
    BY <1>7, <2>2, <2>3, <2>4 DEF TimedBus
<1>8. CASE Elapse
  BY <1>8, ElapseTurn
<1>9. ~TimedError
  BY DEF Orderly, TimedError, UartError, UartLineError, TxDmaError,
     HAL_UART_ErrorCallback
<1>10. QED
  BY <1>2, <1>3, <1>4, <1>5, <1>6, <1>7, <1>8, <1>9 DEF TimedNext

\* What a slave chose stays chosen: a disorderly past is not forgotten.
LEMMA OrderlyStays ==
  ASSUME TypeOK, ClocksOK, Numbered, Calm => OnTime /\ SentOnce,
         [TimedNext]_timed_vars, Orderly'
  PROVE  Orderly
<1>1. faults = 0
  BY FaultsStay DEF Orderly
<1>2. ShortFrames
  BY DEF Orderly, ShortFrames
<1>3. CASE delay' = delay
  BY <1>1, <1>2, <1>3 DEF Orderly, Prompt, Late
<1>4. CASE TimedTxCplt
  <2>1. gState = "BUSY_TX" /\ OnTime /\ SentOnce
    BY <1>1, <1>2, <1>4 DEF TimedTxCplt, HAL_UART_TxCpltCallback, Calm
  <2>2. tx_frame.tid = req.tid /\ NotYetSent
    BY <2>1 DEF OnTime, SentOnce, NotYetSent, MbapOf
  <2>3. \A t \in Tids : delay'[t] = delay[t] \/ delay[t] = Off
    <3>1. delay \in [Tids -> Delays \cup {Off}]
      BY ClocksOKGroups DEF ClockTypes
    <3>2. \A t \in Tids : t = req.tid => delay[t] = Off
      BY <2>1, <2>2 DEF SentOnce
    <3>3. QED
      BY <1>4, <2>2, <3>1, <3>2 DEF TimedTxCplt
  <2>4. \A t \in Tids :
          delay'[t] = Off \/ Prompt(delay'[t]) \/ Late(delay'[t])
    BY DEF Orderly, Prompt, Late
  <2>5. QED
    BY <1>1, <1>2, <2>3, <2>4 DEF Orderly
<1>5. QED
  BY <1>3, <1>4
  DEF TimedNext, timed_vars, clock_vars, TimedTask, Poll, TimedQueues,
      TimedTimer, TimedBus, TimedError, Elapse, Quiet

LEMMA TurnInvariant ==
  TimedSpec => [](TypeOK /\ ClocksOK /\ Numbered /\ AnswerInv
                  /\ (Orderly => OnTime /\ TurnInv))
<1> DEFINE S == /\ TypeOK /\ ClocksOK /\ Numbered /\ AlarmInv
                /\ Calm => OnTime /\ SentOnce
           E == TimersOnlyInWindow /\ NoLostWakeup /\ AnswerInv
           T == Orderly => TurnInv
<1>1. TimedSpec => []S
  BY SentOnceInvariant, PTL
<1>2. Spec => []AnswerInv
  BY InitAnswer, NextAnswer, TypeCorrect, PTL DEF Spec
<1>3. TimedSpec => []E
  BY <1>2, TimedImplementsEngine, TimersQuietOutsideWindow, WakeupNotLost, PTL
<1>4. TimedInit => T
  <2> SUFFICES ASSUME TimedInit PROVE TurnInv
    OBVIOUS
  <2>1. /\ pc = "receive" /\ reply = <<>> /\ rx_frame_semaphore = 0
        /\ running = [t \in Timers |-> FALSE] /\ isr = "none"
        /\ uif = [t \in Timers |-> FALSE]
        /\ \A t \in Tids : due[t] = Off
    BY DEF TimedInit, Init, DriverInit
  <2>2. ~Answering /\ Len(reply) = 0
    BY <2>1 DEF Answering, Owed
  <2>3. Whose
    BY <2>1, <2>2, DriverAssumption DEF Whose
  <2>4. Received
    BY <2>1 DEF Received, Cleared, RxPhase
  <2>5. TimersInv
    BY <2>1 DEF TimersInv, Armed, Timers
  <2>6. AnswerTimes /\ Noticed /\ OwnReply
    BY <2>1, <2>2 DEF AnswerTimes, Noticed, OwnReply
  <2>7. QED
    BY <2>3, <2>4, <2>5, <2>6 DEF TurnInv
<1>5. S /\ E /\ S' /\ T /\ [TimedNext]_timed_vars => T'
  <2> SUFFICES ASSUME S, E, S', T, [TimedNext]_timed_vars, Orderly'
               PROVE  TurnInv'
    OBVIOUS
  <2>1. Orderly
    BY OrderlyStays
  <2>2. Calm /\ Calm' /\ faults' = 0
    BY <2>1 DEF Orderly, Calm, ShortFrames
  <2>3. QED
    BY <2>1, <2>2, NextTurn DEF Known
<1>6. S /\ T => (Orderly => OnTime /\ TurnInv)
  BY DEF Orderly, Calm
<1>7. QED
  BY <1>1, <1>3, <1>4, <1>5, <1>6, PTL DEF TimedSpec

\* A prompt reply is heard, whenever the polling loop got to start the timers
\* and whichever of its characters TIM2 could have cut it after.
THEOREM PromptSlaveHeard == TimedSpec => []PromptSlaveIsHeard
<1>1. TypeOK /\ ClocksOK /\ Numbered /\ (Orderly => OnTime /\ TurnInv)
        => PromptSlaveIsHeard
  BY DEF PromptSlaveIsHeard, TurnInv, Noticed
<1>2. QED
  BY <1>1, TurnInvariant, PTL

\* The bridge drives the bus only before its request has reached the slave,
\* and a slave is sending only after that and before the task's wait is over.
THEOREM NoBusContention == TimedSpec => []NoContention
<1>1. Orderly /\ TurnInv => ~(de /\ reply # <<>>)
  BY DEF TurnInv, Whose, Answering
<1>2. (Orderly => OnTime /\ TurnInv) => NoContention
  BY <1>1 DEF NoContention
<1>3. QED
  BY <1>2, TurnInvariant, PTL

\* The bridge compares only the unit id; that the reply belongs to the request
\* follows from whose turn it is.
THEOREM RepliesBelong == TimedSpec => []ReplyBelongsToRequest
<1>1. (Orderly => OnTime /\ TurnInv) => ReplyBelongsToRequest
  BY DEF ReplyBelongsToRequest, TurnInv, OwnReply
<1>2. QED
  BY <1>1, TurnInvariant, PTL
=============================================================================

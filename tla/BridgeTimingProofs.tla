------------------------- MODULE BridgeTimingProofs -------------------------
(***************************************************************************)
(* Theorems about BridgeTiming, for every value of its constants: every    *)
(* timed behaviour is one of BridgeEngine, so that what is proved of the   *)
(* engine holds in real time too; a request holds the bridge no longer     *)
(* than the sum of the waits; and short frames are given up only when the  *)
(* DMA failed them.                                                        *)
(***************************************************************************)
EXTENDS BridgeTiming, BridgeEngineProofs

USE DEF Off, Never, hist_clocks

\* What is added to BridgeEngine only says when its steps happen.
LEMMA TimedStep == [TimedNext]_timed_vars => [Next]_vars
<1> SUFFICES ASSUME [TimedNext]_timed_vars PROVE [Next]_vars
  OBVIOUS
<1>1. CASE UNCHANGED timed_vars
  BY <1>1 DEF timed_vars
<1>2. CASE TimedTask
  BY <1>2 DEF TimedTask, Next
<1>3. CASE Poll \/ Elapse \/ Quiet
  BY <1>3 DEF Poll, Elapse, Quiet
<1>4. CASE TimedQueues
  BY <1>4 DEF TimedQueues, Next
<1>5. CASE TimedTimer \/ TimedTxCplt
  BY <1>5 DEF TimedTimer, TimedTxCplt, Isr, Next
<1>6. CASE TimedBus
  BY <1>6 DEF TimedBus, Bus, Next
<1>7. CASE TimedError
  BY <1>7 DEF TimedError, Next
<1>8. QED
  BY <1>1, <1>2, <1>3, <1>4, <1>5, <1>6, <1>7 DEF TimedNext

\* The timed model implements the untimed one: each theorem about BridgeEngine
\* (types, bus direction, wake-ups, replies, Gateway) holds of it.
THEOREM TimedImplementsEngine == TimedSpec => Spec
<1>1. TimedInit => Init
  BY DEF TimedInit
<1>2. QED
  BY <1>1, TimedStep, PTL DEF TimedSpec, Spec

LEMMA TimedTypes == TimedSpec => []TypeOK
BY TimedImplementsEngine, TypeCorrect, PTL

-----------------------------------------------------------------------------
(* The clocks.                                                             *)

\* Where the task waits with a timeout.
Waiting == {"poll_tx", "wait_rx", "guard"} \cup SendPlaces

\* What a step of the task does to what the clocks time.
LEMMA TaskEffects ==
  ASSUME Task
  PROVE  /\ UNCHANGED <<reply, faults>>
         /\ pc = "start_rx" =>
              /\ running' = [t \in Timers |-> TRUE]
              /\ uif' = [t \in Timers |-> FALSE]
         /\ pc = "stop_rx" =>
              running' = [t \in Timers |-> FALSE] /\ uif' = uif
         /\ pc \notin {"start_rx", "stop_rx"} => UNCHANGED <<running, uif>>
         /\ pc = "hal_tx" <=> pc' = "poll_tx"
         /\ gState' = IF pc = "hal_tx" THEN "BUSY_TX" ELSE gState
<1>1. CASE Dequeue \/ Drain \/ ClearFlags \/ ClearBuffer
  BY <1>1 DEF Dequeue, Drain, ClearFlags, ClearBuffer, Step, tim_vars,
              bus_vars, flt_vars, tx_vars
<1>2. CASE ArmTx \/ TransmitMode \/ StartDma
  BY <1>2 DEF ArmTx, TransmitMode, StartDma, HalTransmitDma, Step, tim_vars,
              bus_vars, flt_vars
<1>3. CASE TxComplete \/ TxTimeout \/ StartRx \/ WaitTake \/ WaitTimeout
           \/ StopRx
  BY <1>3 DEF TxComplete, TxTimeout, StartRx, WaitTake, WaitTimeout, StopRx,
              Move, Step, driver_vars, tim_vars, bus_vars, flt_vars, tx_vars,
              rs485_start_rx_timeout, rs485_stop_rx_timeout
<1>4. CASE CheckTimeout \/ CheckNoTimeout \/ CheckSpurious \/ CheckFrame
           \/ ReadLen
  BY <1>4 DEF CheckTimeout, CheckNoTimeout, CheckSpurious, CheckFrame,
              ReadLen, Move, Step, driver_vars, tim_vars, bus_vars, flt_vars,
              tx_vars
<1>5. CASE CheckLen \/ CheckCrcBad \/ CheckCrcGood \/ CheckUnitBad
           \/ CheckUnitGood \/ BuildResponse
  BY <1>5 DEF CheckLen, CheckCrcBad, CheckCrcGood, CheckUnitBad,
              CheckUnitGood, BuildResponse, RejectFrame, Move, Step,
              driver_vars, tim_vars, bus_vars, flt_vars, tx_vars
<1>6. CASE SendReject \/ SendFail \/ SendTxTimeout \/ SendOk \/ Guard
  BY <1>6 DEF SendReject, SendFail, SendTxTimeout, SendOk, Guard, Send, Move,
              Step, driver_vars, tim_vars, bus_vars, flt_vars, tx_vars
<1>7. QED
  BY <1>1, <1>2, <1>3, <1>4, <1>5, <1>6 DEF Task

\* Types of the clocks; and which of them run, as in ClocksOK.
ClockTypes ==
  /\ left \in [Clocks -> Nat \cup {Off}] /\ phase \in 0 .. TICK - 1
  /\ due \in [Tids -> Nat \cup {Off}] /\ delay \in [Tids -> Delays \cup {Off}]
  /\ service \in Nat /\ tx_failed \in BOOLEAN
BusClocks ==
  /\ left["tx"] # Off <=> gState = "BUSY_TX"
  /\ left["char"] # Off <=> reply # <<>>
TimerClocks == \A t \in Timers : left[t] # Off <=> running[t] /\ ~uif[t]
TaskClocksOK ==
  /\ left["task"] # Off <=> pc \in Waiting
  /\ left["tx_limit"] # Off <=> pc = "poll_tx"

LEMMA ClocksOKGroups ==
  ClocksOK <=> ClockTypes /\ BusClocks /\ TimerClocks /\ TaskClocksOK
BY Zenon DEF ClocksOK, ClockTypes, BusClocks, TimerClocks, TaskClocksOK, Waiting

\* A wait that begins inside a tick has some time to go (xTaskGetTickCount).
LEMMA TicksPositive ==
  ASSUME NEW w \in {TX_LIMIT, RX_WAIT, SEND_WAIT, GUARD, TICK},
         phase \in 0 .. TICK - 1
  PROVE  Ticks(w) \in Nat /\ Ticks(w) > 0 /\ Ticks(w) <= w
BY TimingAssumption DEF Ticks

\* The waits of the task, by place.
LEMMA WaitAtValues ==
  ASSUME NEW place, phase \in 0 .. TICK - 1
  PROVE  /\ WaitAt(place) \in Nat \cup {Off}
         /\ WaitAt(place) # Off <=> place \in Waiting
<1>1. CASE place = "poll_tx"
  <2>1. WaitAt(place) = 0
    BY <1>1 DEF WaitAt, SendPlaces
  <2>2. QED
    BY <1>1, <2>1 DEF Waiting
<1>2. CASE place = "wait_rx"
  <2>1. WaitAt(place) = Ticks(RX_WAIT)
    BY <1>2 DEF WaitAt, SendPlaces
  <2>2. QED
    BY <1>2, <2>1, TicksPositive DEF Waiting
<1>3. CASE place = "guard"
  <2>1. WaitAt(place) = Ticks(GUARD)
    BY <1>3 DEF WaitAt, SendPlaces
  <2>2. QED
    BY <1>3, <2>1, TicksPositive DEF Waiting
<1>4. CASE place \in SendPlaces
  <2>1. WaitAt(place) = Ticks(SEND_WAIT)
    BY <1>4 DEF WaitAt, SendPlaces
  <2>2. QED
    BY <1>4, <2>1, TicksPositive DEF Waiting
<1>5. CASE place \notin Waiting
  <2>1. WaitAt(place) = Off
    BY <1>5 DEF WaitAt, Waiting
  <2>2. QED
    BY <1>5, <2>1
<1>6. QED
  BY <1>1, <1>2, <1>3, <1>4, <1>5 DEF Waiting

\* A frame is on the line for some time (its length is that of RtuTxLen).
LEMMA FrameTimeType ==
  ASSUME NEW n \in ForwardedLen
  PROVE  FrameTime(n) \in Nat
<1>1. RtuTxLen(n) \in Nat
  BY DEF RtuTxLen, PduLen, ForwardedLen, MODBUS_MBAP_HEADER_SIZE,
         MODBUS_TCP_MAX_ADU_SIZE
<1>2. \A a, b \in Nat : a * b \in Nat
  OBVIOUS
<1>3. QED
  BY <1>1, <1>2, TimingAssumption DEF FrameTime

\* A reply has characters.
LEMMA ReplyFrameNotEmpty ==
  ASSUME NEW q \in Target PROVE ReplyFrame(q) # <<>>
<1>1. Len(ReplyFrame(q)) = ReplyLen
  BY DriverAssumption DEF ReplyFrame
<1>2. QED
  BY <1>1, DriverAssumption

LEMMA PeriodType ==
  ASSUME NEW t \in Timers PROVE Period(t) \in Nat
BY TimingAssumption DEF Period, Timers

\* What TypeOK says of the variables that the clocks depend on.
LEMMA TypesUsed ==
  ASSUME TypeOK
  PROVE  /\ gState \in {"READY", "BUSY_TX"} /\ rxne \in BOOLEAN
         /\ rxneie \in BOOLEAN /\ tx_done_flag \in BOOLEAN
         /\ running \in [Timers -> BOOLEAN] /\ uif \in [Timers -> BOOLEAN]
         /\ heard \in SUBSET Target
         /\ faults \in Nat
         /\ req.frame_len \in ForwardedLen
<1>1. /\ gState \in {"READY", "BUSY_TX"} /\ rxne \in BOOLEAN
      /\ rxneie \in BOOLEAN /\ tx_done_flag \in BOOLEAN
  BY Zenon DEF TypeOK, DriverTypeOK, TxTypeOK
<1>2. /\ running \in [Timers -> BOOLEAN] /\ uif \in [Timers -> BOOLEAN]
      /\ heard \in SUBSET Target
  BY Zenon DEF TypeOK, DriverTypeOK, TimTypeOK, BusTypeOK
<1>3. faults \in Nat
  BY DriverAssumption DEF TypeOK, DriverTypeOK, FltTypeOK
<1>4. req \in Request
  BY Zenon DEF TypeOK, LocalTypeOK
<1>5. QED
  BY <1>1, <1>2, <1>3, <1>4 DEF Request

\* A step of the task starts and stops the clocks of what it begins and ends.
LEMMA TaskKeepsClocks ==
  ASSUME TypeOK, ClocksOK, TimedTask
  PROVE  ClocksOK'
<1>1. Task /\ TaskClocks /\ UNCHANGED <<phase, due, delay>>
  BY DEF TimedTask
<1>2. ClockTypes /\ BusClocks /\ TimerClocks /\ TaskClocksOK
  BY ClocksOKGroups
<1>3. phase \in 0 .. TICK - 1
  BY <1>2 DEF ClockTypes
<1>4. left'["task"] = WaitAt(pc') /\ left'["char"] = left["char"]
  BY <1>1 DEF TaskClocks, Clocks, Timers
<1>5. left'["tx_limit"] = IF pc = "hal_tx" THEN Ticks(TX_LIMIT) ELSE Off
  BY <1>1 DEF TaskClocks, Clocks, Timers
<1>6. left'["tx"] = IF pc = "hal_tx" /\ gState = "READY"
                    THEN FrameTime(req.frame_len) ELSE left["tx"]
  BY <1>1 DEF TaskClocks, Clocks, Timers
<1>7. \A t \in Timers :
        left'[t] = IF pc = "start_rx" THEN Period(t)
                   ELSE IF pc = "stop_rx" THEN Off ELSE left[t]
  BY <1>1 DEF TaskClocks, Clocks, Timers
<1>8. FrameTime(req.frame_len) \in Nat
  BY TypesUsed, FrameTimeType
<1>9. WaitAt(pc') \in Nat \cup {Off} /\ (WaitAt(pc') # Off <=> pc' \in Waiting)
  BY <1>3, WaitAtValues
<1>10. Ticks(TX_LIMIT) \in Nat
  BY <1>3, TicksPositive
<1>11. /\ left["tx"] \in Nat \cup {Off} /\ left["char"] \in Nat \cup {Off}
       /\ \A t \in Timers : left[t] \in Nat \cup {Off}
  BY <1>2 DEF ClockTypes, Clocks, Timers
<1>12. ClockTypes'
  <2>1. \A c \in Clocks : left'[c] \in Nat \cup {Off}
    <3>1. \A t \in Timers : left'[t] \in Nat \cup {Off}
      BY <1>7, <1>11, PeriodType
    <3>2. /\ left'["task"] \in Nat \cup {Off}
          /\ left'["tx_limit"] \in Nat \cup {Off}
          /\ left'["tx"] \in Nat \cup {Off}
          /\ left'["char"] \in Nat \cup {Off}
      BY <1>4, <1>5, <1>6, <1>8, <1>9, <1>10, <1>11
    <3>3. QED
      BY <3>1, <3>2 DEF Clocks, Timers
  <2>2. left' \in [Clocks -> Nat \cup {Off}]
    BY <1>1, <2>1 DEF TaskClocks
  <2>3. service' \in Nat /\ tx_failed' \in BOOLEAN
    BY <1>2 DEF ClockTypes, TimedTask
  <2>4. QED
    BY <1>1, <1>2, <2>2, <2>3 DEF ClockTypes
<1>13. BusClocks'
  BY <1>1, <1>2, <1>4, <1>6, <1>8, TaskEffects, TypesUsed DEF BusClocks
<1>14. TimerClocks'
  <2>1. CASE pc = "start_rx"
    BY <2>1, <1>1, <1>7, TaskEffects, PeriodType DEF TimerClocks
  <2>2. CASE pc = "stop_rx"
    BY <2>2, <1>1, <1>7, TaskEffects DEF TimerClocks
  <2>3. CASE pc \notin {"start_rx", "stop_rx"}
    BY <2>3, <1>1, <1>2, <1>7, TaskEffects DEF TimerClocks
  <2>4. QED
    BY <2>1, <2>2, <2>3
<1>15. TaskClocksOK'
  <2>1. pc = "hal_tx" <=> pc' = "poll_tx"
    BY <1>1, TaskEffects
  <2>2. QED
    BY <1>4, <1>5, <1>9, <1>10, <2>1 DEF TaskClocksOK
<1>16. QED
  BY <1>12, <1>13, <1>14, <1>15, ClocksOKGroups, PTL

\* The polling loop's next look, and the queues (tcp_server.c).
LEMMA PollAndQueuesKeepClocks ==
  ASSUME ClocksOK, Poll \/ TimedQueues
  PROVE  ClocksOK'
<1>1. ClockTypes /\ BusClocks /\ TimerClocks /\ TaskClocksOK
  BY ClocksOKGroups
<1>2. CASE Poll
  <2>1. Ticks(TICK) \in Nat
    BY <1>1, TicksPositive DEF ClockTypes
  <2>2. ClockTypes'
    BY <1>1, <1>2, <2>1 DEF ClockTypes, Poll, Clocks
  <2>3. BusClocks' /\ TimerClocks'
    BY <1>1, <1>2 DEF BusClocks, TimerClocks, ClockTypes, Clocks, Timers, Poll,
       vars, driver_vars, tx_vars, bus_vars, tim_vars
  <2>4. TaskClocksOK'
    BY <1>1, <1>2, <2>1 DEF TaskClocksOK, ClockTypes, Clocks, Poll, vars, Waiting
  <2>5. QED
    BY <2>2, <2>3, <2>4, ClocksOKGroups, PTL
<1>3. CASE TimedQueues
  <2>1. UNCHANGED <<clock_vars, driver_vars, pc>>
    BY <1>3 DEF TimedQueues, Submit, Collect
  <2>2. QED
    BY <2>1 DEF ClocksOK, clock_vars, driver_vars, tx_vars, bus_vars,
       tim_vars
<1>4. QED
  BY <1>2, <1>3

\* The handlers of TIM2 and TIM3.
LEMMA TimersKeepClocks ==
  ASSUME TypeOK, ClocksOK, TimedTimer
  PROVE  ClocksOK'
<1>1. ClockTypes /\ BusClocks /\ TimerClocks /\ TaskClocksOK
  BY ClocksOKGroups
<1>2. UNCHANGED <<gState, reply, pc, phase, due, delay, service, tx_failed>>
  BY DEF TimedTimer, TimerUpdate, Tim2IsrEnter, Tim2IsrSignal,
         rs485_tim3_period_elapsed_isr, tx_vars, bus_vars
<1>3. \A c \in Clocks \ Timers : left'[c] = left[c]
  BY <1>1 DEF TimedTimer, ClockTypes, Clocks, Timers, Stopped
<1>4. ClockTypes'
  <2>1. left' \in [Clocks -> Nat \cup {Off}]
    BY <1>1 DEF TimedTimer, ClockTypes, Clocks, Timers, Stopped
  <2>2. QED
    BY <1>1, <1>2, <2>1 DEF ClockTypes
<1>5. BusClocks' /\ TaskClocksOK'
  BY <1>1, <1>2, <1>3 DEF BusClocks, TaskClocksOK, Clocks, Timers
<1>6. TimerClocks'
  <2>1. ASSUME NEW t \in Timers, TimerUpdate(t),
               left' = [left EXCEPT ![t] = Off]
        PROVE  TimerClocks'
    BY <1>1, <2>1, TypesUsed DEF TimerClocks, ClockTypes, Clocks, Timers, TimerUpdate
  <2>2. ASSUME Tim2IsrEnter \/ rs485_tim3_period_elapsed_isr, left' = Stopped
        PROVE  TimerClocks'
    BY <1>1, <2>2, TypesUsed DEF TimerClocks, ClockTypes, Clocks, Timers, Stopped,
       Tim2IsrEnter, rs485_tim3_period_elapsed_isr, rs485_stop_rx_timeout
  <2>3. ASSUME Tim2IsrSignal, left' = left
        PROVE  TimerClocks'
    BY <1>1, <2>3 DEF TimerClocks, Tim2IsrSignal
  <2>4. QED
    BY <2>1, <2>2, <2>3 DEF TimedTimer
<1>7. QED
  BY <1>4, <1>5, <1>6, ClocksOKGroups, PTL

\* What rs485_uart_rx_isr does to TIM2 keeps its clock right.
LEMMA RestartKeepsTimers ==
  ASSUME TypeOK, ClockTypes, TimerClocks,
         NEW l \in [Clocks -> Nat \cup {Off}],
         \A t \in Timers : l[t] = left[t],
         left' = Restarted(l), running' = running,
         uif' = [uif EXCEPT !["silence"] = FALSE]
  PROVE  /\ left' \in [Clocks -> Nat \cup {Off}] /\ TimerClocks'
         /\ \A c \in Clocks \ Timers : left'[c] = l[c]
<1>1. Period("silence") \in Nat
  BY PeriodType DEF Timers
<1>2. left' \in [Clocks -> Nat \cup {Off}]
  BY <1>1 DEF Restarted, Clocks
<1>3. \A c \in Clocks \ Timers : left'[c] = l[c]
  BY DEF Restarted, Clocks, Timers
<1>4. TimerClocks'
  BY <1>1, TypesUsed DEF Restarted, Clocks, Timers, TimerClocks
<1>5. QED
  BY <1>2, <1>3, <1>4

\* The end of a frame, with or without a stray character in the receiver.
LEMMA TxCpltKeepsClocks ==
  ASSUME TypeOK, ClocksOK, TimedTxCplt
  PROVE  ClocksOK'
<1> DEFINE l == [left EXCEPT !["tx"] = Off]
<1>1. ClockTypes /\ BusClocks /\ TimerClocks /\ TaskClocksOK
  BY ClocksOKGroups
<1>2. /\ UNCHANGED <<pc, phase, service, tx_failed, reply>> /\ gState' = "READY"
      /\ left' = IF rxne THEN Restarted(l) ELSE l
  BY DEF TimedTxCplt, HAL_UART_TxCpltCallback
<1>3. /\ rxne => /\ running' = running
                 /\ uif' = [uif EXCEPT !["silence"] = FALSE]
      /\ ~rxne => running' = running /\ uif' = uif
  BY DEF TimedTxCplt, HAL_UART_TxCpltCallback, rs485_uart_rx_isr, tim_vars
<1>4. /\ l \in [Clocks -> Nat \cup {Off}] /\ l["tx"] = Off
      /\ \A c \in Clocks \ {"tx"} : l[c] = left[c]
      /\ \A t \in Timers : l[t] = left[t]
  BY <1>1 DEF ClockTypes, Clocks, Timers
<1>5. rxne \in BOOLEAN
  BY TypesUsed
<1>6. /\ left' \in [Clocks -> Nat \cup {Off}] /\ TimerClocks'
      /\ \A c \in Clocks \ Timers : left'[c] = l[c]
  <2>1. CASE rxne
    BY <2>1, <1>1, <1>2, <1>3, <1>4, RestartKeepsTimers
  <2>2. CASE ~rxne
    BY <2>2, <1>1, <1>2, <1>3, <1>4 DEF TimerClocks
  <2>3. QED
    BY <2>1, <2>2
<1>7. /\ due' \in [Tids -> Nat \cup {Off}]
      /\ delay' \in [Tids -> Delays \cup {Off}]
  BY <1>1, TimingAssumption DEF TimedTxCplt, ClockTypes
<1>8. ClockTypes'
  BY <1>1, <1>2, <1>6, <1>7 DEF ClockTypes
<1>9. BusClocks' /\ TaskClocksOK'
  BY <1>1, <1>2, <1>4, <1>6 DEF BusClocks, TaskClocksOK, Clocks, Timers
<1>10. QED
  BY <1>6, <1>8, <1>9, ClocksOKGroups, PTL

\* A reply begins, a character of it ends, or noise comes.
LEMMA BusKeepsClocks ==
  ASSUME TypeOK, ClocksOK, TimedBus
  PROVE  ClocksOK'
<1>1. ClockTypes /\ BusClocks /\ TimerClocks /\ TaskClocksOK
  BY ClocksOKGroups
<1>2. UNCHANGED <<gState, pc, phase, delay, service, tx_failed>>
  BY DEF TimedBus, SlaveStartsReply, SlaveChar, SlaveCharDamaged, LineNoise, tx_vars
<1>3. rxneie \in BOOLEAN
  BY TypesUsed
<1>4. ASSUME SlaveStartsReply, left' = [left EXCEPT !["char"] = CHAR],
             \E t \in Tids : due' = [due EXCEPT ![t] = Off]
      PROVE  ClocksOK'
  <2>1. reply' # <<>>
    BY <1>4, TypesUsed, ReplyFrameNotEmpty DEF SlaveStartsReply
  <2>2. UNCHANGED <<running, uif>>
    BY <1>4 DEF SlaveStartsReply, tim_vars
  <2>3. ClockTypes'
    BY <1>1, <1>2, <1>4, TimingAssumption DEF ClockTypes, Clocks
  <2>4. BusClocks' /\ TimerClocks' /\ TaskClocksOK'
    BY <1>1, <1>2, <1>4, <2>1, <2>2, TimingAssumption
    DEF BusClocks, TimerClocks, TaskClocksOK, ClockTypes, Clocks, Timers
  <2>5. QED
    BY <2>3, <2>4, ClocksOKGroups, PTL
<1>5. ASSUME NEW l \in [Clocks -> Nat \cup {Off}],
             \A c \in Clocks \ {"char"} : l[c] = left[c],
             l["char"] # Off <=> reply' # <<>>,
             left' = IF rxneie THEN Restarted(l) ELSE l,
             running' = running,
             uif' = IF rxneie THEN [uif EXCEPT !["silence"] = FALSE] ELSE uif,
             due' = due
      PROVE  ClocksOK'
  <2>1. \A t \in Timers : l[t] = left[t]
    BY <1>5 DEF Clocks, Timers
  <2>2. /\ left' \in [Clocks -> Nat \cup {Off}] /\ TimerClocks'
        /\ \A c \in Clocks \ Timers : left'[c] = l[c]
    <3>1. CASE rxneie
      BY <3>1, <1>1, <1>5, <2>1, RestartKeepsTimers
    <3>2. CASE ~rxneie
      BY <3>2, <1>1, <1>5, <2>1 DEF TimerClocks
    <3>3. QED
      BY <1>3, <3>1, <3>2
  <2>3. ClockTypes'
    BY <1>1, <1>2, <1>5, <2>2 DEF ClockTypes
  <2>4. BusClocks' /\ TaskClocksOK'
    BY <1>1, <1>2, <1>5, <2>2 DEF BusClocks, TaskClocksOK, Clocks, Timers
  <2>5. QED
    BY <2>2, <2>3, <2>4, ClocksOKGroups, PTL
<1>6. ASSUME SlaveChar \/ SlaveCharDamaged, due' = due,
             LET l == [left EXCEPT !["char"] = IF reply' = <<>> THEN Off ELSE CHAR]
             IN  left' = IF rxneie THEN Restarted(l) ELSE l
      PROVE  ClocksOK'
  <2> DEFINE l == [left EXCEPT !["char"] = IF reply' = <<>> THEN Off ELSE CHAR]
  <2>1. /\ running' = running
        /\ uif' = IF rxneie THEN [uif EXCEPT !["silence"] = FALSE] ELSE uif
    BY <1>3, <1>6
    DEF SlaveChar, SlaveCharDamaged, rs485_uart_rx_isr, tim_vars
  <2>2. /\ l \in [Clocks -> Nat \cup {Off}]
        /\ \A c \in Clocks \ {"char"} : l[c] = left[c]
        /\ l["char"] # Off <=> reply' # <<>>
    BY <1>1, TimingAssumption DEF ClockTypes, Clocks
  <2>3. left' = IF rxneie THEN Restarted(l) ELSE l
    BY <1>6
  <2> HIDE DEF l
  <2>4. QED
    BY <1>5, <1>6, <2>1, <2>2, <2>3
<1>7. ASSUME LineNoise, due' = due,
             left' = IF rxneie THEN Restarted(left) ELSE left
      PROVE  ClocksOK'
  <2>1. /\ running' = running /\ reply' = reply
        /\ uif' = IF rxneie THEN [uif EXCEPT !["silence"] = FALSE] ELSE uif
    BY <1>3, <1>7 DEF LineNoise, rs485_uart_rx_isr, tim_vars, bus_vars
  <2>2. /\ left \in [Clocks -> Nat \cup {Off}]
        /\ left["char"] # Off <=> reply' # <<>>
    BY <1>1, <2>1 DEF ClockTypes, BusClocks
  <2>3. QED
    BY <1>5, <1>7, <2>1, <2>2
<1>8. QED
  BY <1>4, <1>6, <1>7 DEF TimedBus

\* A UART error stops no clock but that of a frame given up (HAL_UART_ErrorCallback).
LEMMA ErrorKeepsClocks ==
  ASSUME TypeOK, ClocksOK, TimedError
  PROVE  ClocksOK'
<1>1. ClockTypes /\ BusClocks /\ TimerClocks /\ TaskClocksOK
  BY ClocksOKGroups
<1>2. /\ UNCHANGED <<running, uif, reply, pc, phase, due, delay, service>>
      /\ gState' = gState \/ (gState = "BUSY_TX" /\ gState' = "READY")
      /\ left' = [left EXCEPT !["tx"] = IF gState' = "READY" THEN Off ELSE @]
  BY DEF TimedError, UartError, UartLineError, TxDmaError, tx_vars, tim_vars,
         bus_vars
<1>3. ClockTypes'
  <2>1. tx_failed' \in BOOLEAN
    BY DEF TimedError
  <2>2. QED
    BY <1>1, <1>2, <2>1 DEF ClockTypes, Clocks
<1>4. BusClocks'
  BY <1>1, <1>2, TypesUsed DEF BusClocks, ClockTypes, Clocks
<1>5. TimerClocks' /\ TaskClocksOK'
  BY <1>1, <1>2 DEF TimerClocks, TaskClocksOK, ClockTypes, Clocks, Timers
<1>6. QED
  BY <1>3, <1>4, <1>5, ClocksOKGroups, PTL

\* What the passing of time takes off a clock.
LEMMA LessType ==
  ASSUME NEW x \in Nat \cup {Off}, NEW d \in Nat, d > 0
  PROVE  /\ Less(x, d) \in Nat \cup {Off}
         /\ Less(x, d) # Off <=> x # Off
         /\ x # Off /\ x >= d => Less(x, d) = x - d
BY DEF Less

\* Time passes to the next event: no clock but tx_limit goes past 0.
LEMMA ElapseStep ==
  ASSUME ClocksOK, Elapse
  PROVE  \E d \in Nat :
           /\ d > 0
           /\ \A c \in Clocks : left'[c] = Less(left[c], d)
           /\ \A c \in Clocks \ {"tx_limit"} :
                left[c] # Off => d <= left[c] /\ left'[c] = left[c] - d
           /\ left' = [c \in Clocks |-> Left(c, d)]
           /\ due' = [t \in Tids |-> Less(due[t], d)]
           /\ phase' = (phase + d) % TICK
           /\ service' = IF pc \in {"receive", "guard"} THEN 0 ELSE service + d
           /\ UNCHANGED <<vars, delay, tx_failed>>
           /\ pc \in {"receive"} \cup Waiting
<1>1. ClockTypes
  BY ClocksOKGroups
<1>2. PICK d \in Events :
        /\ d > 0 /\ \A e \in Events : d <= e
        /\ left' = [c \in Clocks |-> Left(c, d)]
        /\ due' = [t \in Tids |-> Less(due[t], d)]
        /\ phase' = (phase + d) % TICK
        /\ service' = IF pc \in {"receive", "guard"} THEN 0 ELSE service + d
        /\ UNCHANGED <<vars, delay, tx_failed>>
  BY DEF Elapse
<1>3. d \in Nat
  BY <1>1, <1>2 DEF Events, ClockTypes
<1>4. \A c \in Clocks \ {"tx_limit"} : left[c] # Off => left[c] \in Events
  BY DEF Events
<1>5. ASSUME NEW c \in Clocks \ {"tx_limit"}, left[c] # Off
      PROVE  d <= left[c] /\ left'[c] = left[c] - d /\ Less(left[c], d) = left[c] - d
  <2>1. left[c] \in Nat /\ d <= left[c]
    BY <1>1, <1>2, <1>4, <1>5 DEF ClockTypes
  <2>2. left'[c] = left[c] - d
    BY <1>2, <1>5 DEF Left
  <2>3. QED
    BY <1>2, <1>3, <2>1, <2>2, LessType
<1>6. ASSUME NEW c \in Clocks PROVE left'[c] = Less(left[c], d)
  <2>1. CASE c = "tx_limit" \/ left[c] = Off
    BY <1>2, <2>1 DEF Left
  <2>2. CASE c # "tx_limit" /\ left[c] # Off
    BY <1>5, <2>2
  <2>3. QED
    BY <2>1, <2>2
<1>7. pc \in {"receive"} \cup Waiting
  BY DEF Elapse, Ready, Waiting
<1>8. QED
  BY <1>2, <1>3, <1>5, <1>6, <1>7

LEMMA TimeKeepsClocks ==
  ASSUME ClocksOK, Elapse \/ Quiet
  PROVE  ClocksOK'
<1>1. ClockTypes /\ BusClocks /\ TimerClocks /\ TaskClocksOK
  BY ClocksOKGroups
<1>2. UNCHANGED <<gState, reply, running, uif, pc, delay, tx_failed>>
  BY DEF Elapse, Quiet, vars, driver_vars, tx_vars, bus_vars, tim_vars
<1>3. CASE Quiet
  <2>1. UNCHANGED <<left, due, service>> /\ phase' \in Phases
    BY <1>3 DEF Quiet
  <2>2. QED
    BY <1>1, <1>2, <2>1, TimingAssumption DEF ClocksOK
<1>4. CASE Elapse
  <2>1. PICK d \in Nat :
          /\ d > 0 /\ \A c \in Clocks : left'[c] = Less(left[c], d)
          /\ left' = [c \in Clocks |-> Left(c, d)]
          /\ due' = [t \in Tids |-> Less(due[t], d)]
          /\ phase' = (phase + d) % TICK
          /\ service' = IF pc \in {"receive", "guard"} THEN 0 ELSE service + d
    BY <1>4, ElapseStep
  <2>3. \A c \in Clocks : /\ left'[c] \in Nat \cup {Off}
                          /\ left'[c] # Off <=> left[c] # Off
    BY <1>1, <2>1, LessType DEF ClockTypes
  <2>4. \A t \in Tids : due'[t] \in Nat \cup {Off}
    BY <1>1, <2>1, LessType DEF ClockTypes
  <2>5. phase' \in 0 .. TICK - 1
    BY <1>1, <2>1, TimingAssumption DEF ClockTypes
  <2>6. ClockTypes'
    BY <1>1, <1>2, <2>1, <2>3, <2>4, <2>5 DEF ClockTypes
  <2>7. BusClocks' /\ TimerClocks' /\ TaskClocksOK'
    BY <1>1, <1>2, <2>3 DEF BusClocks, TimerClocks, TaskClocksOK, Clocks, Timers
  <2>8. QED
    BY <2>6, <2>7, ClocksOKGroups, PTL
<1>5. QED
  BY <1>3, <1>4

\* Each clock runs exactly while what it times is going on, whatever the
\* order of handlers, task and bus; the theorems below rest on it.
LEMMA ClocksConsistent == TimedSpec => []ClocksOK
<1>1. TimedInit => ClocksOK
  <2> SUFFICES ASSUME TimedInit PROVE ClocksOK
    OBVIOUS
  <2>1. /\ gState = "READY" /\ reply = <<>> /\ pc = "receive"
        /\ running = [t \in Timers |-> FALSE]
    BY DEF TimedInit, Init, DriverInit
  <2>2. QED
    BY <2>1, TimingAssumption
    DEF TimedInit, ClocksOK, SendPlaces, Clocks, Timers, Tids
<1>2. TypeOK /\ ClocksOK /\ [TimedNext]_timed_vars => ClocksOK'
  <2> SUFFICES ASSUME TypeOK, ClocksOK, [TimedNext]_timed_vars PROVE ClocksOK'
    OBVIOUS
  <2>1. CASE UNCHANGED timed_vars
    BY <2>1 DEF timed_vars, clock_vars, vars, driver_vars, tx_vars,
       bus_vars, tim_vars, ClocksOK
  <2>2. CASE TimedNext
    BY <2>2, TaskKeepsClocks, PollAndQueuesKeepClocks, TimersKeepClocks,
       TxCpltKeepsClocks, BusKeepsClocks, ErrorKeepsClocks, TimeKeepsClocks
    DEF TimedNext
  <2>3. QED
    BY <2>1, <2>2
<1>3. QED
  BY <1>1, <1>2, TimedTypes, PTL DEF TimedSpec

-----------------------------------------------------------------------------
(* How long a request holds the bridge.                                    *)

Setup == {"drain", "clear", "memset", "arm", "tx_mode", "hal_tx"}
Examine == {"stop_rx", "check", "check_frame", "read", "crc", "unit", "build"}

\* The ways of the task through its loop (bridge_engine_task).
LEMMA TaskPlaces ==
  ASSUME Task
  PROVE  \/ pc = "receive" /\ pc' \in {"drain", "send_reject"}
         \/ pc \in Setup /\ pc' \in Setup \cup {"poll_tx"}
         \/ pc = "poll_tx" /\ pc' = "start_rx" /\ tx_done_flag
         \/ pc = "poll_tx" /\ pc' = "send_txto" /\ ~tx_done_flag
         \/ pc = "start_rx" /\ pc' = "wait_rx"
         \/ pc = "wait_rx" /\ pc' = "stop_rx"
         \/ pc \in Examine /\ pc' \in Examine \cup {"send_fail", "send_ok", "receive"}
         \/ pc \in SendPlaces /\ pc' \in {"receive", "guard"}
         \/ pc = "guard" /\ pc' = "receive"
<1>1. CASE Dequeue
  BY <1>1 DEF Dequeue
<1>2. CASE Drain \/ ClearFlags \/ ClearBuffer \/ ArmTx \/ TransmitMode
           \/ StartDma
  BY <1>2 DEF Drain, ClearFlags, ClearBuffer, ArmTx, TransmitMode, StartDma,
              Step, Setup
<1>3. CASE TxComplete \/ TxTimeout \/ StartRx \/ WaitTake \/ WaitTimeout
  BY <1>3 DEF TxComplete, TxTimeout, StartRx, WaitTake, WaitTimeout, Move, Step
<1>4. CASE StopRx \/ CheckTimeout \/ CheckNoTimeout \/ CheckSpurious
           \/ CheckFrame \/ ReadLen
  BY <1>4 DEF StopRx, CheckTimeout, CheckNoTimeout, CheckSpurious, CheckFrame,
              ReadLen, Move, Step, Examine
<1>5. CASE CheckLen \/ CheckCrcBad \/ CheckCrcGood \/ CheckUnitBad
           \/ CheckUnitGood \/ BuildResponse
  BY <1>5 DEF CheckLen, CheckCrcBad, CheckCrcGood, CheckUnitBad,
              CheckUnitGood, BuildResponse, Move, Step, Examine
<1>6. CASE SendReject \/ SendFail \/ SendTxTimeout \/ SendOk \/ Guard
  BY <1>6 DEF SendReject, SendFail, SendTxTimeout, SendOk, Guard, Send, Move,
              Step, SendPlaces
<1>7. QED
  BY <1>1, <1>2, <1>3, <1>4, <1>5, <1>6 DEF Task

\* Handlers, bus and queues leave the task where it is and its waits alone.
LEMMA OthersLeaveTask ==
  ASSUME ClockTypes,
         TimedQueues \/ TimedTimer \/ TimedTxCplt \/ TimedBus \/ TimedError
  PROVE  /\ UNCHANGED <<pc, service, phase>>
         /\ left'["task"] = left["task"] /\ left'["tx_limit"] = left["tx_limit"]
<1>1. CASE TimedQueues
  BY <1>1 DEF TimedQueues, Submit, Collect, clock_vars
<1>2. CASE TimedTimer
  BY <1>2 DEF TimedTimer, ClockTypes, Clocks, Timers, Stopped
<1>3. CASE TimedTxCplt
  BY <1>3 DEF TimedTxCplt, ClockTypes, Clocks, Restarted
<1>4. CASE TimedBus
  BY <1>4 DEF TimedBus, ClockTypes, Clocks, Restarted
<1>5. CASE TimedError
  BY <1>5 DEF TimedError, UartError, ClockTypes, Clocks
<1>6. QED
  BY <1>1, <1>2, <1>3, <1>4, <1>5

\* Service so far and the wait to come, place by place.  In the polling loop
\* the limit is tested once a tick, so that it is overshot by one at most.
ServiceInv ==
  /\ pc \in {"receive", "guard"} \cup Setup => service = 0
  /\ pc = "poll_tx" =>
       /\ left["tx_limit"] > 0 => service + left["tx_limit"] <= TX_LIMIT
       /\ service + left["task"] <= TX_LIMIT + TICK
  /\ pc = "start_rx" => service <= TX_LIMIT + TICK
  /\ pc = "wait_rx" => service + left["task"] <= TX_LIMIT + TICK + RX_WAIT
  /\ pc \in Examine => service <= TX_LIMIT + TICK + RX_WAIT
  /\ pc \in SendPlaces => service + left["task"] <= MAX_SERVICE

LEMMA TaskKeepsService ==
  ASSUME ClocksOK, ServiceInv, TimedTask
  PROVE  ServiceInv'
<1>1. ClockTypes /\ TaskClocksOK
  BY ClocksOKGroups
<1>2. /\ Task /\ left'["task"] = WaitAt(pc')
      /\ left'["tx_limit"] = IF pc = "hal_tx" THEN Ticks(TX_LIMIT) ELSE Off
      /\ service' = IF pc' \in {"receive", "guard"} THEN 0 ELSE service
  BY DEF TimedTask, TaskClocks, Clocks, Timers
<1>3. /\ service \in Nat /\ phase \in 0 .. TICK - 1
      /\ pc \in Waiting => left["task"] \in Nat
  BY <1>1 DEF ClockTypes, TaskClocksOK, Clocks
<1>4. /\ pc' = "poll_tx" => left'["task"] = 0
      /\ pc' = "wait_rx" => left'["task"] <= RX_WAIT /\ left'["task"] \in Nat
      /\ pc' \in SendPlaces => left'["task"] <= SEND_WAIT /\ left'["task"] \in Nat
  <2>1. CASE pc' = "poll_tx"
    BY <2>1, <1>2 DEF WaitAt, SendPlaces
  <2>2. CASE pc' = "wait_rx"
    BY <2>2, <1>2, <1>3, TicksPositive DEF WaitAt, SendPlaces
  <2>3. CASE pc' \in SendPlaces
    <3>1. left'["task"] = Ticks(SEND_WAIT)
      BY <2>3, <1>2 DEF WaitAt, SendPlaces
    <3>2. QED
      BY <2>3, <3>1, <1>3, TicksPositive DEF SendPlaces
  <2>4. QED
    BY <2>1, <2>2, <2>3
<1>5. Ticks(TX_LIMIT) \in Nat /\ Ticks(TX_LIMIT) <= TX_LIMIT
  BY <1>3, TicksPositive
<1>6. pc = "hal_tx" <=> pc' = "poll_tx"
  BY <1>2, TaskEffects
<1>7. TX_LIMIT \in Nat /\ TICK \in Nat /\ RX_WAIT \in Nat /\ SEND_WAIT \in Nat
  BY TimingAssumption
<1>8. CASE pc \in {"receive", "guard"} \cup Setup
  BY <1>8, <1>2, <1>3, <1>4, <1>5, <1>6, <1>7, TaskPlaces
  DEF ServiceInv, Setup, Examine, SendPlaces, MAX_SERVICE
<1>9. CASE pc \in {"poll_tx", "start_rx", "wait_rx"}
  BY <1>9, <1>2, <1>3, <1>4, <1>6, <1>7, TaskPlaces
  DEF ServiceInv, Setup, Examine, SendPlaces, MAX_SERVICE, Waiting
<1>10. CASE pc \in Examine
  BY <1>10, <1>2, <1>3, <1>4, <1>6, <1>7, TaskPlaces
  DEF ServiceInv, Setup, Examine, SendPlaces, MAX_SERVICE
<1>11. CASE pc \in SendPlaces
  BY <1>11, <1>2, <1>6, TaskPlaces
  DEF ServiceInv, Setup, Examine, SendPlaces
<1>12. QED
  BY <1>2, <1>8, <1>9, <1>10, <1>11, TaskPlaces

LEMMA TimeKeepsService ==
  ASSUME ClocksOK, ServiceInv, Poll \/ Elapse \/ Quiet
  PROVE  ServiceInv'
<1>1. ClockTypes /\ TaskClocksOK
  BY ClocksOKGroups
<1>2. /\ service \in Nat /\ phase \in 0 .. TICK - 1
      /\ pc \in Waiting => left["task"] \in Nat
      /\ pc = "poll_tx" => left["tx_limit"] \in Nat
  BY <1>1 DEF ClockTypes, TaskClocksOK, Clocks
<1>3. CASE Poll
  <2>1. /\ pc = "poll_tx" /\ pc' = pc /\ service' = service
        /\ left["tx_limit"] > 0 /\ left'["tx_limit"] = left["tx_limit"]
        /\ left'["task"] = Ticks(TICK)
    BY <1>1, <1>3 DEF Poll, vars, ClockTypes, Clocks
  <2>2. Ticks(TICK) \in Nat /\ Ticks(TICK) <= TICK
    BY <1>2, TicksPositive
  <2>3. QED
    BY <1>2, <2>1, <2>2, TimingAssumption
    DEF ServiceInv, Setup, Examine, SendPlaces
<1>4. CASE Quiet
  BY <1>4 DEF Quiet, vars, ServiceInv
<1>5. CASE Elapse
  <2>1. PICK d \in Nat :
          /\ d > 0
          /\ \A c \in Clocks : left'[c] = Less(left[c], d)
          /\ \A c \in Clocks \ {"tx_limit"} :
               left[c] # Off => d <= left[c] /\ left'[c] = left[c] - d
          /\ service' = IF pc \in {"receive", "guard"} THEN 0 ELSE service + d
          /\ UNCHANGED vars
          /\ pc \in {"receive"} \cup Waiting
    BY <1>5, ElapseStep
  <2>2. pc' = pc
    BY <2>1 DEF vars
  <2>3. pc \in Waiting => d <= left["task"] /\ left'["task"] = left["task"] - d
    BY <1>2, <2>1 DEF Clocks
  <2>4. left'["tx_limit"] = Less(left["tx_limit"], d)
    BY <2>1 DEF Clocks
  <2>5. CASE pc \in {"receive", "guard"}
    BY <2>1, <2>2, <2>5 DEF ServiceInv, Setup, Examine, SendPlaces
  <2>6. CASE pc = "poll_tx"
    BY <1>2, <2>1, <2>2, <2>3, <2>4, <2>6, TimingAssumption
    DEF ServiceInv, Setup, Examine, SendPlaces, Waiting, Less
  <2>7. CASE pc = "wait_rx"
    BY <1>2, <2>1, <2>2, <2>3, <2>7
    DEF ServiceInv, Setup, Examine, SendPlaces, Waiting
  <2>8. CASE pc \in SendPlaces
    BY <1>2, <2>1, <2>2, <2>3, <2>8
    DEF ServiceInv, Setup, Examine, SendPlaces, Waiting
  <2>9. QED
    BY <2>1, <2>5, <2>6, <2>7, <2>8 DEF Waiting
<1>6. QED
  BY <1>3, <1>4, <1>5

\* From the moment a request is dequeued until its answer is queued or given
\* up, no more time passes than the task's waits and one tick add up to.
THEOREM ServiceTimeBounded == TimedSpec => []ServiceBounded
<1>1. TimedInit => ServiceInv
  BY DEF TimedInit, Init, ServiceInv, Setup, Examine, SendPlaces
<1>2. ClocksOK /\ ServiceInv /\ [TimedNext]_timed_vars => ServiceInv'
  <2> SUFFICES ASSUME ClocksOK, ServiceInv, [TimedNext]_timed_vars
               PROVE  ServiceInv'
    OBVIOUS
  <2>1. CASE UNCHANGED timed_vars
    BY <2>1 DEF timed_vars, clock_vars, vars, ServiceInv
  <2>2. CASE TimedTask
    BY <2>2, TaskKeepsService
  <2>3. CASE Poll \/ Elapse \/ Quiet
    BY <2>3, TimeKeepsService
  <2>4. CASE TimedQueues \/ TimedTimer \/ TimedTxCplt \/ TimedBus \/ TimedError
    BY <2>4, OthersLeaveTask, ClocksOKGroups DEF ServiceInv
  <2>5. QED
    BY <2>1, <2>2, <2>3, <2>4 DEF TimedNext
<1>3. TypeOK /\ ClocksOK /\ ServiceInv => ServiceBounded
  <2> SUFFICES ASSUME TypeOK, ClocksOK, ServiceInv PROVE ServiceBounded
    OBVIOUS
  <2>1. /\ service \in Nat
        /\ pc \in Waiting => left["task"] \in Nat
    BY ClocksOKGroups DEF ClockTypes, TaskClocksOK, Clocks
  <2>2. pc \in {"receive", "guard", "poll_tx", "start_rx", "wait_rx"}
                 \cup Setup \cup Examine \cup SendPlaces
    BY DEF TypeOK, PcTypeOK, RxPhase, Setup, Examine, SendPlaces
  <2>3. QED
    BY <2>1, <2>2, TimingAssumption
    DEF ServiceInv, ServiceBounded, MAX_SERVICE, Waiting
<1>4. QED
  BY <1>1, <1>2, <1>3, TimedTypes, ClocksConsistent, PTL DEF TimedSpec

-----------------------------------------------------------------------------
(* No false alarm: a short frame is given up only if the DMA failed it.     *)

Lengths == {f.frame_len : f \in Frames}

\* What is queued, and what the task is about to send, was submitted.
LenInv ==
  /\ \A i \in 1 .. Len(bridge_request_queue) :
       bridge_request_queue[i].frame_len \in Lengths
  /\ pc \in Setup => req.frame_len \in Lengths

\* The transmitter is busy only while the task polls, and the frame ends before
\* the limit that the polling loop goes by, unless the DMA fails it.
OnTime ==
  /\ gState = "BUSY_TX" =>
       pc = "poll_tx" /\ ~tx_done_flag /\ left["tx"] < left["tx_limit"]
  /\ pc = "poll_tx" => gState = "BUSY_TX" \/ tx_done_flag \/ tx_failed
  /\ pc \in {"tx_mode", "hal_tx"} => ~tx_done_flag
  /\ pc = "send_txto" => tx_failed
AlarmInv == LenInv /\ (ShortFrames => OnTime)

\* What a step of the task does to the request and to tx_done_flag.
LEMMA TaskRequest ==
  ASSUME Task
  PROVE  /\ pc = "receive" =>
              /\ bridge_request_queue # <<>>
              /\ req' = Head(bridge_request_queue)
              /\ bridge_request_queue' = Tail(bridge_request_queue)
         /\ pc # "receive" => UNCHANGED <<req, bridge_request_queue>>
         /\ tx_done_flag' = IF pc = "arm" THEN FALSE ELSE tx_done_flag
         /\ pc' = "tx_mode" => pc = "arm"
         /\ pc' = "hal_tx" => pc = "tx_mode"
<1>1. CASE Dequeue
  BY <1>1 DEF Dequeue
<1>2. CASE Drain \/ ClearFlags \/ ClearBuffer
  BY <1>2 DEF Drain, ClearFlags, ClearBuffer, Step, task_vars, local_vars,
              queue_vars, tx_vars
<1>3. CASE ArmTx \/ TransmitMode \/ StartDma
  BY <1>3 DEF ArmTx, TransmitMode, StartDma, Step, task_vars, local_vars,
              queue_vars
<1>4. CASE TxComplete \/ TxTimeout \/ StartRx \/ WaitTake \/ WaitTimeout
           \/ StopRx
  BY <1>4 DEF TxComplete, TxTimeout, StartRx, WaitTake, WaitTimeout, StopRx,
              Move, Step, driver_vars, tx_vars, task_vars, local_vars, queue_vars
<1>5. CASE CheckTimeout \/ CheckNoTimeout \/ CheckSpurious \/ CheckFrame
           \/ ReadLen
  BY <1>5 DEF CheckTimeout, CheckNoTimeout, CheckSpurious, CheckFrame, ReadLen,
              Move, Step, driver_vars, tx_vars, task_vars, local_vars, queue_vars
<1>6. CASE CheckLen \/ CheckCrcBad \/ CheckCrcGood \/ CheckUnitBad
           \/ CheckUnitGood \/ BuildResponse
  BY <1>6 DEF CheckLen, CheckCrcBad, CheckCrcGood, CheckUnitBad, CheckUnitGood,
              BuildResponse, RejectFrame, Move, Step, driver_vars, tx_vars,
              task_vars, local_vars, queue_vars
<1>7. CASE SendReject \/ SendFail \/ SendTxTimeout \/ SendOk \/ Guard
  BY <1>7 DEF SendReject, SendFail, SendTxTimeout, SendOk, Guard, Send, Move,
              Step, driver_vars, tx_vars, task_vars, local_vars, queue_vars
<1>8. QED
  BY <1>1, <1>2, <1>3, <1>4, <1>5, <1>6, <1>7 DEF Task

LEMMA TaskKeepsLengths ==
  ASSUME TypeOK, LenInv, Task
  PROVE  LenInv'
<1>1. bridge_request_queue \in Seq(Request)
  BY DEF TypeOK, QueueTypeOK
<1>2. CASE pc = "receive"
  <2>1. /\ req' = bridge_request_queue[1]
        /\ 1 \in 1 .. Len(bridge_request_queue)
    BY <1>1, <1>2, TaskRequest
  <2>2. \A i \in 1 .. Len(bridge_request_queue') :
          /\ i + 1 \in 1 .. Len(bridge_request_queue)
          /\ bridge_request_queue'[i] = bridge_request_queue[i + 1]
    BY <1>1, <1>2, TaskRequest
  <2>3. QED
    BY <2>1, <2>2 DEF LenInv
<1>3. CASE pc # "receive"
  <2>1. UNCHANGED <<req, bridge_request_queue>>
    BY <1>3, TaskRequest
  <2>2. pc' \in Setup => pc \in Setup
    BY <1>3, TaskPlaces DEF Setup, Examine, SendPlaces
  <2>3. QED
    BY <2>1, <2>2 DEF LenInv
<1>4. QED
  BY <1>2, <1>3

LEMMA OthersKeepLengths ==
  ASSUME TypeOK, LenInv,
         \/ UNCHANGED vars
         \/ TimedQueues \/ TimedTimer \/ TimedTxCplt \/ TimedBus \/ TimedError
         \/ Poll \/ Elapse \/ Quiet
  PROVE  LenInv'
<1>1. CASE UNCHANGED <<req, bridge_request_queue, pc>>
  BY <1>1 DEF LenInv
<1>2. CASE Submit
  <2>1. PICK f \in Frames, s \in Socks :
          bridge_request_queue' = Append(bridge_request_queue,
            [tid |-> submitted + 1, client_sock |-> s,
             protocol_id |-> f.protocol_id, unit |-> f.unit,
             frame_len |-> f.frame_len])
    BY <1>2 DEF Submit
  <2>2. f.frame_len \in Lengths
    BY DEF Lengths
  <2>3. bridge_request_queue \in Seq(Request)
    BY DEF TypeOK, QueueTypeOK
  <2>4. \A i \in 1 .. Len(bridge_request_queue') :
          bridge_request_queue'[i].frame_len \in Lengths
    BY <2>1, <2>2, <2>3 DEF LenInv
  <2>5. UNCHANGED <<pc, req>>
    BY <1>2 DEF Submit, local_vars
  <2>6. QED
    BY <2>4, <2>5 DEF LenInv
<1>3. CASE UNCHANGED vars \/ Poll \/ Elapse \/ Quiet
  BY <1>1, <1>3 DEF Poll, Elapse, Quiet, vars, task_vars, local_vars, queue_vars
<1>4. CASE Collect
  BY <1>1, <1>4 DEF Collect, local_vars
<1>5. CASE TimedTimer \/ TimedTxCplt \/ TimedBus \/ TimedError
  BY <1>1, <1>5 DEF TimedTimer, TimedTxCplt, TimedBus, TimedError, UartError,
     task_vars, local_vars, queue_vars
<1>6. QED
  BY <1>2, <1>3, <1>4, <1>5 DEF TimedQueues

\* A short frame is sent before the limit, counted from a tick, is reached.
LEMMA FrameFits ==
  ASSUME ShortFrames, ClockTypes, NEW n \in Lengths
  PROVE  FrameTime(n) < Ticks(TX_LIMIT)
<1>1. PICK f \in Frames : n = f.frame_len
  BY DEF Lengths
<1>2. FrameTime(n) <= TX_LIMIT - TICK
  BY <1>1 DEF ShortFrames
<1>3. n \in ForwardedLen
  BY <1>1, BridgeAssumption
<1>4. FrameTime(n) \in Nat
  BY <1>3, FrameTimeType
<1>5. QED
  BY <1>2, <1>4, TimingAssumption DEF Ticks, ClockTypes

LEMMA TaskKeepsOnTime ==
  ASSUME TypeOK, ClocksOK, LenInv, ShortFrames, OnTime, TimedTask
  PROVE  OnTime'
<1>1. ClockTypes /\ BusClocks /\ TaskClocksOK
  BY ClocksOKGroups
<1>2. /\ Task
      /\ pc' = "send_txto" => left["tx_limit"] = 0
      /\ tx_failed' = (tx_failed /\ pc # "hal_tx")
      /\ left'["tx_limit"] = IF pc = "hal_tx" THEN Ticks(TX_LIMIT) ELSE Off
      /\ left'["tx"] = IF pc = "hal_tx" /\ gState = "READY"
                       THEN FrameTime(req.frame_len) ELSE left["tx"]
  BY DEF TimedTask, TaskClocks, Clocks, Timers
<1>3. /\ gState \in {"READY", "BUSY_TX"}
      /\ gState' = IF pc = "hal_tx" THEN "BUSY_TX" ELSE gState
      /\ tx_done_flag' = IF pc = "arm" THEN FALSE ELSE tx_done_flag
      /\ pc = "hal_tx" <=> pc' = "poll_tx"
  BY <1>2, TaskEffects, TaskRequest, TypesUsed
<1>4. gState = "BUSY_TX" => left["tx"] \in Nat
  BY <1>1 DEF ClockTypes, BusClocks, Clocks
<1>5. pc' = "send_txto" => tx_failed'
  <2>1. SUFFICES ASSUME pc' = "send_txto" PROVE tx_failed'
    OBVIOUS
  <2>2. pc = "poll_tx" /\ ~tx_done_flag /\ left["tx_limit"] = 0
    BY <1>2, <2>1, TaskPlaces DEF Setup, Examine, SendPlaces
  <2>3. gState # "BUSY_TX"
    BY <1>4, <2>2 DEF OnTime
  <2>4. QED
    BY <1>2, <2>2, <2>3 DEF OnTime
<1>6. gState' = "BUSY_TX" =>
        pc' = "poll_tx" /\ ~tx_done_flag' /\ left'["tx"] < left'["tx_limit"]
  <2>1. CASE pc = "hal_tx"
    <3>1. gState = "READY" /\ req.frame_len \in Lengths
      BY <1>3, <2>1 DEF OnTime, LenInv, Setup
    <3>2. left'["tx"] < left'["tx_limit"]
      BY <1>1, <1>2, <2>1, <3>1, FrameFits
    <3>3. QED
      BY <1>3, <2>1, <3>2 DEF OnTime
  <2>2. CASE pc # "hal_tx"
    <3>1. SUFFICES ASSUME gState' = "BUSY_TX" PROVE FALSE
      OBVIOUS
    <3>2. pc = "poll_tx" /\ ~tx_done_flag /\ left["tx"] < left["tx_limit"]
      BY <1>3, <2>2, <3>1 DEF OnTime
    <3>3. pc' = "send_txto"
      BY <1>2, <3>2, TaskPlaces DEF Setup, Examine, SendPlaces
    <3>4. gState = "BUSY_TX" /\ left["tx_limit"] = 0
      BY <1>2, <1>3, <2>2, <3>1, <3>3
    <3>5. QED
      BY <1>4, <3>2, <3>4
  <2>3. QED
    BY <2>1, <2>2
<1>7. pc' = "poll_tx" => gState' = "BUSY_TX"
  BY <1>3
<1>8. pc' \in {"tx_mode", "hal_tx"} => ~tx_done_flag'
  BY <1>2, <1>3, TaskRequest DEF OnTime
<1>9. QED
  BY <1>5, <1>6, <1>7, <1>8 DEF OnTime

\* Time, handlers and bus: the frame ends first.
LEMMA OthersKeepOnTime ==
  ASSUME TypeOK, ClocksOK, OnTime,
         \/ UNCHANGED timed_vars
         \/ TimedQueues \/ TimedTimer \/ TimedTxCplt \/ TimedBus \/ TimedError
         \/ Poll \/ Elapse \/ Quiet
  PROVE  OnTime'
<1>1. ClockTypes /\ BusClocks /\ TaskClocksOK
  BY ClocksOKGroups
<1>2. CASE UNCHANGED <<gState, pc, tx_done_flag, tx_failed>>
           /\ left'["tx"] = left["tx"] /\ left'["tx_limit"] = left["tx_limit"]
  BY <1>2 DEF OnTime
<1>3. CASE UNCHANGED timed_vars \/ Quiet \/ TimedQueues
  BY <1>2, <1>3 DEF timed_vars, clock_vars, vars, driver_vars, tx_vars, Quiet,
     TimedQueues, Submit, Collect
<1>4. CASE Poll
  BY <1>1, <1>2, <1>4 DEF Poll, vars, driver_vars, tx_vars, ClockTypes, Clocks
<1>5. CASE TimedTimer
  <2>1. UNCHANGED <<gState, pc, tx_done_flag, tx_failed>>
    BY <1>5 DEF TimedTimer, TimerUpdate, Tim2IsrEnter, Tim2IsrSignal,
       rs485_tim3_period_elapsed_isr, tx_vars
  <2>2. left'["tx"] = left["tx"] /\ left'["tx_limit"] = left["tx_limit"]
    BY <1>1, <1>5 DEF TimedTimer, ClockTypes, Clocks, Timers, Stopped
  <2>3. QED
    BY <1>2, <2>1, <2>2
<1>6. CASE TimedBus
  <2>1. UNCHANGED <<gState, pc, tx_done_flag, tx_failed>>
    BY <1>6 DEF TimedBus, SlaveStartsReply, SlaveChar, SlaveCharDamaged,
       LineNoise, tx_vars
  <2>2. left'["tx"] = left["tx"] /\ left'["tx_limit"] = left["tx_limit"]
    BY <1>1, <1>6 DEF TimedBus, ClockTypes, Clocks, Restarted
  <2>3. QED
    BY <1>2, <2>1, <2>2
<1>7. CASE TimedTxCplt
  <2>1. /\ gState = "BUSY_TX" /\ gState' = "READY" /\ tx_done_flag' = TRUE
        /\ pc' = pc /\ tx_failed' = tx_failed
    BY <1>7 DEF TimedTxCplt, HAL_UART_TxCpltCallback
  <2>2. QED
    BY <2>1 DEF OnTime
<1>8. CASE TimedError
  <2>1. /\ left' = [left EXCEPT !["tx"] = IF gState' = "READY" THEN Off ELSE @]
        /\ tx_failed' = (tx_failed \/ gState' # gState)
        /\ UNCHANGED <<pc, tx_done_flag>>
        /\ gState' = gState \/ (gState = "BUSY_TX" /\ gState' = "READY")
    BY <1>8 DEF TimedError, UartError, UartLineError, TxDmaError, tx_vars
  <2>2. CASE gState' = gState
    <3>1. gState = "BUSY_TX" =>
            left'["tx"] = left["tx"] /\ left'["tx_limit"] = left["tx_limit"]
      BY <1>1, <2>1, <2>2 DEF ClockTypes, Clocks
    <3>2. QED
      BY <2>1, <2>2, <3>1 DEF OnTime
  <2>3. CASE gState' = "READY" /\ gState # gState'
    BY <2>1, <2>3 DEF OnTime
  <2>4. QED
    BY <2>1, <2>2, <2>3
<1>9. CASE Elapse
  <2>1. PICK d \in Nat :
          /\ d > 0
          /\ \A c \in Clocks : left'[c] = Less(left[c], d)
          /\ \A c \in Clocks \ {"tx_limit"} :
               left[c] # Off => d <= left[c] /\ left'[c] = left[c] - d
          /\ UNCHANGED <<vars, tx_failed>>
    BY <1>9, ElapseStep
  <2>2. UNCHANGED <<gState, pc, tx_done_flag, tx_failed>>
    BY <2>1 DEF vars, driver_vars, tx_vars
  <2>3. ASSUME pc = "poll_tx", gState = "BUSY_TX", left["tx"] < left["tx_limit"]
        PROVE  left'["tx"] < left'["tx_limit"]
    <3>1. left["tx"] \in Nat /\ left["tx_limit"] \in Nat
      BY <1>1, <2>3 DEF ClockTypes, BusClocks, TaskClocksOK, Clocks
    <3>2. d <= left["tx"] /\ left'["tx"] = left["tx"] - d
      BY <2>1, <3>1 DEF Clocks
    <3>3. left'["tx_limit"] = left["tx_limit"] - d
      BY <2>1, <2>3, <3>1, <3>2 DEF Clocks, Less
    <3>4. QED
      BY <2>3, <3>1, <3>2, <3>3
  <2>4. QED
    BY <2>2, <2>3 DEF OnTime
<1>10. QED
  BY <1>3, <1>4, <1>5, <1>6, <1>7, <1>8, <1>9

\* Failures are not forgotten.
LEMMA FaultsStay ==
  ASSUME TypeOK, [TimedNext]_timed_vars, faults' = 0
  PROVE  faults = 0
<1>1. faults \in Nat
  BY TypesUsed
<1>2. CASE UNCHANGED vars \/ Poll \/ Elapse \/ Quiet
  BY <1>2 DEF Poll, Elapse, Quiet, vars, driver_vars, flt_vars
<1>3. CASE TimedTask
  BY <1>3, TaskEffects DEF TimedTask
<1>4. CASE TimedQueues
  BY <1>4 DEF TimedQueues, Submit, Collect, driver_vars, flt_vars
<1>5. CASE TimedTimer \/ TimedTxCplt
  BY <1>5 DEF TimedTimer, TimedTxCplt, TimerUpdate, Tim2IsrEnter, Tim2IsrSignal,
     rs485_tim3_period_elapsed_isr, HAL_UART_TxCpltCallback, flt_vars
<1>6. CASE TimedBus
  BY <1>1, <1>6 DEF TimedBus, SlaveStartsReply, SlaveChar, SlaveCharDamaged,
     LineNoise, flt_vars
<1>7. CASE TimedError
  BY <1>1, <1>7 DEF TimedError, UartError, UartLineError, TxDmaError,
     HAL_UART_ErrorCallback
<1>8. QED
  BY <1>2, <1>3, <1>4, <1>5, <1>6, <1>7 DEF TimedNext, timed_vars

LEMMA NextAlarm ==
  TypeOK /\ ClocksOK /\ AlarmInv /\ [TimedNext]_timed_vars => AlarmInv'
<1> SUFFICES ASSUME TypeOK, ClocksOK, AlarmInv, [TimedNext]_timed_vars
             PROVE  AlarmInv'
  OBVIOUS
<1>1. LenInv'
  <2>1. CASE TimedTask
    BY <2>1, TaskKeepsLengths DEF TimedTask, AlarmInv
  <2>2. CASE ~TimedTask
    BY <2>2, OthersKeepLengths DEF TimedNext, timed_vars, AlarmInv
  <2>3. QED
    BY <2>1, <2>2
<1>2. ASSUME ShortFrames PROVE OnTime'
  <2>1. OnTime
    BY <1>2 DEF AlarmInv
  <2>2. CASE TimedTask
    BY <1>2, <2>1, <2>2, TaskKeepsOnTime DEF AlarmInv
  <2>3. CASE ~TimedTask
    BY <1>2, <2>1, <2>3, OthersKeepOnTime DEF TimedNext
  <2>4. QED
    BY <2>2, <2>3
<1>3. ShortFrames' = ShortFrames
  BY DEF ShortFrames
<1>4. QED
  BY <1>1, <1>2, <1>3 DEF AlarmInv

\* When every frame takes a tick less than the limit of the polling loop, a
\* transmission is given up only if a DMA error ended this transmission, wherever
\* in a tick it began, whichever of the last poll and the interrupt came first,
\* and whatever else failed before or meanwhile.
THEOREM NoFalseAlarm == TimedSpec => []NoFalseTxTimeout
<1>1. TimedInit => AlarmInv
  BY DEF TimedInit, Init, DriverInit, AlarmInv, LenInv, OnTime, Setup
<1>2. AlarmInv => NoFalseTxTimeout
  BY DEF AlarmInv, OnTime, NoFalseTxTimeout
<1>3. QED
  BY <1>1, <1>2, NextAlarm, TimedTypes, ClocksConsistent, PTL DEF TimedSpec

=============================================================================

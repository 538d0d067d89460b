------------------------- MODULE BridgeSafetyProofs -------------------------
(***************************************************************************)
(* The safety invariants of BridgeEngine, for every value of its           *)
(* constants: the timers, the wake-ups, the bus, the counters, and what a  *)
(* data response carries; and that BridgeEngine implements Gateway: its    *)
(* initial states are initial states of Gateway, and every step is one of  *)
(* Gateway's or leaves what Gateway sees unchanged.                        *)
(***************************************************************************)
EXTENDS BridgeEngineProofs

-----------------------------------------------------------------------------
(* No timer outside the wait.                                              *)

\* The timers are idle: none runs, no interrupt is pending or half done.
TimersIdle == isr = "none" /\ \A t \in Timers : ~running[t] /\ ~uif[t]

\* Whatever leaves idle timers alone leaves them idle, and so does the
\* receive interrupt, which only clears a pending update.
LEMMA TimersStayIdle ==
  ASSUME TimTypeOK, TimersIdle
  PROVE  /\ UNCHANGED tim_vars => TimersIdle'
         /\ \A c : rs485_uart_rx_isr(c) => TimersIdle'
BY DEF TimTypeOK, TimersIdle, tim_vars, rs485_uart_rx_isr, Timers

LEMMA InitTimers == Init => TimersOnlyInWindow
BY DEF Init, DriverInit, TimersOnlyInWindow

LEMMA TimersWindowForm ==
  /\ TimersOnlyInWindow <=> (pc \notin {"wait_rx", "stop_rx"} => TimersIdle)
  /\ TimersOnlyInWindow' <=>
       (pc' \notin {"wait_rx", "stop_rx"} => TimersIdle')
BY DEF TimersOnlyInWindow, TimersIdle

LEMMA NextTimers ==
  TypeOK /\ TimersOnlyInWindow /\ [Next]_vars => TimersOnlyInWindow'
<1> SUFFICES ASSUME TypeOK, TimersOnlyInWindow, [Next]_vars
             PROVE  TimersOnlyInWindow'
  OBVIOUS
<1>1. TimTypeOK
  BY TypeOKGroups
<1>2. CASE UNCHANGED vars
  BY <1>1, <1>2, TimersStayIdle, TimersWindowForm DEF vars, driver_vars
<1>3. CASE /\ UNCHANGED tim_vars
           /\ pc \notin {"wait_rx", "stop_rx"} \/ pc' = pc
  BY <1>1, <1>3, TimersStayIdle, TimersWindowForm
<1>4. CASE Task
  <2>1. CASE StartRx \/ WaitTake \/ WaitTimeout
    BY <2>1 DEF StartRx, WaitTake, WaitTimeout, Step, TimersOnlyInWindow
  <2>2. CASE StopRx
    BY <2>2
    DEF StopRx, Step, TasksMayRun, TimersOnlyInWindow, rs485_stop_rx_timeout
  <2>3. CASE Dequeue \/ Drain \/ ClearFlags \/ ClearBuffer
    BY <1>3, <2>3 DEF Dequeue, Drain, ClearFlags, ClearBuffer, Step
  <2>4. CASE ArmTx \/ TransmitMode \/ StartDma \/ TxComplete \/ TxTimeout
    BY <1>3, <2>4
    DEF ArmTx, TransmitMode, StartDma, TxComplete, TxTimeout, Move, Step,
        driver_vars
  <2>5. CASE CheckTimeout \/ CheckNoTimeout \/ CheckSpurious \/ CheckFrame
    BY <1>3, <2>5
    DEF CheckTimeout, CheckNoTimeout, CheckSpurious, CheckFrame, Move, Step,
        driver_vars
  <2>6. CASE ReadLen \/ CheckLen \/ CheckCrcBad \/ CheckCrcGood
    BY <1>3, <2>6
    DEF ReadLen, CheckLen, CheckCrcBad, CheckCrcGood, RejectFrame, Move, Step,
        driver_vars
  <2>7. CASE CheckUnitBad \/ CheckUnitGood \/ BuildResponse
    BY <1>3, <2>7
    DEF CheckUnitBad, CheckUnitGood, BuildResponse, RejectFrame, Move, Step,
        driver_vars
  <2>8. CASE SendReject \/ SendFail \/ SendTxTimeout \/ SendOk \/ Guard
    BY <1>3, <2>8
    DEF SendReject, SendFail, SendTxTimeout, SendOk, Guard, Send, Move, Step,
        driver_vars
  <2>9. QED
    BY <1>4, <2>1, <2>2, <2>3, <2>4, <2>5, <2>6, <2>7, <2>8 DEF Task
<1>5. CASE Isr
  <2>1. pc' = pc
    BY <1>5 DEF Isr
  <2>2. CASE HAL_UART_TxCpltCallback
    BY <1>1, <2>1, <2>2, TimersStayIdle, TimersWindowForm
    DEF HAL_UART_TxCpltCallback
  <2>3. CASE (\E t \in Timers : TimerUpdate(t)) \/ Tim2IsrEnter
             \/ Tim2IsrSignal \/ rs485_tim3_period_elapsed_isr
    \* None of them can happen while the timers are idle.
    BY <2>1, <2>3
    DEF TimersOnlyInWindow, TimerUpdate, Tim2IsrEnter, Tim2IsrSignal,
        rs485_tim3_period_elapsed_isr, Timers
  <2>4. QED
    BY <1>5, <2>2, <2>3 DEF Isr
<1>6. CASE UartError
  BY <1>3, <1>6 DEF UartError, UartLineError, TxDmaError
<1>7. CASE Bus
  <2>1. pc' = pc /\ (UNCHANGED tim_vars \/ \E c : rs485_uart_rx_isr(c))
    BY <1>7
    DEF Bus, SlaveStartsReply, SlaveChar, SlaveCharDamaged, LineNoise
  <2>2. QED
    BY <1>1, <2>1, TimersStayIdle, TimersWindowForm
<1>8. CASE Submit \/ Collect
  BY <1>3, <1>8 DEF Submit, Collect, driver_vars
<1>9. QED
  BY <1>2, <1>4, <1>5, <1>6, <1>7, <1>8 DEF Next

\* Outside the wait of STEP 4 no timer runs and no timer interrupt is pending
\* or half done (rs485_start_rx_timeout, rs485_stop_rx_timeout and the two
\* timer handlers).
THEOREM TimersQuietOutsideWindow == Spec => []TimersOnlyInWindow
<1>1. TypeOK /\ TimersOnlyInWindow /\ [Next]_vars
      => (TypeOK /\ TimersOnlyInWindow)'
  BY NextTypeOK, NextTimers
<1>2. QED
  BY <1>1, InitTypeOK, InitTimers, PTL DEF Spec

-----------------------------------------------------------------------------
(* No wake-up is lost.                                                     *)

LEMMA InitWakeup == Init => NoLostWakeup
BY DEF Init, NoLostWakeup

\* A step that leaves the flags and the semaphore alone and does not enter
\* the region of NoLostWakeup keeps it.
LEMMA WakeupFrame ==
  ASSUME NoLostWakeup, UNCHANGED rx_vars,
         pc' \in {"memset", "arm", "tx_mode", "hal_tx", "poll_tx",
                  "start_rx", "wait_rx"} =>
           pc \in {"memset", "arm", "tx_mode", "hal_tx", "poll_tx",
                   "start_rx", "wait_rx"}
  PROVE  NoLostWakeup'
BY DEF NoLostWakeup, rx_vars

LEMMA NextWakeup == NoLostWakeup /\ [Next]_vars => NoLostWakeup'
<1> SUFFICES ASSUME NoLostWakeup, [Next]_vars PROVE NoLostWakeup'
  OBVIOUS
<1>1. CASE UNCHANGED vars
  BY <1>1, WakeupFrame DEF vars, driver_vars
<1>2. CASE Task
  <2>1. CASE ClearFlags
    BY <2>1 DEF ClearFlags, FlushFlags, NoLostWakeup
  <2>2. CASE ClearBuffer
    BY <2>2 DEF ClearBuffer, NoLostWakeup, Step
  <2>3. CASE ArmTx \/ TransmitMode \/ StartDma \/ TxComplete \/ StartRx
    BY <2>3, WakeupFrame
    DEF ArmTx, TransmitMode, StartDma, TxComplete, StartRx, Move, Step,
        driver_vars
  <2>4. CASE ~(ClearFlags \/ ClearBuffer \/ ArmTx \/ TransmitMode \/ StartDma
               \/ TxComplete \/ StartRx)
    \* The other steps end outside the region.
    <3>1. pc' \notin {"memset", "arm", "tx_mode", "hal_tx", "poll_tx",
                      "start_rx", "wait_rx"}
      BY <1>2, <2>4
      DEF Task, Dequeue, Drain, TxTimeout, WaitTake, WaitTimeout, StopRx,
          CheckTimeout, CheckNoTimeout, CheckSpurious, CheckFrame, ReadLen,
          CheckLen, CheckCrcBad, CheckCrcGood, CheckUnitBad, CheckUnitGood,
          BuildResponse, SendReject, SendFail, SendTxTimeout, SendOk, Send,
          Guard, Move, Step
    <3>2. QED
      BY <3>1 DEF NoLostWakeup
  <2>5. QED
    BY <2>1, <2>2, <2>3, <2>4
<1>3. CASE Isr
  BY <1>3, WakeupFrame
  DEF Isr, TimerUpdate, Tim2IsrEnter, Tim2IsrSignal,
      rs485_tim3_period_elapsed_isr, HAL_UART_TxCpltCallback,
      rs485_uart_rx_isr, NoLostWakeup
<1>4. CASE UartError
  BY <1>4
  DEF UartError, UartLineError, TxDmaError, HAL_UART_ErrorCallback,
      NoLostWakeup
<1>5. CASE Bus
  BY <1>5, WakeupFrame
  DEF Bus, SlaveStartsReply, SlaveChar, SlaveCharDamaged, LineNoise,
      rs485_uart_rx_isr, NoLostWakeup
<1>6. CASE Submit \/ Collect
  BY <1>6, WakeupFrame DEF Submit, Collect, driver_vars
<1>7. QED
  BY <1>1, <1>2, <1>3, <1>4, <1>5, <1>6 DEF Next

\* From the flush to the wait, no order of the handlers and the task leaves a
\* flag raised without its semaphore, so the wait of STEP 4 cannot sleep
\* through a frame or a timeout that has already come.
THEOREM WakeupNotLost == Spec => []NoLostWakeup
BY InitWakeup, NextWakeup, PTL DEF Spec

-----------------------------------------------------------------------------
(* The bus: driven only to transmit, and listened to after that.           *)

(***************************************************************************)
(* BusReleased and ListenAfterTransmit are not inductive: they hold        *)
(* because, in a transaction that no overlong transmission disturbs, the   *)
(* DMA is idle whenever the task is not polling, and tx_done_flag, cleared *)
(* by ArmTx, can only be raised by the end of this very transmission.      *)
(***************************************************************************)
TxInv ==
  ~overrun =>
    /\ pc # "poll_tx" => gState = "READY"
    /\ de => pc \in {"hal_tx", "poll_tx", "send_txto"}
    /\ pc \in {"tx_mode", "hal_tx"} => ~tx_done_flag
    /\ pc = "hal_tx" => de
    /\ pc = "poll_tx" =>
         /\ tx_frame = MbapOf(req)
         /\ tx_done_flag => gState = "READY" /\ ~de /\ rxneie /\ tx_intact
         /\ gState = "BUSY_TX" => de /\ ~tx_done_flag /\ tx_intact
    /\ pc \in RxPhase => rxneie /\ tx_frame = MbapOf(req) /\ tx_intact

LEMMA InitTx == Init => TxInv
BY DEF Init, DriverInit, TxInv, RxPhase

LEMMA TxInvImplies == TxInv => BusReleased /\ ListenAfterTransmit
BY DEF TxInv, BusReleased, ListenAfterTransmit, RxPhase

\* What TxInv depends on.
tx_inv_vars == <<tx_vars, req, overrun>>

\* A step of the task from one place to another, neither of which TxInv says
\* anything of, or inside the receive phase.
LEMMA TxFrame ==
  ASSUME TxInv, UNCHANGED tx_inv_vars,
         \/ pc' = pc
         \/ /\ pc \in RxPhase
            /\ pc' \in RxPhase \cup {"send_fail", "send_ok", "receive"}
         \/ /\ pc \in {"drain", "clear", "memset", "send_reject",
                       "send_fail", "send_ok", "guard"}
            /\ pc' \in {"clear", "memset", "arm", "receive", "guard"}
  PROVE  TxInv'
BY DEF TxInv, tx_inv_vars, tx_vars, RxPhase

LEMMA NextTx == TypeOK /\ TxInv /\ [Next]_vars => TxInv'
<1> SUFFICES ASSUME TypeOK, TxInv, [Next]_vars PROVE TxInv'
  OBVIOUS
<1> USE DEF RxPhase
<1>1. CASE UNCHANGED vars
  BY <1>1, TxFrame
  DEF vars, driver_vars, task_vars, local_vars, hist_vars, tx_inv_vars
<1>2. CASE Task
  <2>1. CASE Dequeue
    <3>1. gState \in {"READY", "BUSY_TX"}
      BY DEF TypeOK, DriverTypeOK, TxTypeOK
    <3>2. QED
      BY <2>1, <3>1, Zenon DEF Dequeue, TxInv
  <2>2. CASE Drain \/ ClearFlags \/ ClearBuffer
    BY <2>2, TxFrame
    DEF Drain, ClearFlags, ClearBuffer, Step, task_vars, local_vars,
        hist_vars, tx_inv_vars
  <2>3. CASE ArmTx
    BY <2>3 DEF ArmTx, Step, TxInv, task_vars, local_vars, hist_vars
  <2>4. CASE TransmitMode
    BY <2>4
    DEF TransmitMode, rs485_set_transmit_mode, Step, TxInv, task_vars,
        local_vars, hist_vars
  <2>5. CASE StartDma
    BY <2>5
    DEF StartDma, HalTransmitDma, Step, TxInv, MbapOf, task_vars, local_vars,
        hist_vars
  <2>6. CASE TxComplete
    BY <2>6
    DEF TxComplete, Move, Step, TxInv, driver_vars, tx_vars, task_vars,
        local_vars, hist_vars
  <2>7. CASE TxTimeout
    BY <2>7
    DEF TxTimeout, Step, TxInv, driver_vars, tx_vars, TypeOK, DriverTypeOK,
        TxTypeOK
  <2>8. CASE StartRx \/ WaitTake \/ WaitTimeout \/ StopRx
    BY <2>8, TxFrame
    DEF StartRx, WaitTake, WaitTimeout, StopRx, Step, driver_vars, task_vars,
        local_vars, hist_vars, tx_inv_vars
  <2>9. CASE CheckTimeout \/ CheckNoTimeout \/ CheckSpurious \/ CheckFrame
    BY <2>9, TxFrame
    DEF CheckTimeout, CheckNoTimeout, CheckSpurious, CheckFrame, Move, Step,
        driver_vars, task_vars, local_vars, hist_vars, tx_inv_vars
  <2>10. CASE ReadLen \/ CheckLen \/ CheckCrcBad \/ CheckCrcGood
    BY <2>10, TxFrame
    DEF ReadLen, CheckLen, CheckCrcBad, CheckCrcGood, RejectFrame, Move, Step,
        driver_vars, task_vars, local_vars, hist_vars, tx_inv_vars
  <2>11. CASE CheckUnitBad \/ CheckUnitGood \/ BuildResponse
    BY <2>11, TxFrame
    DEF CheckUnitBad, CheckUnitGood, BuildResponse, RejectFrame, Move, Step,
        driver_vars, task_vars, local_vars, hist_vars, tx_inv_vars
  <2>12. CASE SendReject \/ SendFail \/ SendOk \/ Guard
    BY <2>12, TxFrame
    DEF SendReject, SendFail, SendOk, Guard, Send, Move, Step, driver_vars,
        task_vars, local_vars, hist_vars, tx_inv_vars
  <2>13. CASE SendTxTimeout
    BY <2>13
    DEF SendTxTimeout, Send, Step, rs485_set_receive_mode, TxInv, hist_vars
  <2>14. QED
    BY <1>2, <2>1, <2>2, <2>3, <2>4, <2>5, <2>6, <2>7, <2>8, <2>9, <2>10,
       <2>11, <2>12, <2>13 DEF Task
<1>3. CASE Isr
  <2>1. pc' = pc /\ UNCHANGED <<req, overrun>>
    BY <1>3 DEF Isr, task_vars, local_vars, hist_vars
  <2>2. CASE HAL_UART_TxCpltCallback
    BY <2>1, <2>2 DEF HAL_UART_TxCpltCallback, TxInv
  <2>3. CASE UNCHANGED tx_vars
    BY <2>1, <2>3, TxFrame DEF tx_inv_vars
  <2>4. QED
    BY <1>3, <2>2, <2>3
    DEF Isr, TimerUpdate, Tim2IsrEnter, Tim2IsrSignal,
        rs485_tim3_period_elapsed_isr
<1>4. CASE UartError
  <2>1. pc' = pc /\ UNCHANGED <<req, overrun>>
    BY <1>4 DEF UartError, local_vars
  <2>2. CASE UartLineError
    BY <2>1, <2>2, TxFrame DEF UartLineError, tx_inv_vars
  <2>3. CASE TxDmaError
    BY <2>1, <2>3 DEF TxDmaError, TxInv
  <2>4. QED
    BY <1>4, <2>2, <2>3 DEF UartError
<1>5. CASE Bus
  <2>1. pc' = pc /\ UNCHANGED <<req, overrun>>
    BY <1>5 DEF Bus, task_vars, local_vars, hist_vars
  <2>2. CASE LineNoise
    BY <2>1, <2>2 DEF LineNoise, TxInv
  <2>3. CASE UNCHANGED tx_vars
    BY <2>1, <2>3, TxFrame DEF tx_inv_vars
  <2>4. QED
    BY <1>5, <2>2, <2>3 DEF Bus, SlaveStartsReply, SlaveChar, SlaveCharDamaged
<1>6. CASE Submit \/ Collect
  BY <1>6, TxFrame
  DEF Submit, Collect, driver_vars, local_vars, hist_vars, tx_inv_vars
<1>7. QED
  BY <1>1, <1>2, <1>3, <1>4, <1>5, <1>6 DEF Next

LEMMA TxInvariant == Spec => []TxInv
<1>1. TypeOK /\ TxInv /\ [Next]_vars => (TypeOK /\ TxInv)'
  BY NextTypeOK, NextTx
<1>2. QED
  BY <1>1, InitTypeOK, InitTx, PTL DEF Spec

\* RS485_DE_PIN is high only while the task transmits, polls or cleans up
\* after the TX timeout, whatever the DMA does (bar an overlong transmission).
THEOREM BusAlwaysReleased == Spec => []BusReleased
BY TxInvariant, TxInvImplies, PTL

\* Whoever waits for a reply has put its own request on the bus, whole, and
\* listens (bar an overlong transmission).
THEOREM ListensToItsOwnRequest == Spec => []ListenAfterTransmit
BY TxInvariant, TxInvImplies, PTL

-----------------------------------------------------------------------------
(* The silent give-up needs a UART error.                                  *)

(***************************************************************************)
(* Why a wake-up is never for nothing while no UART error came: the        *)
(* semaphore drained at STEP 3 stays empty until the timers start, and is  *)
(* then only given together with a flag, which only the task takes back.   *)
(***************************************************************************)
WakeInv ==
  err_in = {} =>
    /\ pc \in {"clear", "memset", "arm", "tx_mode", "hal_tx", "poll_tx",
               "start_rx"} => rx_frame_semaphore = 0
    /\ pc = "wait_rx" /\ rx_frame_semaphore = 1
         => rx_frame_complete \/ rx_timeout_flag
    /\ pc \in {"stop_rx", "check"} /\ sem_result
         => rx_frame_complete \/ rx_timeout_flag
    /\ pc = "check_frame" => rx_frame_complete

LEMMA InitWake == Init => WakeInv
BY DEF Init, WakeInv

LEMMA WakeInvImplies == WakeInv => SpuriousWakeNeedsError
BY DEF WakeInv, SpuriousWakeNeedsError

\* A step that leaves the flags alone, from a place of the same kind.
wake_inv_vars == <<rx_frame_semaphore, rx_frame_complete, rx_timeout_flag,
                   sem_result, err_in>>
LEMMA WakeFrame ==
  ASSUME WakeInv, UNCHANGED wake_inv_vars,
         \/ pc' = pc
         \/ pc \in {"clear", "memset", "arm", "tx_mode", "hal_tx", "poll_tx"}
            /\ pc' \in {"memset", "arm", "tx_mode", "hal_tx", "poll_tx",
                        "start_rx"}
         \/ pc = "stop_rx" /\ pc' = "check"
  PROVE  WakeInv'
BY DEF WakeInv, wake_inv_vars

LEMMA NextWake == TimersOnlyInWindow /\ WakeInv /\ [Next]_vars => WakeInv'
<1> SUFFICES ASSUME TimersOnlyInWindow, WakeInv, [Next]_vars PROVE WakeInv'
  OBVIOUS
<1>1. CASE UNCHANGED vars
  BY <1>1, WakeFrame
  DEF vars, driver_vars, rx_vars, task_vars, local_vars, hist_vars,
      wake_inv_vars
<1>2. CASE Task
  <2>1. CASE Drain
    BY <2>1 DEF Drain, Step, WakeInv
  <2>2. CASE ClearFlags
    BY <2>2 DEF ClearFlags, Step, WakeInv, task_vars, hist_vars
  <2>3. CASE ClearBuffer \/ ArmTx \/ TransmitMode \/ StartDma \/ TxComplete
    BY <2>3, WakeFrame
    DEF ClearBuffer, ArmTx, TransmitMode, StartDma, TxComplete, Move, Step,
        driver_vars, rx_vars, task_vars, local_vars, hist_vars, wake_inv_vars
  <2>4. CASE StartRx
    BY <2>4 DEF StartRx, Step, WakeInv, rx_vars, task_vars, hist_vars
  <2>5. CASE WaitTake \/ WaitTimeout
    BY <2>5 DEF WaitTake, WaitTimeout, Step, WakeInv, hist_vars
  <2>6. CASE StopRx
    BY <2>6, WakeFrame
    DEF StopRx, Step, rx_vars, task_vars, local_vars, hist_vars,
        wake_inv_vars
  <2>7. CASE CheckNoTimeout
    BY <2>7
    DEF CheckNoTimeout, Move, Step, WakeInv, driver_vars, rx_vars, task_vars,
        hist_vars
  <2>8. CASE ~(Drain \/ ClearFlags \/ ClearBuffer \/ ArmTx \/ TransmitMode
               \/ StartDma \/ TxComplete \/ StartRx \/ WaitTake
               \/ WaitTimeout \/ StopRx \/ CheckNoTimeout)
    \* The other steps end where WakeInv says nothing.
    <3>1. pc' \in {"drain", "send_reject", "send_txto", "send_fail", "read",
                   "crc", "unit", "build", "send_ok", "guard", "receive"}
      BY <1>2, <2>8
      DEF Task, Dequeue, TxTimeout, CheckTimeout, CheckSpurious, CheckFrame,
          ReadLen, CheckLen, CheckCrcBad, CheckCrcGood, CheckUnitBad,
          CheckUnitGood, BuildResponse, SendReject, SendFail, SendTxTimeout,
          SendOk, Send, Guard, Move, Step
    <3>2. QED
      BY <3>1 DEF WakeInv
  <2>9. QED
    BY <2>1, <2>2, <2>3, <2>4, <2>5, <2>6, <2>7, <2>8
<1>3. CASE Isr
  <2>1. pc' = pc /\ UNCHANGED <<sem_result, err_in>>
    BY <1>3 DEF Isr, task_vars, local_vars, hist_vars
  <2>2. CASE Tim2IsrSignal \/ rs485_tim3_period_elapsed_isr
    <3>1. pc \in {"wait_rx", "stop_rx"}
      BY <2>2
      DEF TimersOnlyInWindow, Tim2IsrSignal, rs485_tim3_period_elapsed_isr,
          Timers
    <3>2. QED
      BY <2>1, <2>2, <3>1
      DEF Tim2IsrSignal, rs485_tim3_period_elapsed_isr, WakeInv
  <2>3. CASE UNCHANGED <<rx_frame_semaphore, rx_frame_complete,
                         rx_timeout_flag>>
    BY <2>1, <2>3, WakeFrame DEF wake_inv_vars
  <2>4. QED
    BY <1>3, <2>2, <2>3
    DEF Isr, TimerUpdate, Tim2IsrEnter, HAL_UART_TxCpltCallback,
        rs485_uart_rx_isr, rx_vars
<1>4. CASE UartError
  <2>1. err_in' # {}
    BY <1>4 DEF UartError
  <2>2. QED
    BY <2>1 DEF WakeInv
<1>5. CASE Bus
  <2>1. /\ pc' = pc
        /\ UNCHANGED <<sem_result, err_in, rx_frame_semaphore,
                       rx_frame_complete, rx_timeout_flag>>
    BY <1>5
    DEF Bus, SlaveStartsReply, SlaveChar, SlaveCharDamaged, LineNoise,
        rs485_uart_rx_isr, rx_vars, task_vars, local_vars, hist_vars
  <2>2. QED
    BY <2>1, WakeFrame DEF wake_inv_vars
<1>6. CASE Submit \/ Collect
  BY <1>6, WakeFrame
  DEF Submit, Collect, driver_vars, rx_vars, local_vars, hist_vars,
      wake_inv_vars
<1>7. QED
  BY <1>1, <1>2, <1>3, <1>4, <1>5, <1>6 DEF Next

\* Neither a semaphore or a flag left over from an earlier transaction nor any
\* order of the timer handlers makes the task give a request up in silence:
\* that takes a UART error in this very transaction.
THEOREM SilenceNeedsUartError == Spec => []SpuriousWakeNeedsError
<1>1. (TypeOK /\ TimersOnlyInWindow /\ WakeInv) /\ [Next]_vars
      => (TypeOK /\ TimersOnlyInWindow /\ WakeInv)'
  BY NextTypeOK, NextTimers, NextWake
<1>2. QED
  BY <1>1, InitTypeOK, InitTimers, InitWake, WakeInvImplies, PTL DEF Spec

-----------------------------------------------------------------------------
(* The diagnostic counters.                                                *)

\* The places where a request has been counted and its outcome has not.
Undecided == RxPhase \cup {"drain", "clear", "memset", "arm", "tx_mode",
                           "hal_tx", "poll_tx"}

\* What counting does to each counter.
LEMMA CountMeans ==
  ASSUME DiagTypeOK, NEW S \in SUBSET Counters, Count(S)
  PROVE  \A c \in Counters :
           g_bridge_diag'[c] = IF c \in S THEN g_bridge_diag[c] + 1
                               ELSE g_bridge_diag[c]
BY DEF DiagTypeOK, Count

LEMMA InitDiag == Init => DiagnosticsAddUp
BY DEF Init, DiagnosticsAddUp, RxPhase, Counters

\* A step that counts nothing and does not come from a decided place to an
\* undecided one.
LEMMA DiagFrame ==
  ASSUME DiagTypeOK, DiagnosticsAddUp, UNCHANGED g_bridge_diag,
         pc' \in Undecided => pc \in Undecided
  PROVE  DiagnosticsAddUp'
BY DEF DiagTypeOK, DiagnosticsAddUp, Counters, Undecided

\* A step that counts one outcome, or none, and decides.
LEMMA DiagDecide ==
  ASSUME DiagTypeOK, DiagnosticsAddUp, pc \in Undecided, pc' \notin Undecided,
         NEW c \in {"responses", "timeouts", "crc_errors", "unit_id_mismatch"},
         Count({c})
  PROVE  DiagnosticsAddUp'
<1> DEFINE d == g_bridge_diag
<1>1. \A k \in Counters : d[k] \in Nat /\ d'[k] = IF k = c THEN d[k] + 1 ELSE d[k]
  BY DEF DiagTypeOK, Count
<1>2. QED
  BY <1>1 DEF DiagnosticsAddUp, Counters, Undecided

LEMMA NextDiag ==
  TypeOK /\ DiagnosticsAddUp /\ [Next]_vars => DiagnosticsAddUp'
<1> SUFFICES ASSUME TypeOK, DiagnosticsAddUp, [Next]_vars
             PROVE  DiagnosticsAddUp'
  OBVIOUS
<1>1. DiagTypeOK
  BY TypeOKGroups
<1>2. CASE UNCHANGED g_bridge_diag /\ pc' = pc
  BY <1>1, <1>2, DiagFrame
<1>3. CASE Task
  <2>1. CASE Dequeue
    <3>1. pc = "receive" /\ pc' \in {"drain", "send_reject"}
      BY <2>1 DEF Dequeue
    <3>2. CASE pc' = "drain"
      <4>1. Count({"requests"})
        BY <2>1, <3>2 DEF Dequeue
      <4>2. QED
        BY <1>1, <3>1, <3>2, <4>1, CountMeans
        DEF DiagTypeOK, DiagnosticsAddUp, Counters, RxPhase
    <3>3. CASE pc' = "send_reject"
      <4>1. \/ Count({"requests"}) \/ Count({"requests", "frame_too_short"})
            \/ Count({"requests", "protocol_errors"})
        BY <2>1, <3>3 DEF Dequeue
      <4>2. QED
        BY <1>1, <3>1, <3>3, <4>1
        DEF DiagTypeOK, DiagnosticsAddUp, Counters, RxPhase, Count
    <3>4. QED
      BY <3>1, <3>2, <3>3
  <2>2. CASE CheckTimeout \/ CheckCrcBad \/ CheckUnitBad \/ BuildResponse
    <3>1. /\ pc \in Undecided /\ pc' \notin Undecided
          /\ \E c \in {"responses", "timeouts", "crc_errors",
                       "unit_id_mismatch"} : Count({c})
      BY <2>2
      DEF CheckTimeout, CheckCrcBad, CheckUnitBad, BuildResponse, Step,
          Undecided, RxPhase
    <3>2. QED
      BY <1>1, <3>1, DiagDecide
  <2>3. CASE ~(Dequeue \/ CheckTimeout \/ CheckCrcBad \/ CheckUnitBad
               \/ BuildResponse)
    <3>1. UNCHANGED g_bridge_diag /\ (pc' \in Undecided => pc \in Undecided)
      BY <1>3, <2>3
      DEF Task, Drain, ClearFlags, ClearBuffer, ArmTx, TransmitMode, StartDma,
          TxComplete, TxTimeout, StartRx, WaitTake, WaitTimeout, StopRx,
          CheckNoTimeout, CheckSpurious, CheckFrame, ReadLen, CheckLen,
          CheckCrcGood, CheckUnitGood, SendReject, SendFail, SendTxTimeout,
          SendOk, Guard, Send, Move, Step, task_vars, Undecided, RxPhase
    <3>2. QED
      BY <1>1, <3>1, DiagFrame
  <2>4. QED
    BY <2>1, <2>2, <2>3
<1>4. QED
  BY <1>2, <1>3
  DEF Next, Isr, UartError, Bus, Submit, Collect, vars, task_vars

\* No request is counted under two outcomes, nor under one before it is
\* decided (bridge_diagnostics_t).
THEOREM CountersAddUp == Spec => []DiagnosticsAddUp
<1>1. TypeOK /\ DiagnosticsAddUp /\ [Next]_vars
      => (TypeOK /\ DiagnosticsAddUp)'
  BY NextTypeOK, NextDiag
<1>2. QED
  BY <1>1, InitTypeOK, InitDiag, PTL DEF Spec

-----------------------------------------------------------------------------
(* Where the characters come from.                                         *)

\* What names a slave belongs to a request that was submitted.
Real(x) == x.unit # 0 => x.tid \in 1 .. submitted

Genuine ==
  /\ \A i \in 1 .. Len(bridge_request_queue) : Real(bridge_request_queue[i])
  /\ Real(req)
  /\ Real(tx_frame)
  /\ \A q \in heard : Real(q)
  /\ \A i \in 1 .. Len(reply) : Real(reply[i])
  /\ \A i \in 1 .. RX_BUFFER_SIZE : Real(rx_buffer[i])

LEMMA InitGenuine == Init => Genuine
BY DEF Init, DriverInit, Genuine, Real, NoRequest, NoTarget, ZeroBuffer, Zero

\* The parts of Genuine survive what does not touch their variables.
GenuineVars == <<bridge_request_queue, req, tx_frame, heard, reply, rx_buffer,
                 submitted>>
LEMMA GenuineFrame == Genuine /\ UNCHANGED GenuineVars => Genuine'
BY DEF Genuine, GenuineVars, Real

\* A flush leaves nothing but zeros, which name no slave.
LEMMA GenuineFlush ==
  ASSUME Genuine, FlushMemory,
         UNCHANGED <<bridge_request_queue, req, tx_frame, heard, reply,
                     submitted>>
  PROVE  Genuine'
BY DEF Genuine, FlushMemory, ZeroBuffer, Zero, Real

\* A received character that is genuine keeps the buffer genuine.
LEMMA GenuineChar ==
  ASSUME TypeOK, Genuine, NEW c, Real(c), rs485_uart_rx_isr(c),
         UNCHANGED submitted
  PROVE  \A i \in 1 .. RX_BUFFER_SIZE : Real(rx_buffer[i])'
BY DEF Genuine, rs485_uart_rx_isr, Real, TypeOK, DriverTypeOK, RxTypeOK

LEMMA NextGenuine == TypeOK /\ Genuine /\ [Next]_vars => Genuine'
<1> SUFFICES ASSUME TypeOK, Genuine, [Next]_vars PROVE Genuine'
  OBVIOUS
<1> USE DEF GenuineVars
<1>1. CASE UNCHANGED vars
  BY <1>1, GenuineFrame
  DEF vars, driver_vars, tx_vars, rx_vars, bus_vars, task_vars, queue_vars,
      local_vars
<1>2. CASE Task
  <2>1. CASE Dequeue
    <3>1. /\ bridge_request_queue \in Seq(Request)
          /\ bridge_request_queue # <<>>
          /\ req' = Head(bridge_request_queue)
          /\ bridge_request_queue' = Tail(bridge_request_queue)
          /\ UNCHANGED <<tx_frame, heard, reply, rx_buffer, submitted>>
      BY <2>1 DEF Dequeue, TypeOK, QueueTypeOK, rx_vars, bus_vars
    <3>2. Real(req)'
      BY <3>1 DEF Genuine, Real
    <3>3. \A i \in 1 .. Len(bridge_request_queue') :
            Real(bridge_request_queue'[i])
      BY <3>1 DEF Genuine, Real
    <3>4. QED
      BY <3>1, <3>2, <3>3 DEF Genuine, Real
  <2>2. CASE StartDma
    <3>1. tx_frame' \in {tx_frame, MbapOf(req)}
      BY <2>2 DEF StartDma, HalTransmitDma
    <3>2. UNCHANGED <<bridge_request_queue, req, heard, reply, rx_buffer,
                      submitted>>
      BY <2>2
      DEF StartDma, rx_vars, bus_vars, task_vars, queue_vars, local_vars
    <3>3. QED
      BY <3>1, <3>2 DEF Genuine, Real, MbapOf
  <2>3. CASE ClearBuffer \/ CheckTimeout \/ CheckSpurious \/ CheckLen
             \/ CheckCrcBad \/ CheckUnitBad \/ SendOk
    BY <2>3, GenuineFlush
    DEF ClearBuffer, CheckTimeout, CheckSpurious, CheckLen, CheckCrcBad,
        CheckUnitBad, SendOk, Send, RejectFrame, rs485_flush_rx_buffer,
        tx_vars, bus_vars, task_vars, queue_vars, local_vars
  <2>4. CASE ~(Dequeue \/ StartDma \/ ClearBuffer \/ CheckTimeout
               \/ CheckSpurious \/ CheckLen \/ CheckCrcBad \/ CheckUnitBad
               \/ SendOk)
    <3>1. UNCHANGED GenuineVars
      BY <1>2, <2>4
      DEF Task, Drain, ClearFlags, ArmTx, TransmitMode, TxComplete, TxTimeout,
          StartRx, WaitTake, WaitTimeout, StopRx, CheckNoTimeout, CheckFrame,
          ReadLen, CheckCrcGood, CheckUnitGood, BuildResponse, SendReject,
          SendFail, SendTxTimeout, Send, Guard, Move, driver_vars, tx_vars,
          rx_vars, bus_vars, task_vars, queue_vars, local_vars
    <3>2. QED
      BY <3>1, GenuineFrame
  <2>5. QED
    BY <2>1, <2>2, <2>3, <2>4
<1>3. Real(Noise) /\ (reply # <<>> => Real(Head(reply)))
  <2>1. reply \in Seq(Char)
    BY DEF TypeOK, DriverTypeOK, BusTypeOK
  <2>2. QED
    BY <2>1 DEF Real, Noise, Genuine
<1>4. CASE Isr
  <2>1. UNCHANGED <<bridge_request_queue, req, submitted>>
    BY <1>4 DEF Isr, task_vars, queue_vars, local_vars
  <2>2. CASE HAL_UART_TxCpltCallback
    <3>1. \A i \in 1 .. RX_BUFFER_SIZE : Real(rx_buffer[i])'
      BY <1>3, <2>1, <2>2, GenuineChar
      DEF HAL_UART_TxCpltCallback, rx_vars, Genuine, Real
    <3>2. UNCHANGED <<reply, tx_frame>>
          /\ heard' \subseteq heard \cup {tx_frame}
      BY <2>2 DEF HAL_UART_TxCpltCallback
    <3>3. QED
      BY <2>1, <3>1, <3>2 DEF Genuine, Real
  <2>3. CASE UNCHANGED <<tx_frame, heard, reply, rx_buffer>>
    BY <2>1, <2>3, GenuineFrame
  <2>4. QED
    BY <1>4, <2>2, <2>3
    DEF Isr, TimerUpdate, Tim2IsrEnter, Tim2IsrSignal,
        rs485_tim3_period_elapsed_isr, tx_vars, rx_vars, bus_vars
<1>5. CASE UartError
  BY <1>5, GenuineFlush
  DEF UartError, UartLineError, TxDmaError, HAL_UART_ErrorCallback, tx_vars,
      bus_vars, queue_vars, local_vars
<1>6. CASE Bus
  <2>1. UNCHANGED <<bridge_request_queue, req, submitted, tx_frame>>
    BY <1>6
    DEF Bus, SlaveStartsReply, SlaveChar, SlaveCharDamaged, LineNoise,
        tx_vars, task_vars, queue_vars, local_vars
  <2>2. CASE SlaveStartsReply
    <3>1. PICK q \in heard : heard' = heard \ {q} /\ reply' = ReplyFrame(q)
      BY <2>2 DEF SlaveStartsReply
    <3>2. \A i \in 1 .. Len(reply') : Real(reply'[i])
      BY <3>1, DriverAssumption DEF ReplyFrame, Genuine, Real
    <3>3. UNCHANGED rx_buffer
      BY <2>2 DEF SlaveStartsReply, rx_vars
    <3>4. QED
      BY <2>1, <3>1, <3>2, <3>3 DEF Genuine, Real
  <2>3. CASE SlaveChar \/ SlaveCharDamaged
    <3>1. /\ reply \in Seq(Char) /\ reply # <<>> /\ reply' = Tail(reply)
          /\ UNCHANGED heard
      BY <2>3
      DEF SlaveChar, SlaveCharDamaged, TypeOK, DriverTypeOK, BusTypeOK
    <3>2. \A i \in 1 .. RX_BUFFER_SIZE : Real(rx_buffer[i])'
      BY <1>3, <2>1, <2>3, <3>1, GenuineChar
      DEF SlaveChar, SlaveCharDamaged, rx_vars, Genuine, Real
    <3>3. \A i \in 1 .. Len(reply') : Real(reply'[i])
      BY <3>1 DEF Genuine, Real
    <3>4. QED
      BY <2>1, <3>1, <3>2, <3>3 DEF Genuine, Real
  <2>4. CASE LineNoise
    <3>1. \A i \in 1 .. RX_BUFFER_SIZE : Real(rx_buffer[i])'
      BY <1>3, <2>1, <2>4, GenuineChar DEF LineNoise, rx_vars, Genuine, Real
    <3>2. UNCHANGED <<heard, reply>>
      BY <2>4 DEF LineNoise, bus_vars
    <3>3. QED
      BY <2>1, <3>1, <3>2 DEF Genuine, Real
  <2>5. QED
    BY <1>6, <2>2, <2>3, <2>4 DEF Bus
<1>7. CASE Submit
  <2>1. submitted \in Nat /\ submitted' = submitted + 1
    BY <1>7 DEF Submit, TypeOK, QueueTypeOK
  <2>2. UNCHANGED <<req, tx_frame, heard, reply, rx_buffer>>
    BY <1>7 DEF Submit, driver_vars, tx_vars, rx_vars, bus_vars, local_vars
  <2>3. \A i \in 1 .. Len(bridge_request_queue') :
          Real(bridge_request_queue[i])'
    BY <1>7, <2>1 DEF Submit, TypeOK, QueueTypeOK, Genuine, Real
  <2>4. \A x : Real(x) => (x.unit # 0 => x.tid \in 1 .. submitted')
    BY <2>1 DEF Real
  <2>5. QED
    BY <2>2, <2>3, <2>4 DEF Genuine, Real
<1>8. CASE Collect
  BY <1>8, GenuineFrame
  DEF Collect, driver_vars, tx_vars, rx_vars, bus_vars, local_vars
<1>9. QED
  BY <1>1, <1>2, <1>4, <1>5, <1>6, <1>7, <1>8 DEF Next

-----------------------------------------------------------------------------
(* The examination of a frame in place.                                    *)

(***************************************************************************)
(* While the task examines the frame it reads no further than the handler  *)
(* had written when rx_len was read, and the handler writes only beyond;   *)
(* so what a check has established is still true when the frame is copied. *)
(***************************************************************************)
ExamInv ==
  "rx" \notin err_in =>
    /\ pc \in Reading => rx_len <= rx_index
    /\ pc \in {"unit", "build"} => CrcOk(rx_buffer, rx_len)
    /\ pc = "build" => rx_buffer[1].unit = req.unit

\* The frame under examination, and what was found out about it.
FrameSame ==
  /\ UNCHANGED <<pc, rx_len, req>>
  /\ rx_index' \in Nat /\ rx_index <= rx_index'
  /\ \A i \in 1 .. rx_len : rx_buffer'[i] = rx_buffer[i]

LEMMA CrcOkLocal ==
  ASSUME NEW b1, NEW b2, NEW n, CrcOk(b1, n), \A i \in 1 .. n : b2[i] = b1[i]
  PROVE  CrcOk(b2, n) /\ b2[1] = b1[1]
<1>1. n = ReplyLen /\ 1 \in 1 .. ReplyLen
  BY DriverAssumption DEF CrcOk
<1>2. QED
  BY <1>1 DEF CrcOk

\* A received character is stored beyond the frame under examination.
LEMMA CharBeyondFrame ==
  ASSUME TypeOK, ExamInv, NEW c, rs485_uart_rx_isr(c), pc \in Reading,
         "rx" \notin err_in
  PROVE  /\ rx_index' \in Nat /\ rx_index <= rx_index'
         /\ \A i \in 1 .. rx_len : rx_buffer'[i] = rx_buffer[i]
BY DriverAssumption
DEF TypeOK, DriverTypeOK, RxTypeOK, LocalTypeOK, ExamInv, rs485_uart_rx_isr

LEMMA ExamFrame ==
  ASSUME TypeOK, ExamInv, UNCHANGED <<pc, rx_len, req, err_in>>,
         pc \in Reading /\ "rx" \notin err_in => FrameSame
  PROVE  ExamInv'
<1> SUFFICES ASSUME "rx" \notin err_in PROVE ExamInv'
  BY DEF ExamInv
<1>1. CASE pc \notin Reading
  BY <1>1 DEF ExamInv, Reading
<1>2. CASE pc \in Reading
  <2>1. FrameSame
    BY <1>2
  <2>2. rx_len' <= rx_index'
    BY <1>2, <2>1, DriverAssumption
    DEF ExamInv, FrameSame, TypeOK, DriverTypeOK, RxTypeOK, LocalTypeOK
  <2>3. ASSUME pc \in {"unit", "build"}
        PROVE  CrcOk(rx_buffer', rx_len') /\ rx_buffer'[1] = rx_buffer[1]
    BY <2>1, <2>3, CrcOkLocal DEF ExamInv, FrameSame
  <2>4. QED
    BY <2>2, <2>3 DEF ExamInv
<1>3. QED
  BY <1>1, <1>2

\* What an interrupt or the bus does to the frame under examination.
LEMMA OthersKeepFrame ==
  ASSUME TypeOK, TimersOnlyInWindow, ExamInv, pc \in Reading,
         "rx" \notin err_in, Isr \/ Bus \/ Submit \/ Collect
  PROVE  FrameSame
<1>1. rx_index \in Nat
  BY DriverAssumption DEF TypeOK, DriverTypeOK, RxTypeOK
<1>2. UNCHANGED <<pc, rx_len, req>>
  BY DEF Isr, Bus, Submit, Collect, task_vars, local_vars
<1>3. \/ UNCHANGED <<rx_buffer, rx_index>>
      \/ \E c : rs485_uart_rx_isr(c)
  BY DEF Isr, TimerUpdate, Tim2IsrEnter, Tim2IsrSignal,
         rs485_tim3_period_elapsed_isr, HAL_UART_TxCpltCallback, Bus,
         SlaveStartsReply, SlaveChar, SlaveCharDamaged, LineNoise, Submit,
         Collect, driver_vars, rx_vars
<1>4. QED
  BY <1>1, <1>2, <1>3, CharBeyondFrame DEF FrameSame

LEMMA InitExam == Init => ExamInv
BY DEF Init, ExamInv, Reading

LEMMA NextExam ==
  TypeOK /\ TimersOnlyInWindow /\ ExamInv /\ [Next]_vars => ExamInv'
<1> SUFFICES ASSUME TypeOK, TimersOnlyInWindow, ExamInv, [Next]_vars
             PROVE  ExamInv'
  OBVIOUS
<1>1. CASE UNCHANGED vars
  BY <1>1 DEF vars, driver_vars, rx_vars, task_vars, local_vars, hist_vars,
              ExamInv
<1>2. CASE Task
  <2>1. CASE ReadLen
    BY <2>1
    DEF ReadLen, Step, driver_vars, rx_vars, ExamInv, TypeOK, DriverTypeOK,
        RxTypeOK
  <2>2. CASE CheckCrcGood \/ CheckUnitGood
    BY <2>2
    DEF CheckCrcGood, CheckUnitGood, Move, Step, driver_vars, rx_vars,
        task_vars, local_vars, hist_vars, ExamInv, Reading
  <2>3. CASE ~(ReadLen \/ CheckCrcGood \/ CheckUnitGood)
    <3>1. pc' \notin Reading
      BY <1>2, <2>3
      DEF Task, Dequeue, Drain, ClearFlags, ClearBuffer, ArmTx, TransmitMode,
          StartDma, TxComplete, TxTimeout, StartRx, WaitTake, WaitTimeout,
          StopRx, CheckTimeout, CheckNoTimeout, CheckSpurious, CheckFrame,
          CheckLen, CheckCrcBad, CheckUnitBad, BuildResponse, SendReject,
          SendFail, SendTxTimeout, SendOk, Send, Guard, Move, Step, Reading
    <3>2. QED
      BY <3>1 DEF ExamInv, Reading
  <2>4. QED
    BY <2>1, <2>2, <2>3
<1>3. CASE Isr \/ Bus \/ Submit \/ Collect
  <2>1. UNCHANGED <<pc, rx_len, req, err_in>>
    BY <1>3 DEF Isr, Bus, Submit, Collect, task_vars, local_vars, hist_vars
  <2>2. QED
    BY <1>3, <2>1, OthersKeepFrame, ExamFrame
<1>4. CASE UartError
  BY <1>4 DEF UartError, ExamInv, Reading, RxPhase
<1>5. QED
  BY <1>1, <1>2, <1>3, <1>4 DEF Next

ReplyInv == TypeOK /\ TimersOnlyInWindow /\ Genuine /\ ExamInv

LEMMA ReplyInvariant == Spec => []ReplyInv
<1>1. Init => ReplyInv
  BY InitTypeOK, InitTimers, InitGenuine, InitExam DEF ReplyInv
<1>2. ReplyInv /\ [Next]_vars => ReplyInv'
  BY NextTypeOK, NextTimers, NextGenuine, NextExam DEF ReplyInv
<1>3. QED
  BY <1>1, <1>2, PTL DEF Spec

LEMMA FrameStableStep ==
  ReplyInv /\ [Next]_vars =>
    [{pc, pc'} \subseteq Reading /\ "rx" \notin err_in'
     => \A i \in 1 .. rx_len : rx_buffer'[i] = rx_buffer[i]]_vars
<1> SUFFICES ASSUME ReplyInv, Next, pc \in Reading, pc' \in Reading,
                    "rx" \notin err_in'
             PROVE  \A i \in 1 .. rx_len : rx_buffer'[i] = rx_buffer[i]
  OBVIOUS
<1>1. CASE Task
  <2>1. CheckCrcGood \/ CheckUnitGood
    BY <1>1
    DEF Task, Dequeue, Drain, ClearFlags, ClearBuffer, ArmTx, TransmitMode,
        StartDma, TxComplete, TxTimeout, StartRx, WaitTake, WaitTimeout,
        StopRx, CheckTimeout, CheckNoTimeout, CheckSpurious, CheckFrame,
        ReadLen, CheckLen, CheckCrcBad, CheckUnitBad, BuildResponse,
        SendReject, SendFail, SendTxTimeout, SendOk, Send, Guard, Move, Step,
        Reading
  <2>2. QED
    BY <2>1 DEF CheckCrcGood, CheckUnitGood, Move, driver_vars, rx_vars
<1>2. CASE Isr \/ Bus \/ Submit \/ Collect
  <2>1. "rx" \notin err_in
    BY <1>2 DEF Isr, Bus, Submit, Collect, task_vars, hist_vars
  <2>2. QED
    BY <1>2, <2>1, OthersKeepFrame DEF ReplyInv, FrameSame
<1>3. CASE UartError
  BY <1>3 DEF UartError, Reading, RxPhase
<1>4. QED
  BY <1>1, <1>2, <1>3 DEF Next

\* The frame does not change under the task's hands between the CRC check and
\* the copy (STEPs 6 and 7), for all that the receive interrupt is enabled.
THEOREM FrameDoesNotChange == Spec => FrameStable
<1>1. Spec => [][Next]_vars
  BY PTL DEF Spec
<1>2. QED
  BY <1>1, ReplyInvariant, FrameStableStep, PTL DEF FrameStable

-----------------------------------------------------------------------------
(* The data response.                                                      *)

\* The copy of a frame whose CRC and unit are right is a slave's reply.
LEMMA DataResponseIntegrity ==
  ASSUME ReplyInv, pc = "build", "rx" \notin err_in
  PROVE  /\ Len(DataResponse.body) = ReplyLen
         /\ \E tid \in 1 .. submitted :
              DataResponse.body =
                ReplyFrame([unit |-> DataResponse.mbap.unit, tid |-> tid])
<1>1. /\ CrcOk(rx_buffer, rx_len)
      /\ rx_buffer[1].unit = req.unit
  BY DEF ReplyInv, ExamInv
<1>2. resp \in Response
  BY DEF ReplyInv, TypeOK, LocalTypeOK
<1>3. /\ DataResponse.body = [i \in 1 .. rx_len |-> rx_buffer[i]]
      /\ DataResponse.mbap.unit = req.unit
  BY <1>2 DEF DataResponse, Response, MbapOf
<1>4. /\ rx_len = ReplyLen
      /\ rx_buffer[1].unit # 0
      /\ \A i \in 1 .. ReplyLen :
           rx_buffer[i] = [unit |-> rx_buffer[1].unit,
                           tid |-> rx_buffer[1].tid, pos |-> i]
  BY <1>1 DEF CrcOk
<1>5. rx_buffer[1].tid \in 1 .. submitted
  BY <1>4, DriverAssumption DEF ReplyInv, Genuine, Real
<1>6. DataResponse.body =
        ReplyFrame([unit |-> req.unit, tid |-> rx_buffer[1].tid])
  BY <1>1, <1>3, <1>4 DEF ReplyFrame
<1>7. Len(DataResponse.body) = ReplyLen
  BY <1>3, <1>4, DriverAssumption
<1>8. QED
  BY <1>3, <1>5, <1>6, <1>7

LEMMA NextReply ==
  ReplyInv /\ ReplyIntegrity /\ [Next]_vars => ReplyIntegrity'
<1> SUFFICES ASSUME ReplyInv, ReplyIntegrity, [Next]_vars, pc' = "send_ok"
             PROVE  ReplyIntegrity'
  BY DEF ReplyIntegrity
<1>1. CASE BuildResponse
  <2>1. /\ pc = "build" /\ resp' = DataResponse /\ UNCHANGED submitted
    BY <1>1 DEF BuildResponse, Step, queue_vars
  <2>2. DataResponse.err = err_in
    BY DEF ReplyInv, TypeOK, LocalTypeOK, DataResponse, Response
  <2>3. QED
    BY <2>1, <2>2, DataResponseIntegrity DEF ReplyIntegrity
<1>2. CASE ~BuildResponse
  <2>1. /\ pc = "send_ok" /\ resp' = resp
        /\ submitted' \in {submitted, submitted + 1}
    BY <1>2
    DEF Next, Task, Dequeue, Drain, ClearFlags, ClearBuffer, ArmTx,
        TransmitMode, StartDma, TxComplete, TxTimeout, StartRx, WaitTake,
        WaitTimeout, StopRx, CheckTimeout, CheckNoTimeout, CheckSpurious,
        CheckFrame, ReadLen, CheckLen, CheckCrcBad, CheckCrcGood,
        CheckUnitBad, CheckUnitGood, SendReject, SendFail, SendTxTimeout,
        SendOk, Send, Guard, Move, Step, Isr, UartError, Bus, Submit, Collect,
        vars, task_vars, queue_vars, local_vars
  <2>2. 1 .. submitted \subseteq 1 .. submitted'
    BY <2>1 DEF ReplyInv, TypeOK, QueueTypeOK
  <2>3. QED
    BY <2>1, <2>2, Zenon DEF ReplyIntegrity
<1>3. QED
  BY <1>1, <1>2

\* A data response carries one reply, whole, of the slave that was addressed,
\* unless a UART error came while the frame was examined (STEPs 5 to 7).
THEOREM RepliesAreWhole == Spec => []ReplyIntegrity
<1>1. Init => ReplyIntegrity
  BY DEF Init, ReplyIntegrity
<1>2. QED
  BY <1>1, ReplyInvariant, NextReply, PTL DEF Spec

-----------------------------------------------------------------------------
(* The engine as a Gateway.  The invariant: the request being served is    *)
(* what its place says, and a response about to be sent answers it.        *)

Sending == {"send_reject", "send_txto", "send_fail", "send_ok"}
OnBus == RxPhase \cup {"drain", "clear", "memset", "arm", "tx_mode", "hal_tx",
                       "poll_tx", "send_txto", "send_fail", "send_ok"}

AnswerInv ==
  /\ pc \in OnBus => req.protocol_id = 0 /\ req.unit \in 1 .. 247
  /\ pc \in Sending => AsAnswer(resp) \in G!AnswersTo(req)

\* STEP 1 in the terms of Gateway.
LEMMA ValidateMeans ==
  ASSUME NEW r \in Request
  PROVE  /\ Validate(r) \in {"bad_protocol", "bad_unit", "accept"}
         /\ Validate(r) = "bad_protocol" <=> r.protocol_id # 0
         /\ Validate(r) = "accept" <=>
              r.protocol_id = 0 /\ r.unit \in 1 .. 247
BY DEF Request, ForwardedLen, Validate, TooShort, BadProtocol, BadUnit,
       BadPdu, PduLen, MODBUS_TCP_MAX_ADU_SIZE, MODBUS_MBAP_HEADER_SIZE

LEMMA RejectAnswers ==
  ASSUME resp \in Response, NEW r \in Request, Validate(r) # "accept"
  PROVE  AsAnswer(RejectResponse(r, Validate(r))) \in G!AnswersTo(r)
<1>1. CASE Validate(r) = "bad_protocol"
  <2>1. AsAnswer(RejectResponse(r, Validate(r))) =
          [client_sock |-> r.client_sock, kind |-> "path_unavailable",
           unit |-> r.unit, tid |-> r.tid]
    BY <1>1
    DEF Response, RejectResponse, AsAnswer, KindOf, MbapOf, ExceptionLen,
        MODBUS_EXC_GATEWAY_PATH_UNAVAILABLE, MODBUS_EXC_GATEWAY_TARGET_FAILED
  <2>2. r.protocol_id # 0
    BY <1>1, ValidateMeans
  <2>3. QED
    BY <2>1, <2>2 DEF G!AnswersTo, G!Framed
<1>2. CASE Validate(r) = "bad_unit"
  <2>1. AsAnswer(RejectResponse(r, Validate(r))) =
          [client_sock |-> r.client_sock, kind |-> "bare",
           unit |-> 0, tid |-> 0]
    BY <1>2 DEF Response, RejectResponse, AsAnswer, KindOf
  <2>2. r.protocol_id = 0 /\ r.unit \notin 1 .. 247
    BY <1>2, ValidateMeans
  <2>3. QED
    BY <2>1, <2>2 DEF G!AnswersTo, G!Bare
<1>3. QED
  BY <1>1, <1>2, ValidateMeans

LEMMA FailureAnswers ==
  ASSUME TypeOK, req.protocol_id = 0, req.unit \in 1 .. 247, NEW status,
         NEW r, r = ExceptionResponse(status, MODBUS_EXC_GATEWAY_TARGET_FAILED)
  PROVE  AsAnswer(r) \in G!AnswersTo(req)
<1>1. resp \in Response
  BY DEF TypeOK, LocalTypeOK
<1>2. AsAnswer(r) = [client_sock |-> req.client_sock, kind |-> "target_failed",
                     unit |-> req.unit, tid |-> req.tid]
  BY <1>1
  DEF Response, ExceptionResponse, AsAnswer, KindOf, MbapOf, ExceptionLen,
      MODBUS_EXC_GATEWAY_PATH_UNAVAILABLE, MODBUS_EXC_GATEWAY_TARGET_FAILED
<1>3. QED
  BY <1>2 DEF G!AnswersTo, G!Framed

LEMMA DataAnswers ==
  ASSUME TypeOK, req.protocol_id = 0, req.unit \in 1 .. 247
  PROVE  AsAnswer(DataResponse) \in G!AnswersTo(req)
<1>1. resp \in Response /\ rx_len \in Nat
  BY DriverAssumption DEF TypeOK, LocalTypeOK
<1>2. /\ DataResponse.frame_len # 0 /\ DataResponse.exc = 0
      /\ DataResponse.client_sock = req.client_sock
      /\ DataResponse.mbap = MbapOf(req)
  BY <1>1 DEF Response, DataResponse, TcpResponseLen, MODBUS_MBAP_HEADER_SIZE
<1>3. AsAnswer(DataResponse) =
        [client_sock |-> req.client_sock, kind |-> "data",
         unit |-> req.unit, tid |-> req.tid]
  BY <1>2
  DEF AsAnswer, KindOf, MbapOf, MODBUS_EXC_GATEWAY_PATH_UNAVAILABLE,
      MODBUS_EXC_GATEWAY_TARGET_FAILED
<1>4. QED
  BY <1>3 DEF G!AnswersTo, G!Framed

LEMMA InitAnswer == Init => AnswerInv
BY DEF Init, AnswerInv, OnBus, Sending, RxPhase

LEMMA NextAnswer == TypeOK /\ AnswerInv /\ [Next]_vars => AnswerInv'
<1> SUFFICES ASSUME TypeOK, AnswerInv, [Next]_vars PROVE AnswerInv'
  OBVIOUS
<1>1. CASE UNCHANGED <<pc, req, resp>>
  BY <1>1 DEF AnswerInv, G!AnswersTo, AsAnswer
<1>2. CASE Dequeue
  <2>1. resp \in Response /\ req' \in Request
    BY <1>2 DEF Dequeue, TypeOK, LocalTypeOK, QueueTypeOK
  <2>2. CASE Validate(req') = "accept"
    <3>1. pc' = "drain"
      BY <1>2, <2>2 DEF Dequeue
    <3>2. QED
      BY <2>1, <2>2, <3>1, ValidateMeans DEF AnswerInv, Sending
  <2>3. CASE Validate(req') # "accept"
    <3>1. pc' = "send_reject" /\ resp' = RejectResponse(req', Validate(req'))
      BY <1>2, <2>3 DEF Dequeue
    <3>2. AsAnswer(resp') \in G!AnswersTo(req')
      BY <2>1, <2>3, <3>1, RejectAnswers
    <3>3. QED
      BY <3>1, <3>2 DEF AnswerInv, OnBus, RxPhase
  <2>4. QED
    BY <2>2, <2>3
<1>3. CASE TxTimeout \/ CheckTimeout \/ CheckLen \/ CheckCrcBad \/ CheckUnitBad
  <2>1. /\ pc \in OnBus /\ req' = req
        /\ \E status : resp' = ExceptionResponse(status,
                                 MODBUS_EXC_GATEWAY_TARGET_FAILED)
    BY <1>3
    DEF TxTimeout, CheckTimeout, CheckLen, CheckCrcBad, CheckUnitBad,
        RejectFrame, Step, OnBus, RxPhase
  <2>2. AsAnswer(resp') \in G!AnswersTo(req')
    BY <2>1, FailureAnswers DEF AnswerInv
  <2>3. QED
    BY <2>1, <2>2 DEF AnswerInv
<1>4. CASE BuildResponse
  <2>1. pc \in OnBus /\ req' = req /\ resp' = DataResponse
    BY <1>4 DEF BuildResponse, Step, OnBus, RxPhase
  <2>2. AsAnswer(resp') \in G!AnswersTo(req')
    BY <2>1, DataAnswers DEF AnswerInv
  <2>3. QED
    BY <2>1, <2>2 DEF AnswerInv
<1>5. CASE /\ Task
           /\ ~(Dequeue \/ TxTimeout \/ CheckTimeout \/ CheckLen
                \/ CheckCrcBad \/ CheckUnitBad \/ BuildResponse)
  <2>1. req' = req /\ pc' \notin Sending /\ (pc' \in OnBus => pc \in OnBus)
    BY <1>5
    DEF Task, Drain, ClearFlags, ClearBuffer, ArmTx, TransmitMode, StartDma,
        TxComplete, StartRx, WaitTake, WaitTimeout, StopRx, CheckNoTimeout,
        CheckSpurious, CheckFrame, ReadLen, CheckCrcGood, CheckUnitGood,
        SendReject, SendFail, SendTxTimeout, SendOk, Send, Guard, Move, Step,
        task_vars, local_vars, Sending, OnBus, RxPhase
  <2>2. QED
    BY <2>1 DEF AnswerInv
<1>6. QED
  BY <1>1, <1>2, <1>3, <1>4, <1>5
  DEF Next, Isr, UartError, Bus, Submit, Collect, vars, task_vars, local_vars

-----------------------------------------------------------------------------
(* The refinement.                                                         *)

\* The answers in the response queue, as Gateway sees them.
Answers(q) == [i \in 1 .. Len(q) |-> AsAnswer(q[i])]

LEMMA AnswersAppend ==
  ASSUME NEW q \in Seq(Response), NEW r \in Response
  PROVE  /\ Answers(Append(q, r)) = Append(Answers(q), AsAnswer(r))
         /\ Len(Answers(q)) = Len(q)
<1>1. \A i \in 1 .. Len(q) : Append(q, r)[i] = q[i]
  OBVIOUS
<1>2. Append(q, r)[Len(q) + 1] = r /\ Len(Append(q, r)) = Len(q) + 1
  OBVIOUS
<1>3. Len(Answers(q)) = Len(q)
  BY DEF Answers
<1>4. QED
  BY <1>1, <1>2, <1>3 DEF Answers

LEMMA AnswersTail ==
  ASSUME NEW q \in Seq(Response), q # <<>>
  PROVE  Answers(q) # <<>> /\ Answers(Tail(q)) = Tail(Answers(q))
<1>1. Len(Tail(q)) = Len(q) - 1 /\ Len(q) >= 1
  OBVIOUS
<1>2. \A i \in 1 .. Len(q) - 1 : Tail(q)[i] = q[i + 1]
  OBVIOUS
<1>3. Len(Answers(q)) = Len(q)
  BY DEF Answers
<1>4. QED
  BY <1>1, <1>2, <1>3 DEF Answers

LEMMA InitGateway == Init => G!Init
BY DEF Init, G!Init, InService

\* What Gateway sees of a step that leaves the queues alone.
LEMMA GatewayVars ==
  ASSUME UNCHANGED queue_vars,
         \/ InService /\ InService' /\ req' = req
         \/ ~InService /\ ~InService'
  PROVE  UNCHANGED G!vars
<1>1. UNCHANGED <<bridge_request_queue, bridge_response_queue, submitted>>
  BY DEF queue_vars
<1>2. (IF InService THEN {req} ELSE {})' = (IF InService THEN {req} ELSE {})
  OBVIOUS
<1>3. QED
  BY <1>1, <1>2 DEF G!vars

LEMMA NextGateway ==
  TypeOK /\ AnswerInv /\ [Next]_vars => [G!Next]_(G!vars)
<1> SUFFICES ASSUME TypeOK, AnswerInv, [Next]_vars
             PROVE  G!Next \/ UNCHANGED G!vars
  OBVIOUS
<1>1. /\ bridge_request_queue \in Seq(Request)
      /\ bridge_response_queue \in Seq(Response)
      /\ resp \in Response
  BY DEF TypeOK, QueueTypeOK, LocalTypeOK
<1>2. CASE UNCHANGED <<queue_vars, req, pc>>
  <2>1. InService' <=> InService
    BY <1>2 DEF InService
  <2>2. QED
    BY <1>2, <2>1, GatewayVars
<1>3. CASE Dequeue
  <2>1. ~InService /\ InService'
    BY <1>3 DEF Dequeue, InService
  <2>2. /\ bridge_request_queue # <<>>
        /\ req' = Head(bridge_request_queue)
        /\ bridge_request_queue' = Tail(bridge_request_queue)
        /\ UNCHANGED <<bridge_response_queue, submitted>>
    BY <1>3 DEF Dequeue
  <2>3. G!Take
    BY <2>1, <2>2 DEF G!Take
  <2>4. QED
    BY <2>3 DEF G!Next
<1>4. CASE CheckSpurious
  <2>1. InService /\ ~InService' /\ UNCHANGED queue_vars
    BY <1>4 DEF CheckSpurious, Step, InService
  <2>2. req.protocol_id = 0 /\ req.unit \in 1 .. 247
    BY <1>4 DEF CheckSpurious, Step, AnswerInv, OnBus, RxPhase
  <2>3. G!GiveUp
    BY <2>1, <2>2 DEF G!GiveUp, queue_vars
  <2>4. QED
    BY <2>3 DEF G!Next
<1>5. ASSUME NEW from \in Sending, NEW to \in {"receive", "guard"},
             Send(from, to)
      PROVE  G!Next
  <2>1. /\ InService /\ ~InService'
        /\ AsAnswer(resp) \in G!AnswersTo(req)
        /\ UNCHANGED <<bridge_request_queue, submitted>>
    BY <1>5 DEF Send, Step, InService, AnswerInv, Sending
  <2>2. CASE Enqueue
    <3>1. Answers(bridge_response_queue') =
            Append(Answers(bridge_response_queue), AsAnswer(resp))
      BY <1>1, <2>2, AnswersAppend DEF Enqueue
    <3>2. Len(Answers(bridge_response_queue)) < RESP_LEN
      BY <1>1, <2>2, AnswersAppend DEF Enqueue
    <3>3. G!Answer
      BY <2>1, <3>1, <3>2 DEF G!Answer, Answers
    <3>4. QED
      BY <3>3 DEF G!Next
  <2>3. CASE EnqueueTimeout
    <3>1. Len(Answers(bridge_response_queue)) >= RESP_LEN
      BY <1>1, <2>3, AnswersAppend DEF EnqueueTimeout
    <3>2. G!LoseAnswer
      BY <2>1, <2>3, <3>1 DEF G!LoseAnswer, EnqueueTimeout, Answers
    <3>3. QED
      BY <3>2 DEF G!Next
  <2>4. QED
    BY <1>5, <2>2, <2>3 DEF Send
<1>6. CASE SendReject \/ SendFail \/ SendTxTimeout \/ SendOk
  BY <1>5, <1>6 DEF SendReject, SendFail, SendTxTimeout, SendOk, Sending
<1>7. CASE Guard
  BY <1>7, GatewayVars DEF Guard, Move, Step, task_vars, InService
<1>8. CASE /\ Task
           /\ ~(Dequeue \/ CheckSpurious \/ SendReject \/ SendFail
                \/ SendTxTimeout \/ SendOk \/ Guard)
  \* The inner steps of a transaction.
  <2>1. /\ InService /\ InService'
        /\ UNCHANGED queue_vars /\ req' = req
    BY <1>8
    DEF Task, Drain, ClearFlags, ClearBuffer, ArmTx, TransmitMode, StartDma,
        TxComplete, TxTimeout, StartRx, WaitTake, WaitTimeout, StopRx,
        CheckTimeout, CheckNoTimeout, CheckFrame, ReadLen, CheckLen,
        CheckCrcBad, CheckCrcGood, CheckUnitBad, CheckUnitGood, RejectFrame,
        BuildResponse, Move, Step, task_vars, local_vars, InService
  <2>2. QED
    BY <2>1, GatewayVars
<1>9. CASE Submit
  <2>1. UNCHANGED <<req, pc>>
    BY <1>9 DEF Submit, local_vars
  <2>2. G!Submit
    BY <1>9, <2>1 DEF Submit, G!Submit, InService
  <2>3. QED
    BY <2>2 DEF G!Next
<1>10. CASE Collect
  <2>1. UNCHANGED <<req, pc, bridge_request_queue, submitted>>
    BY <1>10 DEF Collect, local_vars
  <2>2. /\ Answers(bridge_response_queue) # <<>>
        /\ Answers(bridge_response_queue') =
             Tail(Answers(bridge_response_queue))
    BY <1>1, <1>10, AnswersTail DEF Collect
  <2>3. G!Collect
    BY <2>1, <2>2 DEF G!Collect, Answers, InService
  <2>4. QED
    BY <2>3 DEF G!Next
<1>11. QED
  BY <1>2, <1>3, <1>4, <1>6, <1>7, <1>8, <1>9, <1>10
  DEF Next, Isr, UartError, Bus, vars, task_vars, local_vars

\* The bridge task and its queues keep the promise of Gateway: requests are
\* served in order, one at a time, and answered at most once, to their own
\* client, under their own header, with an answer of the right kind.
THEOREM BridgeImplementsGateway == Spec => GatewaySpec
<1>1. Init => TypeOK /\ AnswerInv
  BY InitTypeOK, InitAnswer
<1>2. TypeOK /\ AnswerInv /\ [Next]_vars => (TypeOK /\ AnswerInv)'
  BY NextTypeOK, NextAnswer
<1>3. QED
  BY <1>1, <1>2, InitGateway, NextGateway, PTL DEF Spec, GatewaySpec, G!Spec
=============================================================================

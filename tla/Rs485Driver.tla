---------------------------- MODULE Rs485Driver -----------------------------
(***************************************************************************)
(* rs485_driver.c: the half-duplex RS485 driver, its interrupt handlers    *)
(* and the hardware they serve (USART1, DMA2 Stream7, TIM2, TIM3, the bus). *)
(*                                                                         *)
(* The functions the bridge task calls are operators that constrain the    *)
(* next values of the driver's variables; BridgeEngine uses them in the    *)
(* task's steps.  The interrupt handlers are actions of this module.       *)
(*                                                                         *)
(* Preemption (main.c and rs485_driver.c set the priorities): USART1 and   *)
(* DMA2_Stream7 (6) preempt TIM2 and TIM3 (7), which cannot preempt one    *)
(* another; all of them preempt the tasks.                                 *)
(*                                                                         *)
(* Data: a character on the bus is a record [unit, tid, pos]: position pos *)
(* of the reply that slave unit gives to transaction tid.                  *)
(***************************************************************************)
EXTENDS Integers, Sequences

CONSTANTS
  RX_BUFFER_SIZE,  \* MODBUS_RTU_MAX_ADU_SIZE (256 in app_config.h)
  ReplyLen,        \* characters in a slave's reply (a whole RTU frame)
  MaxFaults        \* bound: line errors and noise characters in a behaviour

ASSUME DriverAssumption ==
  /\ ReplyLen \in Nat /\ ReplyLen >= 4
  /\ RX_BUFFER_SIZE \in Nat /\ RX_BUFFER_SIZE >= ReplyLen
  /\ MaxFaults \in Nat

VARIABLES
  de,                  \* RS485_DE_PIN: TRUE drives the bus
  rxneie,              \* UART_IT_RXNE enabled
  rxne,                \* an unread character waits in the data register
  gState,              \* huart_rs485.gState: "READY" or "BUSY_TX"
  tx_frame,            \* who the last frame handed to the DMA is for
  tx_intact,           \* ... and whether it is whole on the bus so far
  tx_done_flag,
  tx_done_semaphore,   \* given by the callback, taken by nobody
  rx_buffer,
  rx_index,
  rx_frame_complete,
  rx_timeout_flag,
  rx_frame_semaphore,
  running,             \* [Timers -> BOOLEAN]: counter and update IT enabled
  uif,                 \* [Timers -> BOOLEAN]: TIM_FLAG_UPDATE, ISR pending
  isr,                 \* "none", or "tim2" inside the TIM2 handler
  heard,               \* frames that reached their slave, not answered yet
  reply,               \* characters the answering slave has still to send
  faults,              \* line faults so far
  uart_errors          \* g_bridge_diag.uart_errors

tx_vars  == <<de, rxneie, rxne, gState, tx_frame, tx_intact, tx_done_flag,
              tx_done_semaphore>>
rx_vars  == <<rx_buffer, rx_index, rx_frame_complete, rx_timeout_flag,
              rx_frame_semaphore>>
tim_vars == <<running, uif, isr>>
bus_vars == <<heard, reply>>
flt_vars == <<faults, uart_errors>>
driver_vars == <<tx_vars, rx_vars, tim_vars, bus_vars, flt_vars>>

Timers == {"silence", "timeout"}    \* TIM2, TIM3

Target == [unit : 0 .. 255, tid : Nat]
Char   == [unit : 0 .. 255, tid : Nat, pos : Nat]
Zero   == [unit |-> 0, tid |-> 0, pos |-> 0]     \* what memset leaves
Noise  == [unit |-> 0, tid |-> 0, pos |-> 1]     \* not sent by any slave
NoTarget == [unit |-> 0, tid |-> 0]

ReplyFrame(q) ==
  [i \in 1 .. ReplyLen |-> [unit |-> q.unit, tid |-> q.tid, pos |-> i]]

(***************************************************************************)
(* modbus_crc16 over the first len bytes matches: those bytes are one      *)
(* slave's reply, whole and unchanged.  Chance collisions of the 16-bit    *)
(* code are not modelled.                                                  *)
(***************************************************************************)
CrcOk(buf, len) ==
  /\ len = ReplyLen
  /\ buf[1].unit # 0
  /\ \A i \in 1 .. ReplyLen :
       buf[i] = [unit |-> buf[1].unit, tid |-> buf[1].tid, pos |-> i]

ZeroBuffer == [i \in 1 .. RX_BUFFER_SIZE |-> Zero]

DriverInit ==
  /\ de = FALSE /\ rxneie = FALSE /\ rxne = FALSE
  /\ gState = "READY" /\ tx_frame = NoTarget /\ tx_intact = FALSE
  /\ tx_done_flag = FALSE /\ tx_done_semaphore = 0
  /\ rx_buffer = ZeroBuffer /\ rx_index = 0
  /\ rx_frame_complete = FALSE /\ rx_timeout_flag = FALSE
  /\ rx_frame_semaphore = 0
  /\ running = [t \in Timers |-> FALSE]
  /\ uif = [t \in Timers |-> FALSE]
  /\ isr = "none"
  /\ heard = {} /\ reply = <<>>
  /\ faults = 0 /\ uart_errors = 0

TxTypeOK ==
  /\ de \in BOOLEAN /\ rxneie \in BOOLEAN /\ rxne \in BOOLEAN
  /\ gState \in {"READY", "BUSY_TX"} /\ tx_frame \in Target
  /\ tx_intact \in BOOLEAN /\ tx_done_flag \in BOOLEAN
  /\ tx_done_semaphore \in {0, 1}
RxTypeOK ==
  /\ rx_buffer \in [1 .. RX_BUFFER_SIZE -> Char]
  /\ rx_index \in 0 .. RX_BUFFER_SIZE
  /\ rx_frame_complete \in BOOLEAN /\ rx_timeout_flag \in BOOLEAN
  /\ rx_frame_semaphore \in {0, 1}
TimTypeOK ==
  /\ running \in [Timers -> BOOLEAN] /\ uif \in [Timers -> BOOLEAN]
  /\ isr \in {"none", "tim2"}
BusTypeOK == heard \in SUBSET Target /\ reply \in Seq(Char)
FltTypeOK == faults \in 0 .. MaxFaults /\ uart_errors \in 0 .. faults
DriverTypeOK == TxTypeOK /\ RxTypeOK /\ TimTypeOK /\ BusTypeOK /\ FltTypeOK

-----------------------------------------------------------------------------
(* Functions called by the bridge task (and by the handlers below).        *)

rs485_set_transmit_mode == de' = TRUE /\ rxneie' = FALSE

\* Releasing DE while the USART still shifts cuts the frame on the bus: the
\* wait for TC in the code is bounded and its result is not looked at.
rs485_set_receive_mode ==
  /\ de' = FALSE /\ rxne' = FALSE /\ rxneie' = TRUE
  /\ tx_intact' = (tx_intact /\ gState = "READY")

\* rs485_transmit_dma, from its call of HAL_UART_Transmit_DMA on: the HAL
\* refuses (HAL_BUSY) while a transfer is in progress; the caller is not told.
HalTransmitDma(q) ==
  \/ /\ gState = "READY"
     /\ gState' = "BUSY_TX" /\ tx_frame' = q /\ tx_intact' = de
     /\ UNCHANGED <<de, rxneie, rxne>>
  \/ /\ gState = "BUSY_TX"
     /\ rs485_set_receive_mode
     /\ UNCHANGED <<gState, tx_frame>>

\* rs485_flush_rx_buffer is interruptible between its two halves.
FlushFlags ==
  rx_index' = 0 /\ rx_frame_complete' = FALSE /\ rx_timeout_flag' = FALSE
FlushMemory == rx_buffer' = ZeroBuffer
rs485_flush_rx_buffer == FlushFlags /\ FlushMemory

rs485_start_rx_timeout ==
  /\ running' = [t \in Timers |-> TRUE]
  /\ uif' = [t \in Timers |-> FALSE]

rs485_stop_rx_timeout == running' = [t \in Timers |-> FALSE]

-----------------------------------------------------------------------------
(* Interrupt handlers.                                                     *)

\* Mutants of rs485_uart_rx_isr: an off-by-one test, a circular buffer.
rs485_uart_rx_isr_OffByOne(c) ==
  /\ \/ /\ rx_index <= RX_BUFFER_SIZE
        /\ rx_index' = rx_index + 1
        /\ rx_buffer' = [rx_buffer EXCEPT ![rx_index + 1] = c]
     \/ /\ rx_index > RX_BUFFER_SIZE
        /\ UNCHANGED <<rx_index, rx_buffer>>
  /\ uif' = [uif EXCEPT !["silence"] = FALSE]
  /\ UNCHANGED <<rx_frame_complete, rx_timeout_flag, rx_frame_semaphore,
                 running, isr>>
rs485_uart_rx_isr_Wraps(c) ==
  /\ rx_index' = (rx_index % RX_BUFFER_SIZE) + 1
  /\ rx_buffer' = [rx_buffer EXCEPT ![rx_index'] = c]
  /\ uif' = [uif EXCEPT !["silence"] = FALSE]
  /\ UNCHANGED <<rx_frame_complete, rx_timeout_flag, rx_frame_semaphore,
                 running, isr>>

\* rs485_uart_rx_isr, first thing in USART1_IRQHandler: store the character
\* if there is room, restart the silence interval.
rs485_uart_rx_isr(c) ==
  /\ \/ /\ rx_index < RX_BUFFER_SIZE
        /\ rx_index' = rx_index + 1
        /\ rx_buffer' = [rx_buffer EXCEPT ![rx_index + 1] = c]
     \/ /\ rx_index >= RX_BUFFER_SIZE
        /\ UNCHANGED <<rx_index, rx_buffer>>
  /\ uif' = [uif EXCEPT !["silence"] = FALSE]
  /\ UNCHANGED <<rx_frame_complete, rx_timeout_flag, rx_frame_semaphore,
                 running, isr>>

\* The slave that answers sends its next character.  DE also disables the
\* receiver: what arrives while the bridge transmits is lost.
SlaveChar ==
  /\ reply # <<>> /\ reply' = Tail(reply)
  /\ \/ rxneie /\ rs485_uart_rx_isr(Head(reply))
     \/ ~rxneie /\ UNCHANGED <<rx_vars, tim_vars>>
  /\ UNCHANGED <<tx_vars, heard, flt_vars>>

\* As SlaveChar, but the character is received damaged.
SlaveCharDamaged ==
  /\ reply # <<>> /\ reply' = Tail(reply)
  /\ faults < MaxFaults /\ faults' = faults + 1
  /\ rxneie /\ rs485_uart_rx_isr(Noise)
  /\ UNCHANGED <<tx_vars, heard, uart_errors>>

\* A character nobody sent, from an undriven bus or, while DE is high, from
\* the floating receiver output.  With the interrupt off it stays in DR.
LineNoise ==
  /\ faults < MaxFaults /\ faults' = faults + 1
  /\ \/ rxneie /\ rs485_uart_rx_isr(Noise) /\ rxne' = rxne
     \/ ~rxneie /\ rxne' = TRUE /\ UNCHANGED <<rx_vars, tim_vars>>
  /\ UNCHANGED <<de, rxneie, gState, tx_frame, tx_intact, tx_done_flag,
                 tx_done_semaphore, bus_vars, uart_errors>>

\* A slave that has received a whole request may answer, at any later time
\* or never; one slave speaks at a time.
SlaveStartsReply ==
  /\ reply = <<>>
  /\ \E q \in heard : heard' = heard \ {q} /\ reply' = ReplyFrame(q)
  /\ UNCHANGED <<tx_vars, rx_vars, tim_vars, flt_vars>>

\* Mutant: the end of the transmission is not told to the polling loop.
HAL_UART_TxCpltCallback_NoFlag ==
  /\ gState = "BUSY_TX" /\ gState' = "READY"
  /\ rxne' = FALSE /\ de' = FALSE /\ rxneie' = TRUE
  /\ tx_done_semaphore' = 1
  /\ heard' = (IF tx_intact THEN heard \cup {tx_frame} ELSE heard)
  /\ UNCHANGED <<tx_done_flag, tx_frame, tx_intact, reply, flt_vars, rx_vars,
                 tim_vars>>

\* The transmission-complete interrupt: rs485_uart_rx_isr looks at DR first,
\* then the HAL calls HAL_UART_TxCpltCallback.
HAL_UART_TxCpltCallback ==
  /\ gState = "BUSY_TX" /\ gState' = "READY"
  /\ \/ rxne /\ rs485_uart_rx_isr(Noise)
     \/ ~rxne /\ UNCHANGED <<rx_vars, tim_vars>>
  /\ de' = FALSE /\ rxne' = FALSE /\ rxneie' = TRUE
  /\ tx_done_flag' = TRUE /\ tx_done_semaphore' = 1
  /\ heard' = (IF tx_intact THEN heard \cup {tx_frame} ELSE heard)
  /\ UNCHANGED <<tx_frame, tx_intact, reply, flt_vars>>

\* HAL_UART_ErrorCallback: flush, flag a timeout, wake the bridge.
HAL_UART_ErrorCallback ==
  /\ faults < MaxFaults /\ faults' = faults + 1
  /\ uart_errors' = uart_errors + 1
  /\ rx_index' = 0 /\ rx_frame_complete' = FALSE /\ FlushMemory
  /\ rx_timeout_flag' = TRUE
  /\ rx_frame_semaphore' = 1

\* ... for an error on a received character
UartLineError ==
  /\ rxneie
  /\ HAL_UART_ErrorCallback
  /\ UNCHANGED <<tx_vars, tim_vars, bus_vars>>

\* ... for a DMA error, where the HAL also gives the transmission up.
TxDmaError ==
  /\ gState = "BUSY_TX" /\ gState' = "READY" /\ tx_intact' = FALSE
  /\ HAL_UART_ErrorCallback
  /\ UNCHANGED <<de, rxneie, rxne, tx_frame, tx_done_flag, tx_done_semaphore,
                 tim_vars, bus_vars>>

\* A running timer overflows: its interrupt becomes pending.
TimerUpdate(t) ==
  /\ running[t] /\ ~uif[t] /\ uif' = [uif EXCEPT ![t] = TRUE]
  /\ UNCHANGED <<running, isr, tx_vars, rx_vars, bus_vars, flt_vars>>

\* rs485_tim2_period_elapsed_isr up to and including the call of
\* rs485_stop_rx_timeout; USART1 can preempt it here.
Tim2IsrEnter ==
  /\ isr = "none" /\ uif["silence"]
  /\ uif' = [uif EXCEPT !["silence"] = FALSE]
  /\ rs485_stop_rx_timeout
  /\ isr' = "tim2"
  /\ UNCHANGED <<tx_vars, rx_vars, bus_vars, flt_vars>>

\* Mutant: the silence timer signals a frame even when nothing has come.
Tim2IsrSignal_EvenIfEmpty ==
  /\ isr = "tim2" /\ isr' = "none"
  /\ rx_frame_complete' = TRUE /\ rx_frame_semaphore' = 1
  /\ UNCHANGED <<rx_buffer, rx_index, rx_timeout_flag, running, uif,
                 tx_vars, bus_vars, flt_vars>>

\* ... and its test of rx_index.
Tim2IsrSignal ==
  /\ isr = "tim2" /\ isr' = "none"
  /\ \/ /\ rx_index > 0
        /\ rx_frame_complete' = TRUE /\ rx_frame_semaphore' = 1
     \/ /\ rx_index = 0
        /\ UNCHANGED <<rx_frame_complete, rx_frame_semaphore>>
  /\ UNCHANGED <<rx_buffer, rx_index, rx_timeout_flag, running, uif,
                 tx_vars, bus_vars, flt_vars>>

rs485_tim3_period_elapsed_isr ==
  /\ isr = "none" /\ uif["timeout"]
  /\ uif' = [uif EXCEPT !["timeout"] = FALSE]
  /\ rs485_stop_rx_timeout
  /\ rx_timeout_flag' = TRUE /\ rx_frame_semaphore' = 1
  /\ UNCHANGED <<rx_buffer, rx_index, rx_frame_complete, isr, tx_vars,
                 bus_vars, flt_vars>>

\* No handler is active or pending: a task may run.
TasksMayRun == isr = "none" /\ \A t \in Timers : ~uif[t]
=============================================================================

---------------------------- MODULE BridgeTiming ----------------------------
(***************************************************************************)
(* BridgeEngine with a clock.  Every step is a step of BridgeEngine; what  *)
(* is added is when it may happen.  Times are microseconds, and clocks     *)
(* count down: what matters is how far away an event is, not what time it  *)
(* is.  Computation takes no time; time passes (Elapse) from one event to  *)
(* the next while the task is blocked and no interrupt is pending.         *)
(*                                                                         *)
(* The kernel counts ticks of 1 ms.  A wait of n ticks that begins inside  *)
(* a tick ends with the n-th tick interrupt after it.                      *)
(***************************************************************************)
EXTENDS BridgeEngine

CONSTANTS
  CHAR,              \* one character on the line: 573 us (app_config.h:21)
  SILENCE,           \* TIM2 from its start to its update: 2005 + 1 us
  RESPONSE_TIMEOUT,  \* TIM3: 10001 ticks of 100 us
  TICK,              \* configTICK_RATE_HZ: 1000 us
  TX_LIMIT,          \* bridge_engine.c:211
  RX_WAIT,           \* bridge_engine.c:238: MODBUS_RESPONSE_TIMEOUT_MS + 100
  SEND_WAIT,         \* xQueueSend of a response
  GUARD,             \* bridge_engine.c:367
  Phases,            \* where in a tick a request may arrive on an idle bridge
  Delays             \* how long a slave takes to begin its reply

Off == -1
Never == Off      \* the slave is silent

ASSUME TimingAssumption ==
  /\ CHAR \in Nat \ {0} /\ SILENCE \in Nat \ {0}
  /\ RESPONSE_TIMEOUT \in Nat \ {0} /\ TICK \in Nat \ {0}
  /\ TX_LIMIT \in Nat /\ RX_WAIT \in Nat /\ SEND_WAIT \in Nat /\ GUARD \in Nat
  /\ \A w \in {TX_LIMIT, RX_WAIT, SEND_WAIT, GUARD} : w >= TICK
  /\ Phases \subseteq 0 .. TICK - 1
  /\ Delays \subseteq Nat \cup {Never}

\* How the times compare (app_config.h:21-26; ReplyLen is at most 256): no
\* silence within a reply, TIM3 outlasts any reply, the wait outlasts TIM3.
ASSUME TimingOrder ==
  /\ CHAR < SILENCE
  /\ (ReplyLen + 1) * SILENCE < RESPONSE_TIMEOUT
  /\ RESPONSE_TIMEOUT + TICK <= RX_WAIT

VARIABLES
  left,      \* [Clocks -> time to go, or Off]
  phase,     \* time since the last tick
  due,       \* [tid -> time until its slave begins the reply, or Off]
  delay,     \* history: [tid -> the delay its slave chose, or Off]
  service,   \* history: time since the request in service was dequeued
  tx_failed  \* history: a DMA error ended the transmission last started

Clocks == {"silence",   \* TIM2
           "timeout",   \* TIM3
           "tx",        \* the frame being sent leaves the shift register
           "tx_limit",  \* tx_start + 100 ms; stays at 0
           "task",      \* the wait of the task; stays at 0
           "char"}      \* the next character of the reply is complete
Tids == 1 .. MaxRequests

hist_clocks == <<delay, service, tx_failed>>
clock_vars == <<left, phase, due, hist_clocks>>
timed_vars == <<vars, clock_vars>>

TimedInit ==
  /\ Init
  /\ left = [c \in Clocks |-> Off]
  /\ phase \in Phases
  /\ due = [t \in Tids |-> Off] /\ delay = [t \in Tids |-> Off]
  /\ service = 0 /\ tx_failed = FALSE

-----------------------------------------------------------------------------
(* How long things take.                                                   *)

\* Mutant: the silence interval is that of 1.5 characters.
Period_1_5(t) == IF t = "silence" THEN 860 ELSE RESPONSE_TIMEOUT

\* From the start of a timer to its update interrupt.
Period(t) == IF t = "silence" THEN SILENCE ELSE RESPONSE_TIMEOUT

FrameTime(frame_len) == RtuTxLen(frame_len) * CHAR

\* Until the last tick interrupt of a wait.
Ticks(wait) == wait - phase

SendPlaces == {"send_reject", "send_txto", "send_fail", "send_ok"}

\* Mutant: the wait for the reply is twice as long.
WaitAt_Twice(place) ==
  CASE place = "poll_tx" -> 0
    [] place = "wait_rx" -> Ticks(2 * RX_WAIT)
    [] place = "guard"   -> Ticks(GUARD)
    [] place \in SendPlaces -> Ticks(SEND_WAIT)
    [] OTHER -> Off

\* The wait that the task begins when it gets to a place.  The polling loop
\* looks once before its first delay.
WaitAt(place) ==
  CASE place = "poll_tx" -> 0
    [] place = "wait_rx" -> Ticks(RX_WAIT)
    [] place = "guard"   -> Ticks(GUARD)
    [] place \in SendPlaces -> Ticks(SEND_WAIT)
    [] OTHER -> Off

\* The wait is over, or what the task waits for is there.
Ready ==
  \/ left["task"] = 0
  \/ pc = "receive" /\ bridge_request_queue # <<>>
  \/ pc = "wait_rx" /\ rx_frame_semaphore = 1
  \/ pc \in SendPlaces /\ Len(bridge_response_queue) < RESP_LEN
  \/ pc \notin {"receive", "poll_tx", "wait_rx", "guard"} \cup SendPlaces

-----------------------------------------------------------------------------
(* The task.                                                               *)

\* The clocks that a step of the task starts and stops.
TaskClocks ==
  left' = [c \in Clocks |->
    CASE c = "task" -> WaitAt(pc')
      [] c = "tx_limit" -> IF pc = "hal_tx" THEN Ticks(TX_LIMIT) ELSE Off
      [] c = "tx" -> IF pc = "hal_tx" /\ gState = "READY"
                     THEN FrameTime(req.frame_len) ELSE left["tx"]
      [] c \in Timers -> IF pc = "start_rx" THEN Period(c)
                         ELSE IF pc = "stop_rx" THEN Off ELSE left[c]
      [] OTHER -> left[c]]

TimedTask ==
  /\ Task
  /\ Ready
  /\ pc' = "send_txto" => left["tx_limit"] = 0
  /\ TaskClocks
  /\ service' = IF pc' \in {"receive", "guard"} THEN 0 ELSE service
  /\ tx_failed' = (tx_failed /\ pc # "hal_tx")
  /\ UNCHANGED <<phase, due, delay>>

\* The polling loop goes round: neither complete nor 100 ms over.
Poll ==
  /\ TasksMayRun /\ pc = "poll_tx" /\ Ready
  /\ ~tx_done_flag /\ left["tx_limit"] > 0
  /\ left' = [left EXCEPT !["task"] = Ticks(TICK)]
  /\ UNCHANGED <<vars, phase, due, hist_clocks>>

TimedQueues ==
  /\ Submit \/ Collect
  /\ UNCHANGED clock_vars

-----------------------------------------------------------------------------
(* Interrupts and the bus.                                                 *)

\* A character stored by rs485_uart_rx_isr restarts a running TIM2.
Restarted(l) ==
  IF running["silence"] THEN [l EXCEPT !["silence"] = Period("silence")] ELSE l

Stopped == [left EXCEPT !["silence"] = Off, !["timeout"] = Off]

TimedTimer ==
  /\ \/ \E t \in Timers : /\ left[t] = 0 /\ TimerUpdate(t)
                          /\ left' = [left EXCEPT ![t] = Off]
     \/ /\ Tim2IsrEnter \/ rs485_tim3_period_elapsed_isr
        /\ left' = Stopped
     \/ Tim2IsrSignal /\ left' = left
  /\ UNCHANGED <<task_vars, pc, phase, due, hist_clocks>>

\* The end of a frame; its slave, if it got the frame whole, decides when it
\* will answer.
TimedTxCplt ==
  /\ left["tx"] = 0
  /\ HAL_UART_TxCpltCallback
  /\ LET l == [left EXCEPT !["tx"] = Off]
     IN  left' = IF rxne THEN Restarted(l) ELSE l
  /\ \/ /\ tx_intact
        /\ \E d \in Delays : /\ due' = [due EXCEPT ![tx_frame.tid] = d]
                             /\ delay' = [delay EXCEPT ![tx_frame.tid] = d]
     \/ ~tx_intact /\ UNCHANGED <<due, delay>>
  /\ UNCHANGED <<task_vars, pc, phase, service, tx_failed>>

TimedBus ==
  /\ \/ /\ SlaveStartsReply
        /\ \E t \in Tids : /\ due[t] = 0 /\ \E q \in heard \ heard' : q.tid = t
                           /\ due' = [due EXCEPT ![t] = Off]
        /\ left' = [left EXCEPT !["char"] = CHAR]
     \/ /\ left["char"] = 0
        /\ SlaveChar \/ SlaveCharDamaged
        /\ LET l == [left EXCEPT !["char"] = IF reply' = <<>> THEN Off
                                             ELSE CHAR]
           IN  left' = IF rxneie THEN Restarted(l) ELSE l
        /\ UNCHANGED due
     \/ /\ LineNoise
        /\ left' = IF rxneie THEN Restarted(left) ELSE left
        /\ UNCHANGED due
  /\ UNCHANGED <<task_vars, pc, phase, hist_clocks>>

TimedError ==
  /\ UartError
  /\ left' = [left EXCEPT !["tx"] = IF gState' = "READY" THEN Off ELSE @]
  /\ tx_failed' = (tx_failed \/ gState' # gState)
  /\ UNCHANGED <<phase, due, delay, service>>

-----------------------------------------------------------------------------
(* Time.                                                                   *)

\* When the next things happen that do not depend on the task's computation.
Events ==
  {left[c] : c \in {k \in Clocks : k # "tx_limit" /\ left[k] # Off}}
    \cup {due[t] : t \in {u \in Tids : due[u] # Off /\ reply = <<>>}}

\* What is already over, like tx_limit or the delay of a slave that has to
\* wait for another one's reply, stays at 0.  No other clock may be overrun:
\* it would not stop at 0.
Less(x, d) == IF x > d THEN x - d ELSE IF x = Off THEN Off ELSE 0
Left(c, d) ==
  IF c = "tx_limit" \/ left[c] = Off THEN Less(left[c], d) ELSE left[c] - d

\* Nothing is left to do at this instant, and time moves to the next event.
Elapse ==
  /\ TasksMayRun /\ ~Ready
  /\ \E d \in Events :
       /\ d > 0 /\ \A e \in Events : d <= e
       /\ left' = [c \in Clocks |-> Left(c, d)]
       /\ due' = [t \in Tids |-> Less(due[t], d)]
       /\ phase' = (phase + d) % TICK
       /\ service' = IF pc \in {"receive", "guard"} THEN 0 ELSE service + d
  /\ UNCHANGED <<vars, delay, tx_failed>>

\* With nothing going on at all, any time may pass.
Quiet ==
  /\ TasksMayRun /\ ~Ready /\ Events = {}
  /\ phase' \in Phases
  /\ UNCHANGED <<vars, left, due, hist_clocks>>

TimedNext ==
  \/ TimedTask \/ Poll \/ TimedQueues
  \/ TimedTimer \/ TimedTxCplt \/ TimedBus \/ TimedError
  \/ Elapse \/ Quiet

TimedSpec == TimedInit /\ [][TimedNext]_timed_vars

-----------------------------------------------------------------------------
(* Correctness.                                                            *)

\* Types, and each clock is armed exactly while what it times is going on; none
\* but tx_limit has run past the event that it counts down to.
ClocksOK ==
  /\ left \in [Clocks -> Nat \cup {Off}] /\ phase \in 0 .. TICK - 1
  /\ due \in [Tids -> Nat \cup {Off}] /\ delay \in [Tids -> Delays \cup {Off}]
  /\ service \in Nat /\ tx_failed \in BOOLEAN
  /\ left["tx"] # Off <=> gState = "BUSY_TX"
  /\ left["char"] # Off <=> reply # <<>>
  /\ \A t \in Timers : left[t] # Off <=> running[t] /\ ~uif[t]
  /\ left["task"] # Off <=>
       pc \in {"poll_tx", "wait_rx", "guard"} \cup SendPlaces
  /\ left["tx_limit"] # Off <=> pc = "poll_tx"

\* From the moment a request is dequeued its answer is in the queue, or given
\* up, within the sum of the task's timeouts and one tick, whatever the slave,
\* the line, the DMA and the TCP server do.  (1.301 s; the idle timeout of the
\* TCP server and its clients' patience are to be compared with this.)
MAX_SERVICE == TX_LIMIT + TICK + RX_WAIT + SEND_WAIT
ServiceBounded == service <= MAX_SERVICE

\* With frames that take a tick less than the 100 ms, a transmission is given
\* up only if a DMA error ended it, this very one: no false alarm, whatever
\* the tick, the order of the last poll and the interrupt, and whatever else
\* has gone wrong on the line and in earlier transactions.
ShortFrames == \A f \in Frames : FrameTime(f.frame_len) <= TX_LIMIT - TICK
NoFalseTxTimeout == ShortFrames /\ pc = "send_txto" => tx_failed

(***************************************************************************)
(* TIM2 is started up to a tick after the end of the request, when the     *)
(* polling loop notices it.  A reply is prompt if its first character is   *)
(* there before TIM2 can run out; it is late if TIM2 is sure to run out    *)
(* first, which makes the bridge deaf to it (rs485_driver.c:448-456), and  *)
(* its last character comes before the bridge's own wait is over.          *)
(***************************************************************************)
Prompt(d) == d + CHAR < SILENCE
Late(d) == SILENCE + TICK < d + CHAR /\ d + ReplyLen * CHAR + TICK <= RX_WAIT

\* The line is clean, no frame overruns its 100 ms, and each slave that has
\* answered so far was prompt or late.
Orderly ==
  /\ ShortFrames /\ faults = 0
  /\ \A t \in Tids : delay[t] = Off \/ Prompt(delay[t]) \/ Late(delay[t])

\* Then a prompt reply is heard: it is not taken for silence, and no timer
\* cuts it short, whenever the polling loop got to start the timers.
PromptSlaveIsHeard ==
  Orderly /\ pc = "send_fail" =>
    delay[req.tid] = Never \/ ~Prompt(delay[req.tid])

\* The bridge never drives the bus while a slave is sending: an answer that is
\* not heard is still waited for.  (In the gap between prompt and late this
\* fails: a first character that TIM2's handler finds between its entry and
\* its test of rx_index makes a frame of one character, and the bridge goes on
\* to the next request while the slave sends the rest.)
NoContention == Orderly => ~(de /\ reply # <<>>)

\* ... and the reply that a client gets was given to its request, although
\* the bridge compares only the unit id (bridge_engine.c:332).
ReplyBelongsToRequest ==
  Orderly /\ pc = "send_ok" => resp.body[1].tid = req.tid

-----------------------------------------------------------------------------
(* What the documentation says and the code does not do.                   *)

\* README.md:138, app_config.h:26: the slave has 1000 ms to answer.
SlowSlaveIsHeard ==
  pc = "send_fail" /\ faults = 0 /\ ~overrun =>
    \/ delay[req.tid] = Never
    \/ delay[req.tid] > RESPONSE_TIMEOUT - SILENCE - ReplyLen * CHAR - TICK
=============================================================================

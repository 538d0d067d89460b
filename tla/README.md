# TLA+ verification of the STM32 Modbus RTU/TCP bridge

The firmware accepts Modbus TCP requests on port 502, sends each one as a Modbus
RTU frame on a half-duplex RS485 bus, waits for the slave's reply and returns it
to the TCP client. Two FreeRTOS tasks, four interrupt handlers and two
peripheral timers take part. This directory holds models of the whole firmware
but its register settings, the model-checking runs and the proofs.

Paths below are relative to `src/`.

## 1. Inventory

| Component | State it keeps | Operations | Interacts with |
|---|---|---|---|
| Bridge engine task, `Core/Src/bridge_engine.c` | `req`, `resp`, `rtu_tx_buffer`, `mbap_cache` on its stack; `g_bridge_diag` | one loop: dequeue, take the mutex, validate (STEP 1), build (2), transmit (3), wait (4), classify (5), check CRC (6), check unit and answer (7), guard time | both queues, mutex, every function of the driver, `rx_frame_semaphore` |
| RS485 driver, `Core/Src/rs485_driver.c` and the handlers in `stm32f4xx_it.c` | DE pin, RXNEIE, DMA transfer, `tx_done_flag`, `rx_buffer`, `rx_index`, `rx_frame_complete`, `rx_timeout_flag`, TIM2, TIM3 | `rs485_transmit_dma`, `rs485_set_*_mode`, `rs485_flush_rx_buffer`, `rs485_start/stop_rx_timeout`; handlers for received character, TX complete, UART error, silence (TIM2), timeout (TIM3) | the task by flags and a binary semaphore; the bus |
| TCP server task, `Core/Src/tcp_server.c` | `client_sockets[4]`, `client_last_active[4]` | accept, receive and forward, send the responses, close idle clients | both queues, lwIP sockets |
| CRC-16, `Core/Src/modbus_crc.c` | none | `modbus_crc16` | called by the engine |
| Start-up, `Core/Src/main.c`, `system_stm32f4xx.c`, `startup_stm32f407xx.s` | the IPC objects | clocks, lwIP, link wait, object and task creation; SysTick from `HAL_Init` on | everyone, once |
| lwIP OS layer, `Core/Src/sys_arch.c` | mailboxes, semaphores, mutexes, protection bracket | wrappers of the FreeRTOS calls | lwIP |
| Ethernet interface (`ethernetif.c`), newlib stubs (`syscalls.c`), configuration headers, build scripts | - | stubs and constants | - |

What makes each component correct:

* *driver*: it never drives the bus outside a transmission; it never writes
  outside `rx_buffer`; every frame or timeout it detects wakes the task exactly
  once; nothing it remembers of one transaction shows in the next;
* *engine*: whatever happens on the bus, a request is finished, answered at most
  once, to its own client, under its own MBAP header, with a reply of the slave
  that was asked; the mutex and the bus are free afterwards;
* *TCP server*: a response reaches the connection that asked, or nobody; slots
  and descriptors are neither leaked nor confused; no client starves another;
* *OS layer*: a protection bracket protects; a mailbox neither loses nor
  duplicates; a timeout means what lwIP takes it to mean;
* *start-up*: no task runs before the objects it uses exist, the tick does not
  call a kernel that is not there, and every wait comes to an end.

What is hard to test, in short (`PROJECT.json`, "hazards", has each one at its
line): the handlers preempt the task between any two statements and one another
according to their priorities; both timer handlers stop both timers and give the
same semaphore; the flags are cleared in several steps; the receive buffer is
examined and copied in place while the receive interrupt is enabled; a
transmission may outlive the 100 ms it is given; a slave may answer after it was
given up; ten different paths leave the loop body. In the TCP server a client that
reads nothing more blocks the task that serves all others; a
descriptor may be closed and given out again between `select` and `recv`, or
between a request and its answer; both queues may be full at once; the tick
wraps. In `sys_arch.c` a bracket ends whichever bracket is open. At start-up the
tick stands still while limits are measured by it.

## 2. Modules

| Module | Models | State and actions |
|---|---|---|
| `ModbusFrames` | the pure part of `bridge_engine.c`: validation and all frame lengths, with the real limits of `app_config.h` | operators only |
| `ModbusCrc` | `modbus_crc.c` at the sender and at the receiver, with a line between them that may invert bits; the two bytes the engine appends, its check of a received frame; beside them the definition by division of polynomials | both registers as sets of bits, what was sent and received; one action for `crc ^= data[i]`, one for a pass of the inner loop |
| `Rs485Driver` | `rs485_driver.c`, its handlers and the hardware they serve, the bus, the slaves | the driver's static variables under their own names; `de`, `rxneie`, `rxne`, `gState` for the hardware; one action per handler; the functions the task calls are operators that `BridgeEngine` uses |
| `BridgeEngine` | `bridge_engine_task` on top of the driver, and the two queues | `pc` for the place in the loop, the locals, the counters; one action per stretch of code between two points where an interrupt matters |
| `BridgeTiming` | `BridgeEngine` in real time: TIM2, TIM3, the kernel's ticks, the waits, the line and the slaves' delays | the actions of `BridgeEngine` conjoined with clocks that count down (`left`, `due`, `phase`); `Elapse` moves to the next event |
| `Gateway` | what the engine promises the TCP server, without any serial side | requests, responses, the one request being served |
| `TcpServer` | `tcp_server_task`, lwIP's sockets and the clients, with `Gateway` in place of the engine | `client_sockets`, `client_last_active`, the descriptors, the streams, `uwTick`; one action per call of lwIP or of a queue |
| `SysArch` | `sys_arch.c`: protection bracket, mutex, mailbox, semaphore, as lwIP's threads use them | BASEPRI, the running thread, each thread's open call; one action per function, two where it blocks |
| `Boot` | reset to the two tasks at work: `system_stm32f4xx.c`, `main.c`, `ethernetif_init`, the start of both tasks, SysTick | PRIMASK, the tick, the heap, the objects; one action per call of `main` |
| `FrameLengths` | what `recv` can return, byte by byte at the real lengths, for `LengthsFit` | the request |
| `MCFromReset` | `Boot` followed by `BridgeEngine`, from reset to the last request | those of both; the engine begins when `Boot` leaves its task in the loop, requests come when it leaves the server's there |
| `MCStandalone` | `FrameLengths`, `ModbusCrc` and `SysArch`, which call no other part, one at a time | those of the three |
| `MCBridgeEngine`, `MCBridgeTiming`, `MCTcpServer` | instances for TLC | - |
| `FrameProofs`, `BridgeEngineProofs`, `BridgeSafetyProofs`, `BridgeTimingProofs`, `BridgeTurnProofs`, `TcpServerProofs`, `SysArchProofs`, `BootProofs` | proofs | - |

How they fit together:

* `BridgeEngine` EXTENDS `Rs485Driver` and `ModbusFrames`, and implements
  `Gateway` under a refinement mapping (checked and proved).
* `BridgeTiming` EXTENDS `BridgeEngine`: every timed step is one of its steps
  (proved), so what holds of the engine holds of the timed engine.
* `TcpServer` is composed with `Gateway`, which the refinement justifies: its
  `Engine` action is the engine's half of `Gateway`, and its `GatewaySpec` says
  that the server keeps the other half (assume and guarantee). Its unit of time
  is the bound that `BridgeTiming!ServiceBounded` establishes.
* `ModbusCrc` justifies `Rs485Driver!CrcOk`; `SysArch` the way `TcpServer`
  treats a `recv` with nothing to read (a timeout of 0 does not wait); `Boot`
  ends in the states in which `BridgeEngine!Init` and `TcpServer!Init` begin
  (`MCFromReset` joins it to the former).

### How the code is cut into steps

*Engine.* A step of the task is everything between two points where a handler
can make a difference. `rs485_flush_rx_buffer` before the transmission is two
steps (`ClearFlags`, `ClearBuffer`), `rs485_transmit_dma` three (`ArmTx`,
`TransmitMode`, `StartDma`), the examination of a frame seven (`CheckTimeout` or
`CheckNoTimeout`, `CheckFrame`, `ReadLen`, the CRC, the unit, the copy, the
send). A task step needs `TasksMayRun`: no handler is active and no timer
interrupt is pending. USART1 and DMA (priority 6) preempt the timers (7), so the
TIM2 handler is two steps (`Tim2IsrEnter`, `Tim2IsrSignal`) with room for a
character in between; the TIM3 handler has nothing another handler could
disturb and is one. A pending update that is not enabled any more is still
served: the NVIC has latched it and the handler looks at the flag alone.

A flush in the middle of a copy, or between the halves of a flush on a path that
ends the transaction, has the same effect as one just before or after and is not
told apart.

*Server.* A step is one call that touches what clients, network or engine can
change: `select`, `accept` with the search for a slot, one `recv`, one queue
operation with the send that follows it. `lwip_accept` and `lwip_send` may fail.
The sockets are blocking ones and no send timeout is set, so `lwip_send` to a
client that reads nothing more (`ClientStalls`) may block the task: then it ends
in a second step (`SendReturns`), when the client reads again or is gone
(`ClientReads`). The idle loop is one step, since nothing it reads changes under
it.

*OS layer.* A function that blocks is two steps: the call begins (its critical
section ends, BASEPRI is cleared) and the kernel lets it return.

*Start-up.* Interrupts are masked, so one step per call is enough;
`SysTick_Handler` may come between any two once it is not masked.

### Abstractions

* **Characters.** A character is `[unit, tid, pos]`: which slave sent it, in
  reply to which transaction, at which position. This is enough to tell a whole
  reply from a truncated, merged, shifted or damaged one. `Zero` is what
  `memset` leaves, `Noise` what no slave sent.
* **CRC.** `CrcOk` accepts exactly the whole, undamaged reply of one slave.
  `ModbusCrc` shows how far that is true; the one-in-65536 collision of wider
  damage is not modelled. There, the two ends of the line are followed in step:
  they run the same loop over bytes that differ by the damage alone, so their
  order does not matter.
* **Length of a reply.** `ReplyLen` characters; 4 is the smallest length the
  engine accepts (`rx_len < 4`), so every shorter prefix is a case of its own.
* **Time.** None in `BridgeEngine`: a running timer may overflow, and a wait may
  time out, at any moment. That is more behaviour than the hardware has, so its
  safety properties hold for every setting of the timers. `BridgeTiming` adds
  durations in microseconds; computation takes no time there. `TcpServer` counts
  in units of one service, because all it compares is the idle timeout with the
  time its requests may take.
* **Messages.** A request is who sent it, the fields STEP 1 looks at and a
  transaction number; a response is its destination, status and frame header,
  the exception code in the frame and the RTU characters it was made of.
* **TCP streams.** A client's stream is counted in halves of a 12-byte request,
  so that a `recv` returns a part of a request, one, or several. The server
  takes what one `recv` returns for one frame, and so does the model.
* **Shared data of lwIP.** The pools and the heap are a version number each that
  a thread reads and writes back; a lost update is a copy that is not current.
* **Allocations.** The heap is the number of allocations that still succeed.
* **Uninitialised data.** `resp` is an uninitialised local. The one field of it
  that is read before it is set, `exception_code`, starts as `StackFill`: 165 in
  the runs, which is what the kernel fills a stack with
  (`configCHECK_FOR_STACK_OVERFLOW` is 2), any byte in the proofs.
* **Hardware and HAL** (not in the repository; modelled from how the code uses
  it): the HAL refuses a DMA start while one is in progress and completes it
  with one callback; a DMA error ends the transfer and calls the error callback;
  the error callback may also come whenever the receive interrupt is enabled.
  While DE is high the receiver is off and its undriven output may produce a
  character that stays in the data register (`rxne`).
* **lwIP and FreeRTOS** (not in the repository either): descriptors are given
  out lowest first; every kernel call has a critical section of its own, at the
  end of which BASEPRI is cleared; priorities of lwIP's threads are ignored.
* **Slaves and line.** A slave that has received a whole request may answer it
  at any later time, or never, also when the request has been given up; one
  speaks at a time. Characters may be damaged or appear from nowhere.
* The 5 s wait for the mutex cannot expire, since only this task takes it. The
  LEDs, `rs485_wait_tx_complete`, `HAL_UART_RxCpltCallback` and
  `tx_done_semaphore`'s (absent) reader have no effect.

History variables help to state properties and influence nothing: `err_in` (the
phases of this transaction in which a UART error came), `overrun` (an earlier or
this transmission outlived its 100 ms and is still in the way) and `submitted` in
the engine; `delay`, `service` and `tx_failed` (a DMA error ended the
transmission last started) in `BridgeTiming`; `origin`, `place`,
`delivered` and `age` in `TcpServer`; `plain`, `accepted`, `fetched`, `given`
and `taken` in `SysArch`; `early` in `Boot`; `quotient` in `ModbusCrc`.

## 3. Runs

| Run | Question | Instance | Distinct states |
|---|---|---|---|
| `standalone` | does any length leave its buffer, does STEP 1 accept what it should, and is the CRC the CRC? What do lwIP's bracket, mutex, mailbox and semaphore protect? | every length 8..260, every unit, both protocol classes; messages of up to 6 bytes of 3 values, those of up to 2 bytes with every damage within 8 bits, every two bits and samples within 16 bits; 2 threads, nesting 2, mailbox of 1 | 5.1 million |
| `bridge_safety` | can any interleaving make the task and the driver disagree, or break the promise of `Gateway`? | 2 requests of 4 kinds (two slaves, wrong protocol, wrong unit), 1 fault | 3.3 million |
| `from_reset` | does the start-up end, in the right order, and is every request finished then? | every amount of heap, with and without crystal, three interfaces; then 2 requests, 1 slave, 1 fault, under fairness | 0.8 million |
| `bridge_exceptions_sent` | does exception 0x0B reach the client? (violated) | 2 requests of 4 kinds, no fault | - |
| `bridge_uart_error` | does a UART error always give exception 0x0B? (violated) | 1 request, 1 fault | - |
| `timing_safety` | what do the periods and waits of `app_config.h` guarantee? | 2 requests, short or of 172 characters on the line, slaves at the edges of prompt and late, 1 fault | 0.8 million |
| `timing_slow_slave` | has a slave the documented 1000 ms? (violated) | 1 request, no fault | - |
| `server_safety` | do slots, descriptors and queues stay in order? | 3 clients for 2 slots, each of which may stop reading; pieces of requests; failing `select`, `accept` and `send` | 5.2 million |
| `server_wrong_client` | does an answer go to the client that asked? (violated) | 2 clients for 1 slot, 2 requests | - |
| `server_queues` | can the two tasks block one another, or answers change order? | 2 clients, 5 requests, request queue of 1 | 5.1 million |
| `server_idle` | is the idle timeout exact and harmless, and is every client served? | 2 clients for 1 slot, one of which may stop reading, a tick that wraps, under `FairSpec` | 1.2 million |
| `boot_offline` | does the wait for the link end after its 10 s? (violated) | a link that is down, under `BootFairSpec` | - |

What they show:

* `LengthsFit`: no frame outgrows its buffer, and validation accepts what it
  should. `CrcIsRemainder`: `modbus_crc16` is the remainder that defines the
  CRC. `DamageDetected`: the engine's check accepts a frame that comes as it was
  sent, and none that is damaged in one of the ways above.
* `TypeOK`: types; with `rx_index \in 0 .. RX_BUFFER_SIZE`, no handler writes
  outside `rx_buffer`. `RX_BUFFER_SIZE = ReplyLen`, so one noise character more
  than a reply already fills the buffer.
* `TimersOnlyInWindow`: outside the wait of STEP 4 no timer runs and no timer
  interrupt is pending or half done. This is why the two flags of STEP 5 can be
  tested one after the other.
* `BusReleased`, `ListenAfterTransmit`: DE is high only while the task
  transmits, polls or cleans up; whoever waits for a reply has sent its own
  request, whole. Both except a transmission that outlives its 100 ms
  (`overrun`): then a late `HAL_UART_TxCpltCallback` is taken for the end of the
  next frame, `HAL_UART_Transmit_DMA` refuses that frame, or its buffer is
  rewritten under the DMA. `NoFalseTxTimeout` says which frames are safe.
* `NoLostWakeup`: from the flush to the wait, a raised flag comes with its
  semaphore.
* `SpuriousWakeNeedsError`: the silent give-up ("unexpected",
  `bridge_engine.c:267`) needs a UART error in that very transaction.
* `FrameStable`, `ReplyIntegrity`: the frame does not change while it is
  examined in place, and a data response carries one whole reply of the slave
  addressed; both unless a UART error came during the examination.
  `ReplyIntegrity` does not say that the reply belongs to *this* request, since
  the unit id is all the engine compares; `ReplyBelongsToRequest` does.
* `DiagnosticsAddUp`: no request falls under two outcome counters, nor under one
  before it is decided.
* `GatewaySpec` (of the engine): in order, one at a time, at most one answer per
  request, of the right kind, to its socket, under its header.
* `EveryRequestFinishes`: each queued request is eventually done with.
* `ClocksOK`: types, and each clock of the model is armed exactly while what it
  times goes on; one that ran past its event would be negative.
  `ServiceBounded`: a request holds the bridge for at most 1.301 s.
* `PromptSlaveIsHeard`, `NoContention`, `ReplyBelongsToRequest` are about
  `Orderly` behaviours: no faults, no frame that may outlive its 100 ms, and
  slaves that are prompt or late. A reply is `Prompt` if its first character is
  there before TIM2 can run out (it begins within 1.4 ms of the end of the
  request: 2.006 ms less a character), and `Late` if TIM2 is sure to run out
  first, which may be a tick later, since the polling loop starts it (a reply
  that begins after 2.43 ms). Then a prompt reply is heard, the bridge never
  drives the bus while a slave sends, and a client gets the reply to its own
  request. The reason for the last two is an accident: the silence handler has
  stopped TIM3, so that the bridge waits its full 1100 ms and a late answer,
  unheard, ends before the next request begins. (The mutant of these two
  properties has the silence handler wake the task even if nothing was
  received: then a late answer meets the next request.)
* `NoFalseTxTimeout`: with frames that need at most 99 ms on the line, a
  transmission is given up only if a DMA error ended that very transmission,
  whatever noise, damage or errors there were besides or before.
* `SlotsMatchDescriptors`: slots, open descriptors and connections agree at
  every place of the loop. `RecvOnlyWhenReady`: what `select` reported is still
  the same connection, with something to read, when `recv` is called.
* `StrayOnlyAfterClose`: a response goes to a client that did not ask only if
  the connection that asked is closed (its descriptor being in use again). That
  this does happen, `AnswersReachAsker` says: section 4.
* `GatewaySpec` (of the server): it forwards only what the engine is specified
  for, in order and within the queue, and takes each response once.
* `NoCircularWait`: server and engine never wait for each other's queue at once.
  It needs a response queue no shorter than the number of slots (8 and 4 in the
  code; 2 and 2 in the run). `AnswersInOrder`: at most one answer to a request,
  and a client's answers in the order of its requests.
* `IdleExact`: the idle test is exact, also over the wrap of `uwTick`.
  `IdleHasNothingOutstanding`: no client is closed as idle while its request is
  on its way, as long as no client blocks the server for more than a unit (a longer
  block is not in the model). `EveryClientServed`: each client in the backlog is
  admitted or refused, what it sends is read, and its slot is freed when it
  closes, provided every client that stops reading reads again in the end or
  loses its connection. That is a condition on the other clients too: one that
  stops for good blocks the task in `lwip_send`, and nobody is served any more.
* `PlainBracketIsAtomic`: a bracket protects as long as it contains neither
  another bracket nor a kernel call; `sys_arch_unprotect` enables interrupts
  whatever was before (`sys_arch.c:272`), so no more can be said.
  `MutexIsAtomic`: the mutex protects all the same. `MailboxKeepsOrder`: what was
  reported as posted is fetched once, in order; what was refused is not.
  `SignalsCounted`: each signal is worth one wait, below the limit of the counter.
* `TickNeedsScheduler`: SysTick calls the kernel only once it runs. Nothing in
  the handler sees to it; only the mask of `SystemInit` does. `BootEnds`: with
  crystal and link the start-up ends, at work or in one of its stops, whatever
  the heap and whichever init fails. Without them it waits for ever, as the same
  mask stops the tick by which the 100 ms for the crystal and the 10 s for the
  link are measured: `LinkWaitEnds`, section 4.

Every property of a passing run has a mutant in `PROJECT.json`: a plausible
mistake in one definition that makes TLC find the property violated.

### Bounds

* `standalone`, lengths and CRC: the lengths of requests and frames are the real
  ones. Bytes 0x00, 0x81 and 0xFF have both values of the outermost bits;
  messages of 6 bytes push each first bit through the whole register and out; a
  damaged message of up to 2 bytes with its CRC has damage in the message, in the
  CRC and across both. `CrcRemainder` and `BurstsDetected` hold for all bytes and
  lengths.
* `MaxRequests = 2` (engine): interference between transactions (stale flags,
  semaphore, late replies, overrunning transmissions, spoilt buffers) always
  involves a transaction and a later one; the driver keeps nothing else. Two
  requests also show a late answer meeting the next request in `timing_safety`.
* `MaxFaults = 1`: one damaged character, noise character or UART error, at any
  point. Silent slaves, late replies, late or missing ends of transmission and
  full queues do not count as faults and are unlimited.
* Two slaves: the smallest number for which the unit check matters. One socket
  in `bridge_safety`: the destination is carried along and compared with
  nothing; the theorem holds for every set of sockets.
* Queues of 1 (or 2): a full and an empty queue both occur.
* `timing_safety`: the real constants in microseconds; a request may arrive at
  the beginning or the end of a tick; a slave takes as long as a prompt one may,
  as little or as much as a late one may, 7.6 ms (which would meet the wait of
  the next request, if that began at once), or for ever; frames of 8 and of 172
  characters, the longest the polling loop is sure to let finish (up to 174 may,
  depending on the tick).
* `server_safety`: three connections for two slots give refusal and reuse of a
  slot and of a descriptor; `Chunks` of 1 to 4 halves give a `recv` of less
  than, exactly and more than a request. No time passes. Connections are
  interchangeable (`Init` and `Next` mention none by name, and neither do the
  properties), so symmetry is sound; it is not used where liveness is checked.
  `Stalling`, the clients that may stop reading: all three here. `server_queues`
  has none, to leave room for five requests; `server_idle` one of two, which is
  the case of interest, one client and the others it keeps waiting.
* `server_queues`: five requests fill both queues and keep one in service and
  one in the server's hands. Deadlock is checked here, as in the other runs of
  the server and in `timing_safety`.
* `server_idle`: IDLE is 5 units, REQ_LEN + 4, the least for which
  `IdleHasNothingOutstanding` holds (the code has 23 units and 8 places); the
  tick begins at 4 and wraps at 7 within the 6 units of the run.
* `standalone`, OS layer: two threads, since a lost update or a lost message needs two;
  nesting 2 is where brackets go wrong; data modulo 2; three signals for a
  counter of 2. Threads, and messages, are interchangeable, and only safety is
  checked. The three parts of the run share nothing: each moves while the others
  stay where they begin, so that their states add up and do not multiply.
* `from_reset`: the limits of the start-up are 1 and 2 ticks; they are never
  reached, so their size does not matter (`WaitsAreForEver` proves it). Six ticks
  come after the scheduler's start, and the engine begins after them: it reads no
  tick of `Boot`'s. Its instance is that of `bridge_safety` with one slave, one
  kind of request and a request queue of 1.
* Deadlock is not checked where the model rightly stops: in the engine's untimed
  runs (after `MaxRequests` requests), `standalone` (a thread may block on a
  mailbox with no post left), `from_reset` and `boot_offline`.

The proofs of section 5 hold for all values of these constants.

### Fairness

* Engine (`MCFromReset!FromReset`): weak fairness of the task and of taking a
  pending timer interrupt. The task is justified by the scheduler: in every place but the
  queue's `xQueueReceive` it is either runnable or in a wait with a timeout, it is
  the highest-priority application task (`main.c`), and the handlers cannot fire
  for ever without new faults or characters, which are finite here. Nothing is
  assumed of the DMA, the slaves, the line or the TCP server: a response queue
  that is never read costs a timeout of 100 ms and the answer, not progress.
* `TcpServer!FairSpec`: weak fairness of the server task (`select` and the queue
  wait have timeouts of 100 ms) and of the engine (which is what
  `EveryRequestFinishes` shows); strong fairness of `SendReturns`: data moves in
  lwIP's own thread, so a send that is possible again and again goes on. Nothing of
  the clients; that none stops reading for good is a premise of
  `EveryClientServed` itself, and without it, or without the strong fairness, TLC
  finds the property violated.
* `Boot!BootFairSpec` (and `FromReset`): the processor runs, and the tick comes as
  long as it is not masked.

## 4. Disagreements found

1. **Exceptions do not reach the client** (`bridge_exceptions_sent`). The error
   paths build an exception 0x0B frame and set `status`, but never
   `exception_code`; `tcp_server.c:193-199` sends a response with an error
   status only if that byte is not 0. It begins as stack fill, so the very first
   errors after a start get out; the first data answer, or answer of STEP 1, sets
   it to 0 for good. `README.md:144` and `docs/USER_MANUAL.md:182` promise the
   exception every time.
2. **A UART error is not always answered with 0x0B** (`bridge_uart_error`). The
   timeout flag is tested once (`bridge_engine.c:248`); an error after that is
   not noticed, and one just before the copy makes the engine answer `BRIDGE_OK`
   with the zeroes of the flushed buffer. The comment at
   `rs485_driver.c:485-487` says otherwise.
3. **A slave has 2 ms to begin its answer, not 1000** (`timing_slow_slave`).
   `rs485_start_rx_timeout` starts the silence timer together with the response
   timer (`rs485_driver.c:330`). If no character comes within its 2 ms, its
   handler stops both (453) and signals nothing; a reply that begins later is
   stored and never closed as a frame. The engine waits its 1100 ms and reports
   a silent slave. `README.md:138` and `app_config.h:26` give 1000 ms.
4. **An answer may reach another client** (`server_wrong_client`). A response is
   matched to a client by descriptor number alone (`tcp_server.c:185`). If the one
   that asked closes while its request is in the bridge, lwIP gives the number to
   the next connection, and that one gets the answer. `tcp_server.c:15` and
   `docs/USER_MANUAL.md:145` say it goes to the client that asked.
5. **The wait for the link has no timeout** (`boot_offline`). `main.c:179` and
   `main.c:183` say ten seconds, then on without link. Both the limit and
   `HAL_Delay` go by `HAL_GetTick`, but `SystemInit` has masked all interrupts
   (`system_stm32f4xx.c:56`) and only the scheduler's start unmasks them: the
   tick stands still, and with the link down the start-up stays there. The stub
   of `ethernetif.c` never gets that far (see below); a driver that reports the
   link as it is does.

Seen while modelling, each following from the definitions without a run of its
own:

* A request of more than 174 characters on the line takes longer than the 100 ms
  of `bridge_engine.c:211-212` and is given up, though 256 are legal (147 ms).
* Between prompt and late there is a gap of a tick in which it depends on the
  moment: if the first character is complete after the silence handler has
  stopped the timers and before it tests `rx_index` (`rs485_driver.c:453-456`),
  it makes a frame of one character. The engine answers at once and goes on to
  the next request while the slave sends the rest. `NoContention` excludes these
  delays by name.
* The 10 ms between transactions of `docs/USER_MANUAL.md:331` are kept on the
  paths that reach `bridge_engine.c:367` only; the `continue`s at 264, 272, 296,
  318 and 344 (and 222) skip them.
* `bridge_engine.c:27` has the engine wait for the timeout after a CRC error; the
  code at 303-318 answers at once.
* One `recv` is one request (`tcp_server.c:145`, `163`): the MBAP length is not
  looked at, so that of two requests in one segment the second is lost, and a
  request in two segments is two bad ones.
* `docs/USER_MANUAL.md:186` answers a TCP frame of less than 8 bytes with 0x0B; it
  is dropped without an answer at `tcp_server.c:159`, before the engine, whose own
  check for it never fails.
* `modbus_crc.c:7` says "no reflection"; the algorithm is the reflected one (LSB
  first, 0xA001), which is what Modbus asks for and what `CrcIsRemainder` says.
* A client that stops reading may block the whole server: the sockets are blocking
  (`tcp_server.c:194-198`), `lwipopts.h` has no send timeout, and keepalive is never
  set on them. The idle timeout cannot help, as it is tested by the task that is
  blocked. If a block lasts for long, other clients may then be closed as idle,
  with their requests outstanding: such long blocks are not in the model.
* `sys_arch.c:171` takes a timeout of 0 to mean "do not wait", where lwIP means
  "for ever". With this port a wait inside lwIP that has no limit may return at
  once, the one of a blocked send too. `lwip_send` in the model allows both.
* `docs/USER_MANUAL.md:215` has the LEDs blink on every unrecoverable error; the
  fault handlers and the malloc hook stop silently.
* With the committed `ethernetif.c` the start-up ends in a HardFault: the stub
  reports its link as up, bringing the interface up sends a gratuitous ARP, and
  `linkoutput` is NULL. The rest of the project presumes a driver in its place,
  as the file asks for.

## 5. Proofs

All with TLAPS, for every value of the constants, from the named assumptions of
the modules: `DriverAssumption` (`ReplyLen >= 4`, the buffer holds a reply),
`BridgeAssumption`, `TimingAssumption` (waits of at least a tick, periods not 0),
`TimingOrder` (how the times compare: a character takes less than the silence
time; a reply with silence after each character, less than the response timeout:
257 * 2.006 ms < 1000.1 ms; the response timeout and a tick, no more than the
wait: 1001.1 ms <= 1100 ms),
`ServerAssumption` (at least one slot, queues not empty-sized, an idle timeout
shorter than the wrap), `SysArchAssumption`, `BootAssumption`,
`CrcAssumption` (what is sent are bytes, damage is to bits). TLC evaluates each
of them.

| Theorem | Statement | Inductive invariant |
|---|---|---|
| `FramesFit` | `LengthsSpec => []LengthsFit` | the request has a length that is forwarded |
| `CrcRemainder` | `CrcSpec => []CrcIsRemainder` | `RemInv`, with `CrcTypeOK` |
| `BurstsDetected` | `Bursts` (every damage lies within 16 bits) gives `CrcSpec => []DamageDetected` | `BurstInv`, `ReceivedInv`, with `CrcTypeOK` |
| `TypeCorrect` | `Spec => []TypeOK` | itself |
| `TimersQuietOutsideWindow` | `[]TimersOnlyInWindow` | with `TypeOK` |
| `WakeupNotLost` | `[]NoLostWakeup` | itself |
| `BusAlwaysReleased`, `ListensToItsOwnRequest` | `[]BusReleased`, `[]ListenAfterTransmit` | `TxInv` |
| `SilenceNeedsUartError` | `[]SpuriousWakeNeedsError` | `WakeInv`, with `TimersOnlyInWindow` |
| `CountersAddUp` | `[]DiagnosticsAddUp` | with `TypeOK` |
| `FrameDoesNotChange` | `FrameStable` | `ExamInv` |
| `RepliesAreWhole` | `[]ReplyIntegrity` | `Genuine`, `ExamInv` |
| `BridgeImplementsGateway` | `Spec => GatewaySpec` (engine) | `AnswerInv` |
| `TimedImplementsEngine` | `TimedSpec => Spec` | none needed |
| `ServiceTimeBounded` | `[]ServiceBounded` | `ServiceInv`, with `ClocksOK` |
| `NoFalseAlarm` | `[]NoFalseTxTimeout` | `AlarmInv`, with `TypeOK`, `ClocksOK` (`ClocksConsistent`) |
| `PromptSlaveHeard`, `NoBusContention`, `RepliesBelong` | `[]PromptSlaveIsHeard`, `[]NoContention`, `[]ReplyBelongsToRequest` | `TurnInv`, with `Numbered` and the invariants above |
| `SlotsAreDescriptors` | `[]SlotsMatchDescriptors` | `NetInv` |
| `RecvDoesNotWait` | `[]RecvOnlyWhenReady` | `RecvInv`, with `NetInv` |
| `TasksNeverWaitForOneAnother` | `RESP_LEN >= MAX_TCP_CLIENTS` gives `[]NoCircularWait` | `LoadInv`, with `NetInv` |
| `StrayNeedsClose` | `[]StrayOnlyAfterClose` | `StrayInv`, with `NetInv` |
| `IdleTimeoutExact` | `[]IdleExact` | `IdleInv`, with `NetInv` |
| `AnswersKeepOrder` | `AnswersInOrder` | `OrderInv`, with `StrayInv` |
| `IdleClientsHaveNoRequest` | `IDLE >= REQ_LEN + 4` gives `[]IdleHasNothingOutstanding` | `WaitInv`, with `IdleInv`, `StrayInv` |
| `ServerKeepsContract` | `GatewaySpec` (server) | `Forwardable`, `CountInv`, with `NetInv` |
| `BracketHeldByRunning`, `PlainBracketUpdatesAreAtomic` | `[]PlainBracketIsAtomic` | `BracketInv`, `PoolInv` |
| `MutexUpdatesAreAtomic` | `[]MutexIsAtomic` | `HeapInv` |
| `MailboxOrder` | `[]MailboxKeepsOrder` | `BoxInv` |
| `SignalsAreCounted` | `[]SignalsCounted` | `SemInv` |
| `TypeCorrect` (`SysArchProofs`) | `[]TypeOK` | `BoundsInv`, with all of the above |
| `TickWaitsForScheduler` | `[]TickNeedsScheduler` | `MaskedInv` |
| `WaitsAreForEver` | `StuckWithoutTick`: no step leaves the wait for a link that is down, or for a crystal that does not start; why `LinkWaitEnds` fails | `MaskedInv` |
| `TypeCorrect` (`BootProofs`) | `[]BootTypeOK` | `BootInv` |

The strengthenings say why the property is true:

* `RemInv`: in the middle of a byte the equation of `CrcIsRemainder` holds with
  the register 8 - `j` places higher, and nothing below those places is divided
  off yet; so a 1 that is shifted out takes away a multiple of the generator that
  was not taken before, and 0xA001 is the rest of that multiple.
* `BurstInv`: the two registers differ by the damage alone until the first
  damaged bit is shifted out. From then on no other damage can come (all lies
  within 16 bits), and a shift is linear and turns no difference into none
  (`ShiftBitLinear`, `ShiftBitKeeps`); so the difference together with what is
  still on the line is never empty again.
* `TxInv`: without an overrun the DMA is idle whenever the task is not polling,
  and `tx_done_flag`, cleared by `ArmTx`, can only be raised by the end of this
  transmission, with DE already low and the frame whole. `BusReleased` alone is
  not inductive: nothing in it excludes a DMA still running at `hal_tx`.
* `WakeInv`: without a UART error the semaphore drained at STEP 3 stays empty
  until the timers start (no timer runs before, by `TimersOnlyInWindow`), and is
  then only given together with a flag.
* `Genuine`: every character on the bus or in the buffer that names a slave
  belongs to a request that was submitted. `ExamInv`: `rx_len <= rx_index`
  while the frame is examined, and the receive handler writes only at
  `rx_index + 1`; so what the CRC and unit checks found is still true at the
  copy.
* `AnswerInv`: a request on the bus has passed STEP 1, and a response about to
  be sent is one of those `Gateway` allows for the request being served.
* `ServiceInv`: at each place, the service so far and the wait still to come
  stay within the sum. In the polling loop the limit is tested once a tick, which
  is the one tick of `MAX_SERVICE`.
* `AlarmInv`: with short frames the transmitter is busy only while the task polls,
  what is left of the frame is less than what is left of the limit, and a poll with
  neither a transmission nor `tx_done_flag` is one whose transmission a DMA error
  ended.
* `Numbered`: requests are numbered in the order in which they come, and nothing
  on the bus is about one that was not dequeued yet. `TurnInv`, while behaviour
  is orderly: whoever sends or is about to send was asked by the request in
  service (`Whose`); the buffer holds a beginning of its reply or nothing
  (`Received`, `OwnReply`); TIM2 restarts with each character of a prompt reply
  and TIM3 is further away than the rest of the reply (`AnswerTimes`,
  `TimersInv`); a late reply finds the timers stopped and ends before the wait
  does (`Noticed`).
* `NetInv`: slots, descriptors and connections are one-to-one, and the
  descriptors in `readfds` are those of clients until one is accepted.
  `RecvInv`: each slot not yet visited in this round whose descriptor is in
  `readfds` has something to read: a descriptor accepted in between is not in
  `readfds`, as it was free when `select` built it. That a free descriptor exists
  for every accept is a counting argument (`FreeFdExists`); that `Lowest` yields a
  least one is well-foundedness (`LowestIsMinimal`).
* `LoadInv`: between two collections of responses the server forwards at most one
  request for each slot, which bounds what is in both queues and in service
  together; with a response queue no shorter than the slots the two queues cannot
  both be full with one more request in service.
* `StrayInv`: whatever is queued, served or about to be forwarded names the
  descriptor of the connection it came from, unless that connection is closed.
* `IdleInv`: `age` and the difference of the ticks modulo the wrap agree, since
  every round closes who is idle before the age can outgrow the counter.
* `OrderInv`: along the request queue, the engine and the response queue the
  numbers of the requests go down from the newest to the oldest, every delivered
  answer is of an older one than all of these, and of two requests of one
  connection the older came earlier in its stream.
* `WaitInv`: while a request waits, the time since its client last spoke plus
  its place in the queue stays bounded: each unit of time sees the engine finish
  one request and the server make one round, and a round collects every answer.
  With 8 places the bound is 12 units; the code's `IDLE` is 23.
* `Forwardable`: what is about to be forwarded is of the next number, has the
  length and a descriptor the engine is specified for. `CountInv`: two halves of
  a request are received for each one that is forwarded, and none that was not
  sent; both are counted as the cardinalities of the sets `Halves(taken)` and
  `Halves(sent)`, so the bound on what clients send bounds what is forwarded.
* `PoolInv`, `HeapInv`: copies exist only inside a bracket, respectively under
  the mutex, and are current. `BracketInv`: a plain bracket means that BASEPRI
  is raised and its thread runs.
* `MaskedInv`: interrupts are masked from `SystemInit` to the first task, and
  SysTick is started after the mask; so the tick stands still.

Each step lemma has one case per action (or per group of actions that leave the
relevant variables alone); `UnchangedTypes` and the `...Frame` lemmas carry the
latter. The strengthenings live in the proof modules, since they explain the
proofs and not the code.

Only model-checked:

* liveness (`EveryRequestFinishes`, `EveryClientServed`, `BootEnds`), which needs
  fairness and is out of the prover's reach;
* `DamageDetected` for two inverted bits more than 15 apart, which rests on the
  order of x modulo the generator (32767): a computation, for which the prover
  has no induction over data.

`SlotsMatchDescriptors` and `ClocksOK` include the types of their modules.

## 6. Plan

Done, in this order: `ModbusFrames`, `Rs485Driver`, `BridgeEngine`, `Gateway`,
their proofs; `BridgeTiming`, `ModbusCrc`, `TcpServer`, `SysArch`, `Boot`, and
theirs. What would add most from here:

1. Time that passes while `lwip_send` is blocked, and what the idle timeout makes of
   it.
2. The branches of `sys_arch.c` for interrupt context, should a driver with a
   receive interrupt replace the stub: `sys_mbox_post` spins there for a queue
   that only a task can empty (`sys_arch.c:58`).
3. Several `recv`s per request, if the server comes to look at the MBAP length.

## 7. Not modelled

* The branches of `sys_arch.c` for interrupt context: no handler of this program
  calls lwIP. Creation and deletion of semaphores and mutexes, and `sys_now`,
  have no behaviour beyond the kernel's.
* The Ethernet callbacks are empty; the newlib stubs are not relied upon; clock
  and pin registers, LEDs, configuration headers (their values are used) and
  build scripts have no behaviour to check.
* The contents of Modbus PDUs (the bridge copies them unseen), FreeRTOS, lwIP
  and the HAL themselves.
* The guard time on the paths that skip it has no property: there is nothing
  the code keeps.

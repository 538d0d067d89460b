-------------------------------- MODULE Boot --------------------------------
(***************************************************************************)
(* From reset to the two tasks at work: system_stm32f4xx.c, main.c, the    *)
(* start of lwIP and of the Ethernet interface (ethernetif.c), the start   *)
(* of the two tasks, and the SysTick handler that may get in between.      *)
(*                                                                         *)
(* SystemInit masks every interrupt (PRIMASK) and nothing unmasks them     *)
(* before the scheduler starts its first task.  That keeps SysTick away    *)
(* from a kernel that does not exist yet, and stops the clock by which     *)
(* everything before the scheduler measures its timeouts.                  *)
(***************************************************************************)
EXTENDS Naturals, Sequences

CONSTANTS
  Crystals,      \* whether the 8 MHz crystal may start and the PLL lock on it
  Interfaces,    \* Ethernet interfaces: "stub" is ethernetif.c, the others
                 \* the drivers it asks to be replaced with, whose link is up
                 \* ("linked") or comes up later ("unlinked")
  HSE_TIMEOUT,   \* ticks the HAL waits for the crystal
  LINK_TIMEOUT,  \* ticks main waits for the link
  MaxTick        \* bound: ticks

ASSUME BootAssumption ==
  /\ Crystals \subseteq BOOLEAN /\ Interfaces \subseteq {"stub", "linked", "unlinked"}
  /\ {HSE_TIMEOUT, LINK_TIMEOUT, MaxTick} \subseteq Nat

Objects == <<"bridge_request_queue", "bridge_response_queue", "rs485_bus_mutex",
             "rx_frame_semaphore", "tx_done_semaphore">>
Tasks == {"TcpServer", "BridgeEng"}

VARIABLES
  stage,     \* where the start-up is
  primask,   \* interrupts are masked
  systick,   \* SysTick counts and interrupts
  tick,      \* uwTick
  since,     \* its value when the present wait began
  crystal,   \* the crystal and the PLL work
  heap,      \* how many more allocations of the kernel's heap succeed
  made,      \* number of Objects that exist
  iface,     \* the Ethernet interface
  netif,     \* gnetif
  task,      \* where each task is in its start
  early      \* history: SysTick called the kernel before the scheduler ran

boot_vars == <<stage, primask, systick, tick, since, crystal, heap, made,
               iface, netif, task, early>>
given   == <<crystal, iface>>
clock   == <<systick, tick, since>>
memory  == <<heap, made>>
outcome == <<task, early>>

Stops == {"Error_Handler", "MallocFailed", "HardFault"}
Places == Stops \cup
  {"SystemInit", "HAL_Init", "SystemClock_Config", "rs485_init", "objects",
   "check", "tcpip_init", "netif_add", "netif_set_up", "link_wait",
   "tasks", "scheduler", "running"}

\* Allocations that lwIP (a mailbox, the mutexes of its core and of its heap,
\* the control block and the stack of its thread) and the kernel make at
\* their start.
LwipAllocs == 5
SchedulerAllocs == 5
TaskAllocs == 2
AllAllocs ==
  Len(Objects) + LwipAllocs + 2 * TaskAllocs + SchedulerAllocs

BootTypeOK ==
  /\ stage \in Places
  /\ {primask, systick, early, crystal} \subseteq BOOLEAN
  /\ tick \in 0 .. MaxTick /\ since \in 0 .. MaxTick
  /\ heap \in 0 .. AllAllocs /\ made \in 0 .. Len(Objects)
  /\ iface \in Interfaces /\ netif \in [link : BOOLEAN, linkoutput : BOOLEAN]
  /\ task \in [Tasks -> {"none", "start", "bind", "listen", "error_exit", "loop"}]

BootInit ==
  /\ stage = "SystemInit" /\ primask = FALSE /\ systick = FALSE
  /\ tick = 0 /\ since = 0
  /\ crystal \in Crystals /\ iface \in Interfaces
  /\ heap \in 0 .. AllAllocs /\ made = 0
  /\ netif = [link |-> FALSE, linkoutput |-> FALSE]
  /\ task = [t \in Tasks |-> "none"] /\ early = FALSE

At(p, q) == stage = p /\ stage' = q
Stop(p) == stage' = p /\ primask' = TRUE

\* By uwTick, HAL_GetTick: the only clock before the scheduler.
Elapsed(n) == tick - since > n

-----------------------------------------------------------------------------
(* Clocks and peripherals.                                                 *)

\* Mutant: interrupts stay enabled.
SystemInit_Unmasked ==
  /\ At("SystemInit", "HAL_Init") /\ UNCHANGED primask
  /\ UNCHANGED <<given, clock, memory, netif, outcome>>

SystemInit ==
  /\ At("SystemInit", "HAL_Init") /\ primask' = TRUE
  /\ UNCHANGED <<given, clock, memory, netif, outcome>>

HAL_Init ==
  /\ At("HAL_Init", "SystemClock_Config")
  /\ systick' = TRUE /\ since' = tick
  /\ UNCHANGED <<given, primask, tick, memory, netif, outcome>>

\* HAL_RCC_OscConfig polls the crystal and the PLL until its timeouts; it and
\* HAL_RCC_ClockConfig may also fail at once.
SystemClock_Config ==
  /\ stage = "SystemClock_Config"
  /\ \/ crystal /\ stage' = "rs485_init" /\ UNCHANGED primask
     \/ (crystal \/ Elapsed(HSE_TIMEOUT)) /\ Stop("Error_Handler")
  /\ UNCHANGED <<given, clock, memory, netif, outcome>>

\* Any of HAL_UART_Init, HAL_DMA_Init and HAL_TIM_Base_Init may fail.
rs485_init ==
  /\ stage = "rs485_init"
  /\ \/ stage' = "objects" /\ UNCHANGED primask
     \/ Stop("Error_Handler")
  /\ UNCHANGED <<given, clock, memory, netif, outcome>>

-----------------------------------------------------------------------------
(* Allocations: the kernel calls vApplicationMallocFailedHook when one     *)
(* fails, and that does not return.                                        *)

\* Mutant: nobody notices that the heap is exhausted.
Allocate_NoCheck(n, next) ==
  heap' = heap - n /\ stage' = next /\ UNCHANGED primask

Allocate(n, next) ==
  IF heap >= n THEN /\ heap' = heap - n /\ stage' = next /\ UNCHANGED primask
               ELSE /\ heap' = 0 /\ Stop("MallocFailed")

CreateObject ==
  /\ stage = "objects"
  /\ Allocate(1, IF made + 1 = Len(Objects) THEN "check" ELSE "objects")
  /\ made' = IF heap > 0 THEN made + 1 ELSE made
  /\ UNCHANGED <<given, clock, netif, outcome>>

CheckObjects ==
  /\ stage = "check"
  /\ IF made = Len(Objects) THEN stage' = "tcpip_init" /\ UNCHANGED primask
                       ELSE Stop("Error_Handler")
  /\ UNCHANGED <<given, clock, memory, netif, outcome>>

\* sys_mbox_new, sys_mutex_new, sys_thread_new of sys_arch.c.
tcpip_init ==
  /\ stage = "tcpip_init" /\ Allocate(LwipAllocs, "netif_add")
  /\ UNCHANGED <<given, clock, made, netif, outcome>>

\* The two tasks; xTaskCreate fails only by an allocation.
CreateTasks ==
  /\ stage = "tasks" /\ Allocate(2 * TaskAllocs, "scheduler")
  /\ task' = IF heap >= 2 * TaskAllocs THEN [t \in Tasks |-> "start"] ELSE task
  /\ UNCHANGED <<given, clock, made, netif, early>>

\* The idle and timer tasks; the first task starts with interrupts enabled.
vTaskStartScheduler ==
  /\ stage = "scheduler"
  /\ IF heap >= SchedulerAllocs
     THEN /\ heap' = heap - SchedulerAllocs
          /\ stage' = "running" /\ primask' = FALSE
     ELSE heap' = 0 /\ Stop("MallocFailed")
  /\ UNCHANGED <<given, clock, made, netif, outcome>>

-----------------------------------------------------------------------------
(* The network interface.                                                  *)

\* Mutant: the stub does not say that its link is up.
ethernetif_init_NoLink ==
  [link |-> iface = "linked", linkoutput |-> iface # "stub"]

\* The stub's link is up and it has nothing to send with.
ethernetif_init ==
  [link |-> iface # "unlinked", linkoutput |-> iface # "stub"]

netif_add ==
  /\ At("netif_add", "netif_set_up") /\ netif' = ethernetif_init
  /\ UNCHANGED <<given, primask, clock, memory, outcome>>

\* Bringing up an interface whose link is up sends a gratuitous ARP through
\* linkoutput; a call through NULL is a HardFault.
netif_set_up ==
  /\ stage = "netif_set_up"
  /\ IF netif.link /\ ~netif.linkoutput THEN Stop("HardFault")
     ELSE stage' = "link_wait" /\ UNCHANGED primask
  /\ since' = tick
  /\ UNCHANGED <<given, systick, tick, memory, netif, outcome>>

\* While the link is down main looks at it again after every HAL_Delay.
LinkWait ==
  /\ At("link_wait", "tasks")
  /\ netif.link \/ Elapsed(LINK_TIMEOUT)
  /\ UNCHANGED <<given, primask, clock, memory, netif, outcome>>

-----------------------------------------------------------------------------
(* The tasks and the tick.                                                 *)

Go(t, from, to) ==
  /\ stage = "running" /\ task[t] = from
  /\ \E s \in to : task' = [task EXCEPT ![t] = s]
  /\ UNCHANGED <<given, stage, primask, clock, memory, netif, early>>

\* Each call may fail; error_exit is for good.
lwip_socket == Go("TcpServer", "start", {"bind", "error_exit"})
lwip_bind   == Go("TcpServer", "bind", {"listen", "error_exit"})
lwip_listen == Go("TcpServer", "listen", {"loop", "error_exit"})
bridge_engine_task == Go("BridgeEng", "start", {"loop"})

\* Both clocks advance, whether or not the kernel is there.
SysTick_Handler ==
  /\ systick /\ ~primask /\ tick < MaxTick
  /\ tick' = tick + 1
  /\ early' = (early \/ stage # "running")
  /\ UNCHANGED <<given, stage, primask, systick, since, memory, netif, task>>

Processor ==
  \/ SystemInit \/ HAL_Init \/ SystemClock_Config \/ rs485_init
  \/ CreateObject \/ CheckObjects \/ tcpip_init
  \/ netif_add \/ netif_set_up \/ LinkWait
  \/ CreateTasks \/ vTaskStartScheduler
  \/ lwip_socket \/ lwip_bind \/ lwip_listen \/ bridge_engine_task

BootNext == Processor \/ SysTick_Handler
BootSpec == BootInit /\ [][BootNext]_boot_vars

\* The processor runs, and its tick comes as long as it is not masked.
BootFairSpec ==
  BootSpec /\ WF_boot_vars(Processor) /\ WF_boot_vars(SysTick_Handler)

-----------------------------------------------------------------------------
(* Properties.                                                             *)

Stopped == stage \in Stops
AtWork == stage = "running" /\ task["BridgeEng"] = "loop"
                         /\ task["TcpServer"] \in {"loop", "error_exit"}

\* The SysTick handler calls the kernel without asking whether it runs
\* (stm32f4xx_it.c:53): never before the scheduler has been started.
TickNeedsScheduler == ~early

\* The start-up comes to an end, one way or the other, whatever the heap and
\* whatever init fails, if the crystal and the PLL work and the link is up when
\* it is first looked at: no other wait depends on the tick, which stands still.
BootEnds == crystal /\ iface # "unlinked" => <>(Stopped \/ AtWork)

-----------------------------------------------------------------------------
(* What a comment says and the code does not do.                           *)

\* main.c:179, 183: the wait for the link has a timeout of 10 seconds, and the
\* start-up then proceeds without link.
LinkWaitEnds == stage = "link_wait" ~> stage # "link_wait"
=============================================================================

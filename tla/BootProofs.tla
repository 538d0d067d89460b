----------------------------- MODULE BootProofs -----------------------------
(***************************************************************************)
(* Theorems about Boot: nothing between the reset and the first task lets  *)
(* the tick through, so that it neither reaches a kernel that is not there *)
(* nor ends a wait, whatever the heap, the crystal and the interface.      *)
(***************************************************************************)
EXTENDS Boot, TLAPS

\* Interrupts are masked from SystemInit until the first task, SysTick is
\* started later than that, and the tick stands still.
MaskedInv ==
  /\ stage = "SystemInit" => ~systick
  /\ stage \notin {"SystemInit", "running"} => primask
  /\ stage # "running" => tick = 0 /\ since = 0
  /\ ~early

LEMMA NextMasked == MaskedInv /\ [BootNext]_boot_vars => MaskedInv'
<1> SUFFICES ASSUME MaskedInv, [BootNext]_boot_vars PROVE MaskedInv'
  OBVIOUS
<1>1. CASE UNCHANGED boot_vars
  BY <1>1 DEF boot_vars, MaskedInv
<1>2. CASE SystemInit \/ HAL_Init \/ SystemClock_Config \/ rs485_init
  BY <1>2 DEF MaskedInv, SystemInit, HAL_Init, SystemClock_Config, rs485_init,
     At, Stop, clock, outcome
<1>3. CASE CreateObject \/ CheckObjects \/ tcpip_init
  <2>1. /\ stage \in {"objects", "check", "tcpip_init"}
        /\ UNCHANGED <<clock, outcome>>
        /\ stage' \in {"objects", "check", "tcpip_init", "netif_add"} \cup Stops
        /\ primask' = primask \/ primask' = TRUE
    BY <1>3 DEF CreateObject, CheckObjects, tcpip_init, Allocate, Stop, Stops
  <2>2. QED
    BY <2>1 DEF MaskedInv, clock, outcome, Stops
<1>4. CASE netif_add \/ netif_set_up \/ LinkWait
  BY <1>4 DEF MaskedInv, netif_add, netif_set_up, LinkWait, At, Stop, clock, outcome
<1>5. CASE CreateTasks \/ vTaskStartScheduler
  BY <1>5 DEF MaskedInv, CreateTasks, vTaskStartScheduler, Allocate, Stop, clock,
     outcome
<1>6. CASE lwip_socket \/ lwip_bind \/ lwip_listen \/ bridge_engine_task
  BY <1>6 DEF MaskedInv, lwip_socket, lwip_bind, lwip_listen, bridge_engine_task,
     Go, clock
<1>7. CASE SysTick_Handler
  <2>1. stage = "running"
    BY <1>7 DEF SysTick_Handler, MaskedInv
  <2>2. QED
    BY <1>7, <2>1 DEF SysTick_Handler, MaskedInv
<1>8. QED
  BY <1>1, <1>2, <1>3, <1>4, <1>5, <1>6, <1>7 DEF BootNext, Processor

LEMMA MaskedUntilRunning == BootSpec => []MaskedInv
<1>1. BootInit => MaskedInv
  BY DEF BootInit, MaskedInv
<1>2. QED
  BY <1>1, NextMasked, PTL DEF BootSpec

\* The tick handler never calls the kernel before the scheduler runs
\* (stm32f4xx_it.c:53), whatever fails on the way.
THEOREM TickWaitsForScheduler == BootSpec => []TickNeedsScheduler
<1>1. MaskedInv => TickNeedsScheduler
  BY DEF MaskedInv, TickNeedsScheduler
<1>2. QED
  BY <1>1, MaskedUntilRunning, PTL

\* Why LinkWaitEnds fails: until the scheduler runs, the waits of main and of
\* the HAL are not ended by their limits.
StuckWithoutTick ==
  [][/\ stage = "SystemClock_Config" /\ ~crystal => stage' = stage
     /\ stage = "link_wait" /\ ~netif.link => stage' = stage]_boot_vars

\* With a crystal that does not start, or a link that is not up, the start-up
\* stays where it is (main.c:66, 181), whatever the limits are: the tick that
\* they are measured by does not advance.
THEOREM WaitsAreForEver == BootSpec => StuckWithoutTick
<1>1. MaskedInv /\ [BootNext]_boot_vars =>
        [/\ stage = "SystemClock_Config" /\ ~crystal => stage' = stage
         /\ stage = "link_wait" /\ ~netif.link => stage' = stage]_boot_vars
  <2> SUFFICES ASSUME MaskedInv, [BootNext]_boot_vars
               PROVE  /\ stage = "SystemClock_Config" /\ ~crystal => stage' = stage
                      /\ stage = "link_wait" /\ ~netif.link => stage' = stage
    OBVIOUS
  <2>1. stage # "running" => ~Elapsed(HSE_TIMEOUT) /\ ~Elapsed(LINK_TIMEOUT)
    BY BootAssumption DEF MaskedInv, Elapsed
  <2>2. CASE UNCHANGED boot_vars \/ SysTick_Handler
    BY <2>2 DEF boot_vars, SysTick_Handler
  <2>3. CASE SystemClock_Config
    BY <2>1, <2>3 DEF SystemClock_Config, Stop
  <2>4. CASE LinkWait
    BY <2>1, <2>4 DEF LinkWait, At
  <2>5. CASE \/ SystemInit \/ HAL_Init \/ rs485_init \/ CreateObject
             \/ CheckObjects \/ tcpip_init \/ netif_add \/ netif_set_up
             \/ CreateTasks \/ vTaskStartScheduler
    BY <2>5 DEF SystemInit, HAL_Init, rs485_init, CreateObject, CheckObjects,
       tcpip_init, netif_add, netif_set_up, CreateTasks, vTaskStartScheduler, At
  <2>6. CASE lwip_socket \/ lwip_bind \/ lwip_listen \/ bridge_engine_task
    BY <2>6 DEF lwip_socket, lwip_bind, lwip_listen, bridge_engine_task, Go
  <2>7. QED
    BY <2>2, <2>3, <2>4, <2>5, <2>6 DEF BootNext, Processor
<1>2. QED
  BY <1>1, MaskedUntilRunning, PTL DEF BootSpec, StuckWithoutTick

\* One more object is created only while one is missing.
BootInv ==
  /\ BootTypeOK
  /\ stage \in {"SystemInit", "HAL_Init", "SystemClock_Config", "rs485_init",
            "objects"} => made < Len(Objects)

LEMMA NextBoot == BootInv /\ [BootNext]_boot_vars => BootInv'
<1> SUFFICES ASSUME BootInv, [BootNext]_boot_vars PROVE BootInv'
  OBVIOUS
<1> USE BootAssumption DEF BootInv, BootTypeOK, Places, Stops
<1>0. /\ Len(Objects) = 5 /\ AllAllocs \in Nat
      /\ LwipAllocs \in Nat /\ TaskAllocs \in Nat /\ SchedulerAllocs \in Nat
  BY DEF Objects, AllAllocs, LwipAllocs, TaskAllocs, SchedulerAllocs
<1>1. CASE UNCHANGED boot_vars
  BY <1>1 DEF boot_vars
<1>2. CASE SystemInit \/ HAL_Init \/ SystemClock_Config \/ rs485_init
  BY <1>2 DEF SystemInit, HAL_Init, SystemClock_Config, rs485_init, At, Stop,
     given, clock, memory, outcome
<1>3. ASSUME NEW n \in Nat, NEW next \in Places, Allocate(n, next)
      PROVE  /\ stage' \in {next, "MallocFailed"} /\ primask' \in BOOLEAN
             /\ heap' \in 0 .. AllAllocs /\ (heap < n => stage' = "MallocFailed")
  <2>1. heap \in 0 .. AllAllocs /\ primask \in BOOLEAN
    OBVIOUS
  <2>2. CASE heap >= n
    <3>1. heap' = heap - n /\ stage' = next /\ primask' = primask
      BY <1>3, <2>2 DEF Allocate
    <3>2. heap' \in 0 .. AllAllocs /\ ~(heap < n)
      BY <1>0, <2>1, <2>2, <3>1
    <3>3. QED
      BY <2>1, <3>1, <3>2
  <2>3. CASE ~(heap >= n)
    <3>1. heap' = 0 /\ stage' = "MallocFailed" /\ primask' = TRUE
      BY <1>3, <2>3 DEF Allocate, Stop
    <3>2. heap' \in 0 .. AllAllocs
      BY <1>0, <3>1
    <3>3. QED
      BY <3>1, <3>2
  <2>4. QED
    BY <2>2, <2>3
<1>4. CASE CreateObject
  <2> DEFINE next == IF made + 1 = Len(Objects) THEN "check" ELSE "objects"
  <2>1. /\ stage = "objects" /\ Allocate(1, next)
        /\ made' = IF heap > 0 THEN made + 1 ELSE made
        /\ UNCHANGED <<given, clock, netif, outcome>>
    BY <1>4 DEF CreateObject
  <2>2. next \in Places
    OBVIOUS
  <2>3. /\ stage' \in {next, "MallocFailed"} /\ primask' \in BOOLEAN
        /\ heap' \in 0 .. AllAllocs /\ (heap < 1 => stage' = "MallocFailed")
    BY <1>3, <2>1, <2>2
  <2>4. /\ made' \in 0 .. Len(Objects)
        /\ stage' = "objects" => made' < Len(Objects)
    BY <1>0, <2>1, <2>3
  <2>5. QED
    BY <2>1, <2>3, <2>4 DEF given, clock, outcome
<1>5. CASE CheckObjects
  BY <1>5 DEF CheckObjects, Stop, given, clock, memory, outcome
<1>6. CASE tcpip_init
  BY <1>0, <1>3, <1>6 DEF tcpip_init, given, clock, outcome
<1>7. CASE CreateTasks
  <2>1. 2 * TaskAllocs \in Nat
    BY <1>0
  <2>2. stage' \in {"scheduler", "MallocFailed"} /\ primask' \in BOOLEAN
        /\ heap' \in 0 .. AllAllocs
    BY <1>3, <1>7, <2>1 DEF CreateTasks
  <2>3. task' \in [Tasks -> {"none", "start", "bind", "listen", "error_exit", "loop"}]
    BY <1>7 DEF CreateTasks
  <2>4. QED
    BY <1>7, <2>2, <2>3 DEF CreateTasks, given, clock
<1>8. CASE vTaskStartScheduler
  <2>1. /\ \/ heap >= SchedulerAllocs /\ heap' = heap - SchedulerAllocs
              /\ stage' = "running" /\ primask' = FALSE
           \/ heap' = 0 /\ stage' = "MallocFailed" /\ primask' = TRUE
        /\ UNCHANGED <<given, clock, made, netif, outcome>>
    BY <1>8 DEF vTaskStartScheduler, Stop
  <2>2. heap' \in 0 .. AllAllocs
    BY <1>0, <2>1
  <2>3. primask' \in BOOLEAN /\ stage' \in {"running", "MallocFailed"}
    BY <2>1
  <2>4. QED
    BY <2>1, <2>2, <2>3 DEF given, clock, outcome
<1>9. CASE netif_add \/ netif_set_up \/ LinkWait
  <2>1. ethernetif_init \in [link : BOOLEAN, linkoutput : BOOLEAN]
    BY DEF ethernetif_init
  <2>2. CASE netif_add
    BY <2>1, <2>2 DEF netif_add, At, given, clock, memory, outcome
  <2>3. CASE netif_set_up \/ LinkWait
    BY <2>3 DEF netif_set_up, LinkWait, At, Stop, given, clock, memory, outcome
  <2>4. QED
    BY <1>9, <2>2, <2>3
<1>10. CASE lwip_socket \/ lwip_bind \/ lwip_listen \/ bridge_engine_task
  BY <1>10 DEF lwip_socket, lwip_bind, lwip_listen, bridge_engine_task, Go,
     Tasks, given, clock, memory
<1>11. CASE SysTick_Handler
  BY <1>11 DEF SysTick_Handler, given, memory
<1>12. QED
  BY <1>1, <1>2, <1>4, <1>5, <1>6, <1>7, <1>8, <1>9, <1>10, <1>11
  DEF BootNext, Processor

\* Types: whatever fails, no more objects are counted than there are, and the
\* heap is not overdrawn.
THEOREM TypeCorrect == BootSpec => []BootTypeOK
<1>1. BootInit => BootInv
  <2> SUFFICES ASSUME BootInit PROVE BootInv
    OBVIOUS
  <2>1. Len(Objects) = 5
    BY DEF Objects
  <2>2. tick \in 0 .. MaxTick /\ since \in 0 .. MaxTick /\ made = 0
        /\ made \in 0 .. Len(Objects) /\ made < Len(Objects)
    BY <2>1, BootAssumption DEF BootInit
  <2>3. {primask, systick, early, crystal} \subseteq BOOLEAN
    BY BootAssumption DEF BootInit
  <2>4. QED
    BY <2>2, <2>3 DEF BootInit, BootInv, BootTypeOK, Places
<1>2. BootInv => BootTypeOK
  BY DEF BootInv
<1>3. QED
  BY <1>1, <1>2, NextBoot, PTL DEF BootSpec
=============================================================================

---------------------------- MODULE MCFromReset -----------------------------
(* Boot followed by BridgeEngine, for TLC: from reset to the last request.  *)
(* The engine begins to run where Boot leaves its task, in the loop, with   *)
(* the driver, the queues and the mutex as rs485_init and main made them.   *)
EXTENDS MCBridgeEngine, Boot

all_vars == <<vars, boot_vars>>

\* The engine reads no tick of Boot's: it begins when these are used up, so
\* that the two do not multiply each other's states.
EngineRuns == task["BridgeEng"] = "loop" /\ tick = MaxTick
ServerRuns == task["TcpServer"] = "loop"

BootStep(A)   == A /\ UNCHANGED vars
BridgeStep(A) == EngineRuns /\ A /\ UNCHANGED boot_vars

FromResetInit == BootInit /\ Init
FromResetNext ==
  \/ BootStep(BootNext)
  \/ BridgeStep(Next) /\ (submitted' # submitted => ServerRuns)

\* What Boot and BridgeEngine assume of processor, tick, task and timers.
FromReset ==
  /\ FromResetInit /\ [][FromResetNext]_all_vars
  /\ WF_all_vars(BootStep(Processor))
  /\ WF_all_vars(BootStep(SysTick_Handler))
  /\ WF_all_vars(BridgeStep(Task))
  /\ WF_all_vars(BridgeStep(TakePendingInterrupt))
=============================================================================

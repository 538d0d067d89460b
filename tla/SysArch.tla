------------------------------ MODULE SysArch -------------------------------
(***************************************************************************)
(* sys_arch.c: what lwIP's threads get from FreeRTOS through this port, on *)
(* one CPU.  The threads are any that keep lwIP's rules: they touch the    *)
(* pools inside a protection bracket and the heap under its mutex, and may *)
(* use mailboxes and semaphores anywhere, inside brackets too.             *)
(*                                                                         *)
(* No handler of this program calls lwIP (the callbacks of ethernetif.c    *)
(* are empty), so the branches for interrupt context are left out.         *)
(* Priorities are ignored: any switch is possible while BASEPRI allows it. *)
(***************************************************************************)
EXTENDS Naturals, Sequences

CONSTANTS
  Threads,      \* lwIP's threads
  Messages,     \* what a mailbox carries
  NoThread,     \* the mutex is free
  MBOX_SIZE,    \* size of the mailbox
  SEM_MAX,      \* greatest count of a semaphore (0xFFFF in the code)
  Nesting,      \* bound: brackets that a thread nests
  Versions,     \* bound: the shared data count their updates modulo this
  MaxPosts,     \* bound: messages taken by the mailbox
  MaxSignals    \* bound: signals given

ASSUME SysArchAssumption ==
  /\ Threads # {} /\ NoThread \notin Threads
  /\ MBOX_SIZE \in Nat \ {0} /\ SEM_MAX \in Nat \ {0} /\ Nesting \in Nat
  /\ Versions \in Nat \ {0, 1} /\ MaxPosts \in Nat /\ MaxSignals \in Nat

Data == {"pool", "heap"}
None == Versions     \* a thread holds no copy

VARIABLES
  masked,     \* BASEPRI is raised: no switch of threads
  cur,        \* the thread that runs
  depth,      \* brackets a thread is in
  shared,     \* version of the data
  copy,       \* what a thread has read and is about to update
  owner,      \* holder of the heap's mutex
  mbox,       \* messages in the mailbox
  valid,      \* the mailbox exists
  sem,        \* count of the semaphore
  call,       \* the kernel call a thread is in
  plain,      \* history: the thread's bracket had no bracket or kernel call inside
  accepted,   \* history: the messages lwIP was told are posted
  fetched,    \* history: the messages fetched
  given,      \* history: signals
  taken       \* history: successful waits

cpu      == <<masked, cur, depth, plain>>
versions == <<shared, copy>>
box      == <<mbox, valid, accepted, fetched>>
semvars  == <<sem, given, taken>>
vars     == <<cpu, call, versions, owner, box, semvars>>

Idle == [op |-> "none"]
Calls == {Idle} \cup [op : {"lock", "fetch", "wait"}]
                \cup [op : {"post"}, msg : Messages]

TypeOK ==
  /\ masked \in BOOLEAN /\ cur \in Threads
  /\ depth \in [Threads -> 0 .. Nesting]
  /\ shared \in [Data -> 0 .. Versions - 1]
  /\ copy \in [Threads -> [Data -> 0 .. Versions]]
  /\ owner \in Threads \cup {NoThread}
  /\ mbox \in Seq(Messages) /\ Len(mbox) <= MBOX_SIZE /\ valid \in BOOLEAN
  /\ sem \in 0 .. SEM_MAX
  /\ call \in [Threads -> Calls] /\ plain \in [Threads -> BOOLEAN]
  /\ accepted \in Seq(Messages) /\ fetched \in Seq(Messages)
  /\ given \in Nat /\ taken \in Nat

Init ==
  /\ masked = FALSE /\ cur \in Threads
  /\ depth = [t \in Threads |-> 0]
  /\ shared = [x \in Data |-> 0]
  /\ copy = [t \in Threads |-> [x \in Data |-> None]]
  /\ owner = NoThread
  /\ mbox = <<>> /\ valid = TRUE /\ sem = 0
  /\ call = [t \in Threads |-> Idle] /\ plain = [t \in Threads |-> FALSE]
  /\ accepted = <<>> /\ fetched = <<>> /\ given = 0 /\ taken = 0

-----------------------------------------------------------------------------
(* The kernel.  Every call of it ends a critical section of its own, and   *)
(* taskEXIT_CRITICAL clears BASEPRI, whoever raised it.                    *)

InCode(t) == cur = t /\ call[t] = Idle
Inside(t, op) == cur = t /\ call[t].op = op

KernelCall(t) ==
  /\ masked' = FALSE
  /\ plain' = [plain EXCEPT ![t] = FALSE]
  /\ UNCHANGED <<cur, depth>>

Enter(t, c) == InCode(t) /\ KernelCall(t) /\ call' = [call EXCEPT ![t] = c]
Leave(t) == call' = [call EXCEPT ![t] = Idle]

Switch ==
  /\ ~masked /\ \E t \in Threads \ {cur} : cur' = t
  /\ UNCHANGED <<masked, depth, plain, call, versions, owner, box, semvars>>

-----------------------------------------------------------------------------
(* Protection.                                                             *)

\* Mutant: interrupts are not disabled.
DisableInterrupts_Not == masked' = masked

DisableInterrupts == masked' = TRUE

sys_arch_protect(t) ==
  /\ InCode(t) /\ depth[t] < Nesting
  /\ DisableInterrupts
  /\ depth' = [depth EXCEPT ![t] = @ + 1]
  /\ plain' = [plain EXCEPT ![t] = depth[t] = 0]
  /\ UNCHANGED <<cur, versions, owner, box, semvars, call>>

\* It ignores what sys_arch_protect returned: the outer bracket ends too.
sys_arch_unprotect(t) ==
  /\ InCode(t) /\ depth[t] > 0 /\ copy[t]["pool"] = None
  /\ masked' = FALSE
  /\ depth' = [depth EXCEPT ![t] = @ - 1]
  /\ plain' = [plain EXCEPT ![t] = FALSE]
  /\ UNCHANGED <<cur, versions, owner, box, semvars, call>>

\* lwIP reads a free list or a count, and writes it back changed.
Allowed(t, x) == IF x = "pool" THEN depth[t] > 0 ELSE owner = t

Load(t, x) ==
  /\ InCode(t) /\ Allowed(t, x) /\ copy[t][x] = None
  /\ copy' = [copy EXCEPT ![t][x] = shared[x]]
  /\ UNCHANGED <<cpu, call, shared, owner, box, semvars>>

Store(t, x) ==
  /\ InCode(t) /\ copy[t][x] # None
  /\ shared' = [shared EXCEPT ![x] = (copy[t][x] + 1) % Versions]
  /\ copy' = [copy EXCEPT ![t][x] = None]
  /\ UNCHANGED <<cpu, call, owner, box, semvars>>

-----------------------------------------------------------------------------
(* The mutex.                                                              *)

LockBegins(t) ==
  /\ owner # t /\ Enter(t, [op |-> "lock"])
  /\ UNCHANGED <<versions, owner, box, semvars>>

\* Mutant: one try instead of a loop, and its result ignored.
MutexTaken_OneTry(t) == owner' = t

MutexTaken(t) == owner = NoThread /\ owner' = t

sys_mutex_lock(t) ==
  /\ Inside(t, "lock") /\ MutexTaken(t) /\ Leave(t)
  /\ UNCHANGED <<cpu, versions, box, semvars>>

sys_mutex_unlock(t) ==
  /\ InCode(t) /\ owner = t /\ copy[t]["heap"] = None
  /\ owner' = NoThread /\ KernelCall(t)
  /\ UNCHANGED <<versions, box, semvars, call>>

-----------------------------------------------------------------------------
(* The mailbox.                                                            *)

Room == Len(mbox) < MBOX_SIZE
Accept(m) == mbox' = Append(mbox, m) /\ accepted' = Append(accepted, m)
            /\ UNCHANGED <<valid, fetched>>
Receive == /\ mbox' = Tail(mbox) /\ fetched' = Append(fetched, Head(mbox))
           /\ UNCHANGED <<valid, accepted>>
Others  == UNCHANGED <<versions, owner, semvars>>

PostBegins(t) ==
  /\ valid /\ Len(accepted) < MaxPosts
  /\ \E m \in Messages : Enter(t, [op |-> "post", msg |-> m])
  /\ UNCHANGED box /\ Others

\* Blocks until there is room.
sys_mbox_post(t) ==
  /\ Inside(t, "post") /\ Room /\ Accept(call[t].msg)
  /\ Leave(t) /\ UNCHANGED cpu /\ Others

\* Mutant: the result of the kernel is not looked at.
TryAccept_AlwaysOk(m) ==
  IF Room THEN Accept(m) ELSE /\ accepted' = Append(accepted, m)
                              /\ UNCHANGED <<mbox, valid, fetched>>

\* ERR_OK if there is room, ERR_MEM if not.
TryAccept(m) == IF Room THEN Accept(m) ELSE UNCHANGED box

sys_mbox_trypost(t) ==
  /\ InCode(t) /\ valid /\ Len(accepted) < MaxPosts
  /\ \E m \in Messages : TryAccept(m)
  /\ KernelCall(t) /\ UNCHANGED call /\ Others

\* sys_arch_mbox_tryfetch, and sys_arch_mbox_fetch with a timeout of 0.
sys_arch_mbox_tryfetch(t) ==
  /\ InCode(t) /\ valid
  /\ IF mbox # <<>> THEN Receive ELSE UNCHANGED box
  /\ KernelCall(t) /\ UNCHANGED call /\ Others

FetchBegins(t) ==
  /\ valid /\ Enter(t, [op |-> "fetch"])
  /\ UNCHANGED box /\ Others

\* A message, or the end of a timeout of at least one tick.
sys_arch_mbox_fetch(t) ==
  /\ Inside(t, "fetch")
  /\ IF mbox # <<>> THEN Receive ELSE UNCHANGED box
  /\ Leave(t) /\ UNCHANGED cpu /\ Others

\* lwIP frees a mailbox that nobody waits on; what is in it is dropped.
sys_mbox_free(t) ==
  /\ InCode(t) /\ valid
  /\ \A u \in Threads : call[u].op \notin {"post", "fetch"}
  /\ mbox' = <<>> /\ valid' = FALSE
  /\ accepted' = fetched /\ UNCHANGED fetched
  /\ KernelCall(t) /\ UNCHANGED call /\ Others

sys_mbox_new(t) ==
  /\ InCode(t) /\ ~valid
  /\ mbox' = <<>> /\ valid' = TRUE
  /\ accepted' = fetched /\ UNCHANGED fetched
  /\ KernelCall(t) /\ UNCHANGED call /\ Others

-----------------------------------------------------------------------------
(* The semaphore.                                                          *)

\* Mutant: a binary semaphore, xSemaphoreCreateBinary.
Counted_Binary == IF sem < 1 THEN sem + 1 ELSE sem

\* Mutant: the counter has no limit.
Counted_NoLimit == sem + 1

\* The kernel refuses to count beyond the maximum and nobody looks.
Counted == IF sem < SEM_MAX THEN sem + 1 ELSE sem

Rest == UNCHANGED <<versions, owner, box>>
Take == IF sem > 0 THEN sem' = sem - 1 /\ taken' = taken + 1
        ELSE UNCHANGED <<sem, taken>>

sys_sem_signal(t) ==
  /\ InCode(t) /\ given < MaxSignals
  /\ sem' = Counted /\ given' = given + 1 /\ UNCHANGED taken
  /\ KernelCall(t) /\ UNCHANGED call /\ Rest

\* sys_arch_sem_wait with a timeout of 0.
SemPoll(t) ==
  /\ InCode(t) /\ Take /\ UNCHANGED given
  /\ KernelCall(t) /\ UNCHANGED call /\ Rest

WaitBegins(t) ==
  Enter(t, [op |-> "wait"]) /\ UNCHANGED semvars /\ Rest

sys_arch_sem_wait(t) ==
  /\ Inside(t, "wait") /\ Take /\ UNCHANGED given
  /\ Leave(t) /\ UNCHANGED cpu /\ Rest

-----------------------------------------------------------------------------
Thread(t) ==
  \/ sys_arch_protect(t) \/ sys_arch_unprotect(t)
  \/ \E x \in Data : Load(t, x) \/ Store(t, x)
  \/ LockBegins(t) \/ sys_mutex_lock(t) \/ sys_mutex_unlock(t)
  \/ PostBegins(t) \/ sys_mbox_post(t) \/ sys_mbox_trypost(t)
  \/ sys_arch_mbox_tryfetch(t) \/ FetchBegins(t) \/ sys_arch_mbox_fetch(t)
  \/ sys_mbox_free(t) \/ sys_mbox_new(t)
  \/ sys_sem_signal(t) \/ SemPoll(t) \/ WaitBegins(t) \/ sys_arch_sem_wait(t)

Next == Switch \/ \E t \in Threads : Thread(t)
Spec == Init /\ [][Next]_vars

-----------------------------------------------------------------------------
(* Properties.                                                             *)

\* A bracket that contains neither another bracket nor a call of the kernel
\* is atomic: what was read in it is what will be overwritten.  Any other
\* bracket may lose an update: sys_arch_unprotect and the kernel enable
\* interrupts without asking who disabled them.
PlainBracketIsAtomic ==
  \A t \in Threads : plain[t] /\ copy[t]["pool"] # None =>
                       copy[t]["pool"] = shared["pool"]

\* The mutex protects the heap through any misuse of the brackets.
MutexIsAtomic ==
  \A t \in Threads : copy[t]["heap"] # None =>
                       owner = t /\ copy[t]["heap"] = shared["heap"]

\* Whatever lwIP was told is posted is fetched once, in order, or still in
\* the mailbox; whatever was refused is not.
MailboxKeepsOrder == accepted = fetched \o mbox

\* Every signal is worth one successful wait, whoever waits and whenever, as
\* long as there are not more signals than the counter holds.
SignalsCounted == given <= SEM_MAX => given = taken + sem
=============================================================================

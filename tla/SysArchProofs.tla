--------------------------- MODULE SysArchProofs ----------------------------
(***************************************************************************)
(* What SysArch promises lwIP, for any number of threads, any mailbox and  *)
(* any nesting of brackets.                                                *)
(***************************************************************************)
EXTENDS SysArch, TLAPS

(* Who has disabled interrupts in a plain bracket is still running: nobody *)
(* else can be switched in, and every step of its own that enables them    *)
(* makes the bracket one that is not plain.                                *)
BracketInv ==
  /\ plain \in [Threads -> BOOLEAN] /\ cur \in Threads
  /\ \A t \in Threads : plain[t] => masked /\ cur = t

(* Copies outside a bracket do not exist, and a copy in a plain one is     *)
(* current.                                                                *)
PoolInv ==
  /\ copy \in [Threads -> [Data -> 0 .. Versions]]
  /\ shared \in [Data -> 0 .. Versions - 1]
  /\ depth \in [Threads -> Nat]
  /\ \A t \in Threads : depth[t] = 0 => copy[t]["pool"] = None
  /\ PlainBracketIsAtomic

\* Within a plain bracket interrupts are disabled and its thread runs: no other
\* thread is switched in before sys_arch_unprotect or a call of the kernel.
THEOREM BracketHeldByRunning == Spec => []BracketInv
<1>1. Init => BracketInv
  BY DEF Init, BracketInv
<1>2. BracketInv /\ [Next]_vars => BracketInv'
  <2> SUFFICES ASSUME BracketInv, [Next]_vars PROVE BracketInv'
    OBVIOUS
  <2> USE DEF BracketInv
  <2>1. CASE UNCHANGED vars
    BY <2>1 DEF vars, cpu
  <2>2. CASE Switch
    BY <2>2 DEF Switch
  <2>3. ASSUME NEW t \in Threads, cur = t, KernelCall(t) PROVE BracketInv'
    BY <2>3 DEF KernelCall
  <2>4. ASSUME NEW t \in Threads, UNCHANGED cpu PROVE BracketInv'
    BY <2>4 DEF cpu
  <2>5. ASSUME NEW t \in Threads, sys_arch_protect(t) PROVE BracketInv'
    BY <2>5 DEF sys_arch_protect, InCode, DisableInterrupts
  <2>6. ASSUME NEW t \in Threads, sys_arch_unprotect(t) PROVE BracketInv'
    BY <2>6 DEF sys_arch_unprotect, InCode
  <2>7. ASSUME NEW t \in Threads, Thread(t) PROVE BracketInv'
    BY <2>3, <2>4, <2>5, <2>6, <2>7
       DEF Thread, Load, Store, LockBegins, sys_mutex_lock, sys_mutex_unlock,
           PostBegins, sys_mbox_post, sys_mbox_trypost, sys_arch_mbox_tryfetch,
           FetchBegins, sys_arch_mbox_fetch, sys_mbox_free, sys_mbox_new,
           sys_sem_signal, SemPoll, WaitBegins, sys_arch_sem_wait, Enter, InCode
  <2>8. QED
    BY <2>1, <2>2, <2>7 DEF Next
<1>3. QED
  BY <1>1, <1>2, PTL DEF Spec

LEMMA VersionInRange ==
  ASSUME NEW n \in 0 .. Versions
  PROVE  (n + 1) % Versions \in 0 .. Versions - 1
BY SysArchAssumption

\* An update made in a plain bracket overwrites what was read in it.
THEOREM PlainBracketUpdatesAreAtomic == Spec => []PlainBracketIsAtomic
<1>1. Init => PoolInv
  BY SysArchAssumption DEF Init, PoolInv, PlainBracketIsAtomic, None, Data
<1>2. BracketInv /\ PoolInv /\ [Next]_vars => PoolInv'
  <2> SUFFICES ASSUME BracketInv, PoolInv, [Next]_vars PROVE PoolInv'
    OBVIOUS
  <2> USE DEF PoolInv, PlainBracketIsAtomic, BracketInv, Data, None
  <2>1. CASE UNCHANGED vars
    BY <2>1 DEF vars, cpu, versions
  <2>2. CASE Switch
    BY <2>2 DEF Switch, versions
  <2>3. ASSUME NEW t \in Threads, KernelCall(t), UNCHANGED versions PROVE PoolInv'
    BY <2>3 DEF KernelCall, versions
  <2>4. ASSUME NEW t \in Threads, UNCHANGED <<cpu, versions>> PROVE PoolInv'
    BY <2>4 DEF cpu, versions
  <2>5. ASSUME NEW t \in Threads, sys_arch_protect(t) PROVE PoolInv'
    BY <2>5 DEF sys_arch_protect, InCode, versions
  <2>6. ASSUME NEW t \in Threads, sys_arch_unprotect(t) PROVE PoolInv'
    BY <2>6 DEF sys_arch_unprotect, InCode, versions
  <2>7. ASSUME NEW t \in Threads, NEW x \in Data, Load(t, x) PROVE PoolInv'
    <3>1. UNCHANGED <<masked, cur, depth, plain, shared>>
      BY <2>7 DEF Load, cpu
    <3>2. copy' \in [Threads -> [Data -> 0 .. Versions]]
      BY <2>7, SysArchAssumption DEF Load
    <3>3. ASSUME NEW u \in Threads, copy'[u]["pool"] # copy[u]["pool"]
          PROVE  u = t /\ x = "pool" /\ copy'[u]["pool"] = shared["pool"]
      BY <2>7, <3>3 DEF Load
    <3>4. x = "pool" => depth[t] > 0
      BY <2>7 DEF Load, Allowed
    <3>5. QED
      BY <3>1, <3>2, <3>3, <3>4
  <2>8. ASSUME NEW t \in Threads, NEW x \in Data, Store(t, x) PROVE PoolInv'
    <3>1. cur = t /\ UNCHANGED <<masked, cur, depth, plain>>
      BY <2>8 DEF Store, cpu, InCode
    <3>2. copy' \in [Threads -> [Data -> 0 .. Versions]]
      BY <2>8, SysArchAssumption DEF Store
    <3>3. copy[t][x] \in 0 .. Versions
      OBVIOUS
    <3>4. shared' \in [Data -> 0 .. Versions - 1]
      BY <2>8, <3>3, VersionInRange DEF Store
    <3>5. ASSUME NEW u \in Threads, copy'[u]["pool"] # copy[u]["pool"]
          PROVE  copy'[u]["pool"] = None
      BY <2>8, <3>5 DEF Store
    <3>6. shared'["pool"] # shared["pool"] => copy'[t]["pool"] = None
      BY <2>8 DEF Store
    <3>7. \A u \in Threads : plain'[u] => u = t
      BY <3>1
    <3>8. PlainBracketIsAtomic'
      BY <3>1, <3>5, <3>6, <3>7
    <3>9. QED
      BY <3>1, <3>2, <3>4, <3>5, <3>8
  <2>9. ASSUME NEW t \in Threads, Thread(t) PROVE PoolInv'
    BY <2>3, <2>4, <2>5, <2>6, <2>7, <2>8, <2>9
       DEF Thread, LockBegins, sys_mutex_lock, sys_mutex_unlock,
           PostBegins, sys_mbox_post, sys_mbox_trypost, sys_arch_mbox_tryfetch,
           FetchBegins, sys_arch_mbox_fetch, sys_mbox_free, sys_mbox_new,
           sys_sem_signal, SemPoll, WaitBegins, sys_arch_sem_wait, Enter,
           Others, Rest
  <2>10. QED
    BY <2>1, <2>2, <2>9 DEF Next
<1>3. PoolInv => PlainBracketIsAtomic
  BY DEF PoolInv
<1>4. QED
  BY <1>1, <1>2, <1>3, BracketHeldByRunning, PTL DEF Spec

(* What a step does to the data, the mutex, the mailbox, the semaphore.    *)
DataStep(t) == \E x \in Data : Load(t, x) \/ Store(t, x)
BoxStep == \/ \E m \in Messages : Accept(m)
           \/ mbox # <<>> /\ Receive
           \/ mbox' = <<>> /\ fetched' = fetched /\ accepted' = fetched
SemStep == \/ sem' = Counted /\ given' = given + 1 /\ taken' = taken
           \/ Take /\ given' = given

CallInv == call \in [Threads -> Calls]

LEMMA StepEffects ==
  ASSUME NEW t \in Threads, Thread(t), CallInv
  PROVE  /\ UNCHANGED <<versions, owner>> \/ (DataStep(t) /\ UNCHANGED owner)
              \/ (UNCHANGED versions /\ (sys_mutex_lock(t) \/ sys_mutex_unlock(t)))
         /\ UNCHANGED box \/ BoxStep
         /\ UNCHANGED semvars \/ SemStep
<1> USE DEF DataStep, BoxStep, SemStep, Others, Rest
<1>1. CASE sys_arch_protect(t) \/ sys_arch_unprotect(t)
  BY <1>1 DEF sys_arch_protect, sys_arch_unprotect
<1>2. CASE DataStep(t)
  BY <1>2 DEF Load, Store
<1>3. CASE LockBegins(t) \/ sys_mutex_lock(t) \/ sys_mutex_unlock(t)
  BY <1>3 DEF LockBegins, sys_mutex_lock, sys_mutex_unlock
<1>4. CASE PostBegins(t) \/ FetchBegins(t) \/ WaitBegins(t)
  BY <1>4 DEF PostBegins, FetchBegins, WaitBegins
<1>5. CASE sys_mbox_post(t)
  <2>1. call[t].msg \in Messages
    BY <1>5 DEF sys_mbox_post, Inside, CallInv, Calls, Idle
  <2>2. QED
    BY <1>5, <2>1 DEF sys_mbox_post
<1>6. CASE sys_mbox_trypost(t)
  BY <1>6 DEF sys_mbox_trypost, TryAccept
<1>7. CASE sys_arch_mbox_tryfetch(t) \/ sys_arch_mbox_fetch(t)
  BY <1>7 DEF sys_arch_mbox_tryfetch, sys_arch_mbox_fetch
<1>8. CASE sys_mbox_free(t) \/ sys_mbox_new(t)
  BY <1>8 DEF sys_mbox_free, sys_mbox_new
<1>9. CASE sys_sem_signal(t) \/ SemPoll(t) \/ sys_arch_sem_wait(t)
  BY <1>9 DEF sys_sem_signal, SemPoll, sys_arch_sem_wait
<1>10. QED
  BY <1>1, <1>2, <1>3, <1>4, <1>5, <1>6, <1>7, <1>8, <1>9 DEF Thread

THEOREM CallsAreCalls == Spec => []CallInv
<1>1. Init => CallInv
  BY DEF Init, CallInv, Calls
<1>2. CallInv /\ [Next]_vars => CallInv'
  <2> SUFFICES ASSUME CallInv, [Next]_vars PROVE CallInv'
    OBVIOUS
  <2> USE DEF CallInv
  <2>1. CASE UNCHANGED <<call>>
    BY <2>1
  <2>2. ASSUME NEW t \in Threads, Leave(t) PROVE CallInv'
    BY <2>2 DEF Leave, Calls
  <2>3. ASSUME NEW t \in Threads, NEW c \in Calls, Enter(t, c) PROVE CallInv'
    BY <2>3 DEF Enter
  <2>4. ASSUME NEW t \in Threads, Thread(t) PROVE CallInv'
    <3>1. CASE LockBegins(t) \/ FetchBegins(t) \/ WaitBegins(t) \/ PostBegins(t)
      BY <2>3, <3>1 DEF LockBegins, FetchBegins, WaitBegins, PostBegins, Calls
    <3>2. QED
      BY <2>1, <2>2, <2>4, <3>1
         DEF Thread, sys_arch_protect, sys_arch_unprotect, Load, Store,
             sys_mutex_lock, sys_mutex_unlock, sys_mbox_post, sys_mbox_trypost,
             sys_arch_mbox_tryfetch, sys_arch_mbox_fetch, sys_mbox_free,
             sys_mbox_new, sys_sem_signal, SemPoll, sys_arch_sem_wait
  <2>5. QED
    BY <2>1, <2>4 DEF Next, vars, Switch
<1>3. QED
  BY <1>1, <1>2, PTL DEF Spec

(* Copies of the heap exist under the mutex alone.                         *)
HeapInv ==
  /\ copy \in [Threads -> [Data -> 0 .. Versions]]
  /\ shared \in [Data -> 0 .. Versions - 1]
  /\ owner \in Threads \cup {NoThread}
  /\ MutexIsAtomic

LEMMA HeapInvariant == Spec => []HeapInv
<1>1. Init => HeapInv
  BY SysArchAssumption DEF Init, HeapInv, MutexIsAtomic, None, Data
<1>2. CallInv /\ HeapInv /\ [Next]_vars => HeapInv'
  <2> SUFFICES ASSUME CallInv, HeapInv, [Next]_vars PROVE HeapInv'
    OBVIOUS
  <2> USE DEF HeapInv, MutexIsAtomic, Data, None
  <2>1. CASE UNCHANGED <<versions, owner>>
    BY <2>1 DEF versions
  <2>2. ASSUME NEW t \in Threads, sys_mutex_lock(t) PROVE HeapInv'
    BY <2>2, SysArchAssumption DEF sys_mutex_lock, MutexTaken, versions
  <2>3. ASSUME NEW t \in Threads, sys_mutex_unlock(t) PROVE HeapInv'
    BY <2>3 DEF sys_mutex_unlock, versions
  <2>4. ASSUME NEW t \in Threads, NEW x \in Data, Load(t, x) PROVE HeapInv'
    <3>1. UNCHANGED <<shared, owner>>
      BY <2>4 DEF Load
    <3>2. copy' \in [Threads -> [Data -> 0 .. Versions]]
      BY <2>4, SysArchAssumption DEF Load
    <3>3. ASSUME NEW u \in Threads, copy'[u]["heap"] # copy[u]["heap"]
          PROVE  u = owner /\ copy'[u]["heap"] = shared["heap"]
      BY <2>4, <3>3 DEF Load, Allowed
    <3>4. QED
      BY <3>1, <3>2, <3>3
  <2>5. ASSUME NEW t \in Threads, NEW x \in Data, Store(t, x) PROVE HeapInv'
    <3>1. UNCHANGED owner
      BY <2>5 DEF Store
    <3>2. copy' \in [Threads -> [Data -> 0 .. Versions]]
      BY <2>5, SysArchAssumption DEF Store
    <3>3. copy[t][x] \in 0 .. Versions
      OBVIOUS
    <3>4. shared' \in [Data -> 0 .. Versions - 1]
      BY <2>5, <3>3, VersionInRange DEF Store
    <3>5. ASSUME NEW u \in Threads, copy'[u]["heap"] # copy[u]["heap"]
          PROVE  copy'[u]["heap"] = None
      BY <2>5, <3>5 DEF Store
    <3>6. shared'["heap"] # shared["heap"]
            => owner = t /\ copy'[t]["heap"] = None
      BY <2>5 DEF Store
    <3>7. QED
      BY <3>1, <3>2, <3>4, <3>5, <3>6
  <2>6. ASSUME NEW t \in Threads, Thread(t) PROVE HeapInv'
    BY <2>1, <2>2, <2>3, <2>4, <2>5, <2>6, StepEffects DEF DataStep
  <2>7. QED
    BY <2>1, <2>6 DEF Next, vars, Switch
<1>3. QED
  BY <1>1, <1>2, CallsAreCalls, PTL DEF Spec

\* Whatever brackets do, an update under the mutex overwrites what was read.
THEOREM MutexUpdatesAreAtomic == Spec => []MutexIsAtomic
<1>1. HeapInv => MutexIsAtomic
  BY DEF HeapInv
<1>2. QED
  BY <1>1, HeapInvariant, PTL

(* The mailbox.                                                            *)
BoxInv ==
  /\ mbox \in Seq(Messages) /\ fetched \in Seq(Messages)
  /\ MailboxKeepsOrder

LEMMA AppendBoth ==
  ASSUME NEW S, NEW r \in Seq(S), NEW b \in Seq(S), NEW m \in S
  PROVE  Append(r \o b, m) = r \o Append(b, m)
OBVIOUS

LEMMA MoveHead ==
  ASSUME NEW S, NEW r \in Seq(S), NEW b \in Seq(S), b # <<>>
  PROVE  /\ r \o b = Append(r, Head(b)) \o Tail(b)
         /\ Tail(b) \in Seq(S) /\ Append(r, Head(b)) \in Seq(S)
OBVIOUS

LEMMA BoxInvariant == Spec => []BoxInv
<1>1. Init => BoxInv
  BY DEF Init, BoxInv, MailboxKeepsOrder
<1>2. CallInv /\ BoxInv /\ [Next]_vars => BoxInv'
  <2> SUFFICES ASSUME CallInv, BoxInv, [Next]_vars PROVE BoxInv'
    OBVIOUS
  <2> USE DEF BoxInv, MailboxKeepsOrder
  <2>1. CASE UNCHANGED box
    BY <2>1 DEF box
  <2>2. ASSUME NEW m \in Messages, Accept(m) PROVE BoxInv'
    <3>1. /\ accepted' = Append(fetched \o mbox, m) /\ fetched' = fetched
          /\ mbox' = Append(mbox, m)
      BY <2>2 DEF Accept
    <3>2. Append(fetched \o mbox, m) = fetched \o Append(mbox, m)
      BY AppendBoth
    <3>3. Append(mbox, m) \in Seq(Messages)
      OBVIOUS
    <3>4. QED
      BY <3>1, <3>2, <3>3
  <2>3. CASE mbox # <<>> /\ Receive
    <3>1. accepted' = accepted /\ mbox' = Tail(mbox)
            /\ fetched' = Append(fetched, Head(mbox))
      BY <2>3 DEF Receive
    <3>2. /\ fetched \o mbox = Append(fetched, Head(mbox)) \o Tail(mbox)
          /\ Tail(mbox) \in Seq(Messages)
          /\ Append(fetched, Head(mbox)) \in Seq(Messages)
      BY <2>3, MoveHead
    <3>3. QED
      BY <3>1, <3>2
  <2>4. CASE mbox' = <<>> /\ fetched' = fetched /\ accepted' = fetched
    BY <2>4
  <2>5. ASSUME NEW t \in Threads, Thread(t) PROVE BoxInv'
    BY <2>1, <2>2, <2>3, <2>4, <2>5, StepEffects DEF BoxStep
  <2>6. QED
    BY <2>1, <2>5 DEF Next, vars, Switch
<1>3. QED
  BY <1>1, <1>2, CallsAreCalls, PTL DEF Spec

\* What lwIP was told is posted is fetched once and in order, or still there.
THEOREM MailboxOrder == Spec => []MailboxKeepsOrder
<1>1. BoxInv => MailboxKeepsOrder
  BY DEF BoxInv
<1>2. QED
  BY <1>1, BoxInvariant, PTL

(* The semaphore.                                                          *)
SemInv ==
  /\ sem \in 0 .. SEM_MAX /\ given \in Nat /\ taken \in Nat
  /\ SignalsCounted

LEMMA SemInvariant == Spec => []SemInv
<1>1. Init => SemInv
  BY SysArchAssumption DEF Init, SemInv, SignalsCounted
<1>2. CallInv /\ SemInv /\ [Next]_vars => SemInv'
  <2> SUFFICES ASSUME CallInv, SemInv, [Next]_vars PROVE SemInv'
    OBVIOUS
  <2> USE SysArchAssumption DEF SemInv, SignalsCounted
  <2>1. CASE UNCHANGED semvars
    BY <2>1 DEF semvars
  <2>2. CASE sem' = Counted /\ given' = given + 1 /\ taken' = taken
    BY <2>2 DEF Counted
  <2>3. CASE Take /\ given' = given
    BY <2>3 DEF Take
  <2>4. ASSUME NEW t \in Threads, Thread(t) PROVE SemInv'
    BY <2>1, <2>2, <2>3, <2>4, StepEffects DEF SemStep
  <2>5. QED
    BY <2>1, <2>4 DEF Next, vars, Switch
<1>3. QED
  BY <1>1, <1>2, CallsAreCalls, PTL DEF Spec

\* Each signal is worth one wait until the counter is full.
THEOREM SignalsAreCounted == Spec => []SignalsCounted
<1>1. SemInv => SignalsCounted
  BY DEF SemInv
<1>2. QED
  BY <1>1, SemInvariant, PTL

(* Bounds of brackets and mailbox.                                         *)
BoundsInv ==
  /\ masked \in BOOLEAN /\ valid \in BOOLEAN
  /\ depth \in [Threads -> 0 .. Nesting]
  /\ mbox \in Seq(Messages) /\ Len(mbox) <= MBOX_SIZE

LEMMA NextBounds == CallInv /\ BoundsInv /\ [Next]_vars => BoundsInv'
<1> SUFFICES ASSUME CallInv, BoundsInv, [Next]_vars PROVE BoundsInv'
  OBVIOUS
<1> DEFINE Guarded == /\ masked' \in BOOLEAN
                      /\ depth' \in [Threads -> 0 .. Nesting]
           Boxed == /\ mbox' \in Seq(Messages) /\ Len(mbox') <= MBOX_SIZE
                    /\ valid' \in BOOLEAN
<1>1. CASE UNCHANGED vars \/ Switch
  BY <1>1 DEF BoundsInv, vars, cpu, box, Switch
<1>2. CASE \E t \in Threads : Thread(t)
  <2> SUFFICES ASSUME NEW t \in Threads, Thread(t) PROVE Guarded /\ Boxed
    BY <1>2 DEF BoundsInv
  <2>1. CASE sys_arch_protect(t)
    BY <2>1, SysArchAssumption
    DEF BoundsInv, sys_arch_protect, DisableInterrupts, box
  <2>2. CASE sys_arch_unprotect(t)
    <3>1. /\ depth[t] \in 0 .. Nesting /\ depth[t] > 0
          /\ depth' = [depth EXCEPT ![t] = depth[t] - 1]
          /\ masked' = FALSE /\ UNCHANGED box
      BY <2>2 DEF BoundsInv, sys_arch_unprotect
    <3>2. depth[t] - 1 \in 0 .. Nesting
      BY <3>1, SysArchAssumption
    <3>3. depth' \in [Threads -> 0 .. Nesting]
      BY <3>1, <3>2 DEF BoundsInv
    <3>4. QED
      BY <3>1, <3>3 DEF BoundsInv, box
  <2>3. UNCHANGED cpu \/ KernelCall(t) => Guarded
    BY DEF BoundsInv, cpu, KernelCall
  <2>4. UNCHANGED box => Boxed
    BY DEF BoundsInv, box
  <2>5. ASSUME NEW m \in Messages, Room, Accept(m) PROVE Boxed
    BY <2>5, SysArchAssumption DEF BoundsInv, Room, Accept
  <2>6. mbox # <<>> /\ Receive => Boxed
    BY SysArchAssumption DEF BoundsInv, Receive
  <2>7. mbox' = <<>> /\ valid' \in BOOLEAN => Boxed
    BY SysArchAssumption
  <2>8. CASE \/ \E x \in Data : Load(t, x) \/ Store(t, x)
             \/ sys_mutex_lock(t) \/ sys_mutex_unlock(t) \/ LockBegins(t)
    BY <2>3, <2>4, <2>8
    DEF Load, Store, sys_mutex_lock, sys_mutex_unlock, LockBegins, Enter, box
  <2>9. CASE \/ PostBegins(t) \/ FetchBegins(t) \/ WaitBegins(t)
             \/ sys_sem_signal(t) \/ SemPoll(t) \/ sys_arch_sem_wait(t)
    BY <2>3, <2>4, <2>9
    DEF PostBegins, FetchBegins, WaitBegins, sys_sem_signal, SemPoll,
        sys_arch_sem_wait, Enter, Rest
  <2>10. CASE sys_mbox_post(t)
    <3>1. call[t].msg \in Messages
      BY <2>10 DEF sys_mbox_post, Inside, CallInv, Calls, Idle
    <3>2. QED
      BY <2>3, <2>5, <2>10, <3>1 DEF sys_mbox_post
  <2>11. CASE sys_mbox_trypost(t) \/ sys_arch_mbox_tryfetch(t)
              \/ sys_arch_mbox_fetch(t)
    BY <2>3, <2>4, <2>5, <2>6, <2>11
    DEF sys_mbox_trypost, TryAccept, sys_arch_mbox_tryfetch, sys_arch_mbox_fetch
  <2>12. CASE sys_mbox_free(t) \/ sys_mbox_new(t)
    BY <2>3, <2>7, <2>12 DEF sys_mbox_free, sys_mbox_new
  <2>13. QED
    BY <2>1, <2>2, <2>8, <2>9, <2>10, <2>11, <2>12 DEF Thread
<1>3. QED
  BY <1>1, <1>2 DEF Next

\* Types; among them the size of the mailbox, which nobody overfills, and the
\* count of the semaphore.
THEOREM TypeCorrect == Spec => []TypeOK
<1>1. Init => BoundsInv
  <2> SUFFICES ASSUME Init PROVE BoundsInv
    OBVIOUS
  <2>1. masked = FALSE /\ valid = TRUE /\ mbox = <<>>
        /\ depth = [t \in Threads |-> 0]
    BY DEF Init
  <2>2. mbox \in Seq(Messages) /\ Len(mbox) <= MBOX_SIZE
    BY <2>1, SysArchAssumption
  <2>3. 0 \in 0 .. Nesting
    BY SysArchAssumption
  <2>4. QED
    BY <2>1, <2>2, <2>3 DEF BoundsInv
<1>2. Spec => []BoundsInv
  BY <1>1, NextBounds, CallsAreCalls, PTL DEF Spec
<1>3. BoundsInv /\ BracketInv /\ CallInv /\ HeapInv /\ BoxInv /\ SemInv => TypeOK
  <2> SUFFICES ASSUME BoundsInv, BracketInv, CallInv, HeapInv, BoxInv, SemInv
               PROVE  TypeOK
    OBVIOUS
  <2>1. accepted \in Seq(Messages)
    BY DEF BoxInv, MailboxKeepsOrder
  <2>2. QED
    BY <2>1 DEF BoundsInv, BracketInv, CallInv, HeapInv, BoxInv, SemInv, TypeOK
<1>4. QED
  BY <1>2, <1>3, BracketHeldByRunning, CallsAreCalls, HeapInvariant,
     BoxInvariant, SemInvariant, PTL
=============================================================================

-------------------------- MODULE ConditionProofs --------------------------
(***************************************************************************)
(* Proofs about Lock and Condition (module Condition), for every set of    *)
(* threads: the lock is exclusive, no signal is missed, and the two are    *)
(* the monitor of module Monitor.                                          *)
(***************************************************************************)
EXTENDS Condition, FiniteSetTheorems, TLAPS

-----------------------------------------------------------------------------
(* The inductive invariant                                                 *)
HasLock(t) == pc[t] \in {"taken", "in", "broadcast", "retaken"}

LockInv ==
  /\ lock \in {0, 1}
  /\ lock = 1 => \A t \in Thread : ~HasLock(t)
  /\ lock = 0 => \E t \in Thread : HasLock(t)
  /\ \A t, u \in Thread : HasLock(t) /\ HasLock(u) => t = u

Queued(t) == \E i \in 1 .. Len(waitQueue) : waitQueue[i] = t

(* A semaphore of Wait exists from the call to the return, with value 0    *)
(* while it is queued and value 1 from the signal to the P.                *)
QueueInv ==
  /\ \A i, j \in 1 .. Len(waitQueue) : waitQueue[i] = waitQueue[j] => i = j
  /\ \A t \in Thread :
       /\ pc[t] = "wait" => waiter[t] \in {0, 1} /\ (Queued(t) <=> waiter[t] = 0)
       /\ pc[t] # "wait" => ~Queued(t)
       /\ pc[t] \in {"reacquire", "retaken"} => waiter[t] = 0
       /\ pc[t] \notin {"wait", "reacquire", "retaken"} => waiter[t] = NULL

ConditionInv == TypeOK /\ LockInv /\ HolderIsKnown /\ QueueInv

-----------------------------------------------------------------------------
(* List::Append and List::RemoveFront by position                          *)
LEMMA AppendAt ==
  ASSUME NEW S, NEW q \in Seq(S), NEW x \in S
  PROVE  /\ Append(q, x) \in Seq(S)
         /\ Len(q) \in Nat
         /\ Len(Append(q, x)) = Len(q) + 1
         /\ \A i \in 1 .. Len(q) : Append(q, x)[i] = q[i]
         /\ Append(q, x)[Len(q) + 1] = x
OBVIOUS

LEMMA TailAt ==
  ASSUME NEW S, NEW q \in Seq(S), q # << >>
  PROVE  /\ Tail(q) \in Seq(S)
         /\ Len(q) \in Nat \ {0}
         /\ Len(Tail(q)) = Len(q) - 1
         /\ \A i \in 1 .. Len(q) - 1 : Tail(q)[i] = q[i + 1]
         /\ Head(q) = q[1]
         /\ q[1] \in S
OBVIOUS

(* A signal goes to a thread in Wait that has none yet.                    *)
LEMMA HeadWaits ==
  ASSUME TypeOK, QueueInv, waitQueue # << >>
  PROVE  LET h == Head(waitQueue)
         IN  h \in Thread /\ pc[h] = "wait" /\ waiter[h] = 0 /\ Queued(h)
<1>1. Head(waitQueue) = waitQueue[1] /\ waitQueue[1] \in Thread /\ 1 \in 1 .. Len(waitQueue)
  BY TailAt DEF TypeOK
<1>2. Queued(Head(waitQueue))
  BY <1>1, Zenon DEF Queued
<1>. QED  BY <1>1, <1>2, Zenon DEF QueueInv

-----------------------------------------------------------------------------
(* The types, the exclusion of the lock and lockHolder, step by step       *)
LEMMA TypesKept ==
  ASSUME TypeOK, QueueInv, [Next]_vars
  PROVE  TypeOK'
<1> USE DEF TypeOK, Goto, Location
<1>1. ASSUME NEW t \in Thread, Acquire(t) \/ TakeLock(t) \/ Acquired(t) \/ Release(t)
      PROVE  TypeOK'
  BY <1>1 DEF Acquire, TakeLock, Acquired, Release, DoRelease
<1>2. ASSUME NEW t \in Thread, Wait(t)
      PROVE  TypeOK'
  BY <1>2, AppendAt DEF Wait, DoRelease
<1>3. ASSUME NEW t \in Thread, Woken(t) \/ ReturnFromWait(t)
      PROVE  TypeOK'
  <2>1. pc[t] = "wait" => waiter[t] \in {0, 1}
    BY Zenon DEF QueueInv
  <2>. QED  BY <1>3, <2>1 DEF Woken, ReturnFromWait
<1>4. ASSUME DoSignal
      PROVE  waitQueue' \in Seq(Thread) /\ waiter' \in [Thread -> Nat \cup {NULL}]
  BY <1>4, HeadWaits, TailAt DEF DoSignal
<1>5. ASSUME NEW t \in Thread, Signal(t) \/ Broadcast(t)
      PROVE  TypeOK'
  BY <1>4, <1>5, Zenon DEF Signal, Broadcast, DoSignal
<1>6. CASE UNCHANGED vars
  BY <1>6, Zenon DEF vars
<1>. QED  BY <1>1, <1>2, <1>3, <1>5, <1>6, Zenon DEF Next

LEMMA LockKept ==
  ASSUME TypeOK, LockInv, HolderIsKnown, [Next]_vars
  PROVE  LockInv' /\ HolderIsKnown'
<1> USE ConditionAssumption DEF TypeOK, Goto, LockInv, HasLock, HolderIsKnown
<1>1. ASSUME NEW t \in Thread, Acquire(t) \/ Woken(t)
      PROVE  LockInv' /\ HolderIsKnown'
  BY <1>1 DEF Acquire, Woken
<1>2. ASSUME NEW t \in Thread, TakeLock(t)
      PROVE  LockInv' /\ HolderIsKnown'
  BY <1>2 DEF TakeLock
<1>3. ASSUME NEW t \in Thread, Acquired(t) \/ ReturnFromWait(t)
      PROVE  LockInv' /\ HolderIsKnown'
  BY <1>3 DEF Acquired, ReturnFromWait
<1>4. ASSUME NEW t \in Thread, Release(t) \/ Wait(t)
      PROVE  LockInv' /\ HolderIsKnown'
  BY <1>4, SMTT(30) DEF Release, Wait, DoRelease
<1>5. ASSUME NEW t \in Thread, Signal(t) \/ Broadcast(t)
      PROVE  LockInv' /\ HolderIsKnown'
  BY <1>5 DEF Signal, Broadcast, DoSignal
<1>6. CASE UNCHANGED vars
  BY <1>6, Zenon DEF vars
<1>. QED  BY <1>1, <1>2, <1>3, <1>4, <1>5, <1>6, Zenon DEF Next

-----------------------------------------------------------------------------
(* The queue of Condition and the semaphores of Wait, step by step         *)
LEMMA QueueKept ==
  ASSUME TypeOK, QueueInv, [Next]_vars
  PROVE  QueueInv'
<1>1. ASSUME NEW t \in Thread,
             \/ Acquire(t) \/ TakeLock(t) \/ Acquired(t) \/ Release(t)
             \/ ReturnFromWait(t) \/ Woken(t)
      PROVE  QueueInv'
  <2>1. waitQueue' = waitQueue
    BY <1>1, Zenon DEF Acquire, TakeLock, Acquired, Release, ReturnFromWait, Woken
  <2>2. \A u \in Thread : Queued(u)' <=> Queued(u)
    BY <2>1, Zenon DEF Queued
  <2>3. \A u \in Thread \ {t} : pc'[u] = pc[u] /\ waiter'[u] = waiter[u]
    BY <1>1, Zenon DEF Acquire, TakeLock, Acquired, Release, ReturnFromWait, Woken, Goto, TypeOK
  <2>4. /\ pc'[t] # "wait" /\ ~Queued(t)
        /\ pc'[t] \in {"reacquire", "retaken"} => waiter'[t] = 0
        /\ pc'[t] \notin {"wait", "reacquire", "retaken"} => waiter'[t] = NULL
    <3>1. CASE Woken(t)
      BY <3>1 DEF Woken, Goto, TypeOK, QueueInv
    <3>2. CASE ~Woken(t)
      BY <1>1, <3>2, Zenon
         DEF Acquire, TakeLock, Acquired, Release, ReturnFromWait, Goto, TypeOK, QueueInv
    <3>. QED  BY <3>1, <3>2, Zenon
  <2>. QED  BY <2>1, <2>2, <2>3, <2>4 DEF QueueInv
<1>2. ASSUME NEW t \in Thread, Wait(t)
      PROVE  QueueInv'
  <2>1. /\ waitQueue' = Append(waitQueue, t)
        /\ waiter'[t] = 0 /\ pc'[t] = "wait"
        /\ \A u \in Thread \ {t} : pc'[u] = pc[u] /\ waiter'[u] = waiter[u]
        /\ ~Queued(t)
    BY <1>2, Zenon DEF Wait, Goto, TypeOK, QueueInv
  <2>2. /\ Len(waitQueue) \in Nat
        /\ Len(waitQueue') = Len(waitQueue) + 1
        /\ \A i \in 1 .. Len(waitQueue) : waitQueue'[i] = waitQueue[i]
        /\ waitQueue'[Len(waitQueue) + 1] = t
    BY <2>1, AppendAt DEF TypeOK
  <2>3. \A u \in Thread : Queued(u)' <=> Queued(u) \/ u = t
    BY <2>2 DEF Queued
  <2>4. \A i, j \in 1 .. Len(waitQueue') : waitQueue'[i] = waitQueue'[j] => i = j
    BY <2>1, <2>2 DEF QueueInv, Queued
  <2>. QED  BY <2>1, <2>3, <2>4 DEF QueueInv
<1>3. ASSUME NEW t \in Thread, pc[t] # "wait", DoSignal,
             pc' = pc \/ (pc[t] \in {"in", "broadcast"} /\ Goto(t, "broadcast"))
      PROVE  QueueInv'
  <2> DEFINE h == Head(waitQueue)
  <2>1. h \in Thread /\ pc[h] = "wait" /\ waiter[h] = 0 /\ Queued(h) /\ h # t
    BY <1>3, HeadWaits, Zenon DEF DoSignal
  <2>2. /\ waiter'[h] = 1 /\ pc'[h] = "wait"
        /\ \A u \in Thread \ {h} : waiter'[u] = waiter[u]
        /\ \A u \in Thread : pc'[u] = pc[u] \/ (pc[u] = "in" /\ pc'[u] = "broadcast")
    BY <1>3, <2>1 DEF DoSignal, Goto, TypeOK
  <2>3. /\ Len(waitQueue) \in Nat \ {0}
        /\ Len(waitQueue') = Len(waitQueue) - 1
        /\ \A i \in 1 .. Len(waitQueue) - 1 : waitQueue'[i] = waitQueue[i + 1]
        /\ h = waitQueue[1]
    BY <1>3, TailAt, Zenon DEF DoSignal, TypeOK
  <2>4. \A u \in Thread : Queued(u)' <=> Queued(u) /\ u # h
    <3> TAKE u \in Thread
    <3>1. ASSUME Queued(u)'  PROVE  Queued(u) /\ u # h
      <4>1. PICK i \in 1 .. Len(waitQueue) - 1 : waitQueue[i + 1] = u
        BY <3>1, <2>3, Zenon DEF Queued
      <4>2. i + 1 \in 1 .. Len(waitQueue) /\ i + 1 # 1 /\ 1 \in 1 .. Len(waitQueue)
        BY <2>3
      <4>. QED  BY <4>1, <4>2, <2>3 DEF QueueInv, Queued
    <3>2. ASSUME Queued(u), u # h  PROVE  Queued(u)'
      <4>1. PICK i \in 1 .. Len(waitQueue) : waitQueue[i] = u
        BY <3>2, Zenon DEF Queued
      <4>2. i - 1 \in 1 .. Len(waitQueue') /\ waitQueue'[i - 1] = u
        BY <4>1, <3>2, <2>3
      <4>. QED  BY <4>2, Zenon DEF Queued
    <3>. QED  BY <3>1, <3>2, Zenon
  <2>5. \A i, j \in 1 .. Len(waitQueue') : waitQueue'[i] = waitQueue'[j] => i = j
    <3> SUFFICES ASSUME NEW i \in 1 .. Len(waitQueue'), NEW j \in 1 .. Len(waitQueue'),
                        waitQueue'[i] = waitQueue'[j]
                 PROVE  i = j
      BY Zenon
    <3>1. /\ i + 1 \in 1 .. Len(waitQueue) /\ waitQueue'[i] = waitQueue[i + 1]
          /\ j + 1 \in 1 .. Len(waitQueue) /\ waitQueue'[j] = waitQueue[j + 1]
      BY <2>3
    <3>2. i + 1 = j + 1
      BY <3>1, Zenon DEF QueueInv
    <3>. QED  BY <2>3, <3>2
  <2> HIDE DEF h
  <2>. QED  BY <2>1, <2>2, <2>4, <2>5 DEF QueueInv
<1>4. ASSUME NEW t \in Thread, Signal(t)
      PROVE  QueueInv'
  BY <1>3, <1>4, Zenon DEF Signal
<1>5. ASSUME NEW t \in Thread, Broadcast(t)
      PROVE  QueueInv'
  <2>1. CASE DoSignal /\ Goto(t, "broadcast")
    BY <1>3, <1>5, <2>1, Zenon DEF Broadcast
  <2>2. CASE ~(DoSignal /\ Goto(t, "broadcast"))
    <3>1. /\ waitQueue' = waitQueue /\ waiter' = waiter
          /\ \A u \in Thread : pc'[u] = pc[u] \/ (pc[u] = "broadcast" /\ pc'[u] = "in")
      BY <1>5, <2>2, Zenon DEF Broadcast, Goto, TypeOK
    <3>2. \A u \in Thread : Queued(u)' <=> Queued(u)
      BY <3>1, Zenon DEF Queued
    <3>. QED  BY <3>1, <3>2 DEF QueueInv
  <2>. QED  BY <2>1, <2>2, Zenon
<1>6. CASE UNCHANGED vars
  BY <1>6 DEF vars, QueueInv, Queued
<1>. QED  BY <1>1, <1>2, <1>4, <1>5, <1>6, Zenon DEF Next

LEMMA InvInit ==
  Init => ConditionInv
<1> SUFFICES ASSUME Init PROVE ConditionInv
  BY Zenon
<1>1. TypeOK
  BY DEF Init, TypeOK, Location
<1>2. LockInv /\ HolderIsKnown
  BY ConditionAssumption DEF Init, LockInv, HasLock, HolderIsKnown
<1>3. QueueInv
  BY DEF Init, QueueInv, Queued
<1>. QED  BY <1>1, <1>2, <1>3, Zenon DEF ConditionInv

LEMMA InvKept ==
  ConditionInv /\ [Next]_vars => ConditionInv'
BY TypesKept, LockKept, QueueKept, Zenon DEF ConditionInv

LEMMA InvHolds ==
  Spec => []ConditionInv
BY InvInit, InvKept, PTL DEF Spec

-----------------------------------------------------------------------------
(* Lock is exclusive for any number of threads: its semaphore is 0 exactly *)
(* while one thread is between the P of Acquire, or of Wait, and the V of  *)
(* Release, and lockHolder is that thread whenever an ASSERT asks.         *)
THEOREM LockCorrect == Spec => []LockIsExclusive
<1>1. ConditionInv => LockIsExclusive
  <2> SUFFICES ASSUME ConditionInv PROVE MutualExclusion
    BY Zenon DEF ConditionInv, LockIsExclusive
  <2>1. CASE lock = 1
    <3>1. Holding = {}
      BY <2>1, Zenon DEF ConditionInv, LockInv, HasLock, Holding
    <3>. QED  BY <2>1, <3>1, FS_EmptySet DEF MutualExclusion
  <2>2. CASE lock = 0
    <3>1. PICK t \in Thread : HasLock(t)
      BY <2>2, Zenon DEF ConditionInv, LockInv
    <3>2. Holding = {t}
      BY <3>1, Zenon DEF ConditionInv, LockInv, HasLock, Holding
    <3>3. Cardinality({t}) = 1
      BY FS_Singleton, Zenon
    <3>. QED  BY <2>2, <3>2, <3>3 DEF MutualExclusion
  <2>. QED  BY <2>1, <2>2, Zenon DEF ConditionInv, LockInv
<1>. QED  BY <1>1, InvHolds, PTL

(* Condition::Signal reaches a thread that has released the lock in Wait   *)
(* and not yet called P, for any number of threads: a thread in Wait is    *)
(* queued once or has its signal, and nobody else is queued.               *)
THEOREM SignalsCorrect == Spec => []SignalNotMissed
<1>1. ConditionInv => SignalNotMissed
  <2> SUFFICES ASSUME ConditionInv, NEW t \in Thread
               PROVE  LET queued == {i \in 1 .. Len(waitQueue) : waitQueue[i] = t}
                      IN  IF pc[t] = "wait"
                          THEN Cardinality(queued) + waiter[t] = 1
                          ELSE queued = {} /\ waiter[t] \in {0, NULL}
    BY Zenon DEF SignalNotMissed
  <2> DEFINE queued == {i \in 1 .. Len(waitQueue) : waitQueue[i] = t}
  <2>1. CASE pc[t] # "wait"
    BY <2>1 DEF ConditionInv, QueueInv, Queued
  <2>2. CASE pc[t] = "wait" /\ Queued(t)
    <3>1. PICK i \in 1 .. Len(waitQueue) : waitQueue[i] = t
      BY <2>2, Zenon DEF Queued
    <3>2. queued = {i}
      BY <3>1, Zenon DEF ConditionInv, QueueInv
    <3>3. Cardinality({i}) = 1 /\ waiter[t] = 0
      BY <2>2, FS_Singleton, Zenon DEF ConditionInv, QueueInv
    <3> HIDE DEF queued
    <3>4. Cardinality(queued) + waiter[t] = 1
      BY <3>2, <3>3
    <3>. QED  BY <2>2, <3>4, Zenon DEF queued
  <2>3. CASE pc[t] = "wait" /\ ~Queued(t)
    <3>1. queued = {}
      BY <2>3, Zenon DEF Queued
    <3>2. Cardinality({}) = 0 /\ waiter[t] = 1
      BY <2>3, FS_EmptySet, Zenon DEF ConditionInv, QueueInv
    <3> HIDE DEF queued
    <3>3. Cardinality(queued) + waiter[t] = 1
      BY <3>1, <3>2
    <3>. QED  BY <2>3, <3>3, Zenon DEF queued
  <2>. QED  BY <2>1, <2>2, <2>3, Zenon
<1>. QED  BY <1>1, InvHolds, PTL

-----------------------------------------------------------------------------
(* The refinement: who holds the abstract lock                             *)
InMonitor(at) == {t \in Thread : at[t] \in {"taken", "in", "broadcast", "retaken"}}

HolderOf(at) == IF InMonitor(at) = {} THEN NULL ELSE CHOOSE t \in InMonitor(at) : TRUE

LEMMA HolderOfOne ==
  ASSUME NEW at, \A t, u \in InMonitor(at) : t = u
  PROVE  /\ \A t \in InMonitor(at) : HolderOf(at) = t
         /\ InMonitor(at) = {} => HolderOf(at) = NULL
BY Zenon DEF HolderOf

LEMMA HolderNow ==
  ASSUME LockInv
  PROVE  /\ \A t \in Thread : HasLock(t) => Holder = t
         /\ lock = 1 => Holder = NULL
<1>1. Holder = HolderOf(pc) /\ InMonitor(pc) = Holding
  BY Zenon DEF Holder, HolderOf, InMonitor, Holding
<1>2. \A t, u \in InMonitor(pc) : t = u
  BY Zenon DEF LockInv, HasLock, InMonitor
<1>3. lock = 1 => InMonitor(pc) = {}
  BY Zenon DEF LockInv, HasLock, InMonitor
<1>. QED  BY <1>1, <1>2, <1>3, HolderOfOne, Zenon DEF HasLock, InMonitor

LEMMA HolderNext ==
  ASSUME LockInv'
  PROVE  /\ \A t \in Thread : HasLock(t)' => Holder' = t
         /\ lock' = 1 => Holder' = NULL
<1>1. Holder' = HolderOf(pc')
  BY Zenon DEF Holder, HolderOf, InMonitor, Holding
<1>2. \A t, u \in InMonitor(pc') : t = u
  BY Zenon DEF LockInv, HasLock, InMonitor
<1>3. lock' = 1 => InMonitor(pc') = {}
  BY Zenon DEF LockInv, HasLock, InMonitor
<1>. QED  BY <1>1, <1>2, <1>3, HolderOfOne, Zenon DEF HasLock, InMonitor

(* Every step of Lock and Condition is a step of the monitor or a stutter. *)
LEMMA StepIsMonitorStep ==
  ASSUME ConditionInv, ConditionInv', [Next]_vars
  PROVE  [AbstractMonitor!Next]_(AbstractMonitor!vars)
<1>0. /\ TypeOK /\ LockInv /\ QueueInv /\ LockInv'
      /\ \A t \in Thread : HasLock(t) => Holder = t
      /\ lock = 1 => Holder = NULL
      /\ \A t \in Thread : HasLock(t)' => Holder' = t
      /\ lock' = 1 => Holder' = NULL
  BY HolderNow, HolderNext, Zenon DEF ConditionInv
<1>1. ASSUME NEW t \in Thread, Acquire(t) \/ Acquired(t) \/ Woken(t) \/ ReturnFromWait(t)
      PROVE  UNCHANGED AbstractMonitor!vars
  <2>1. Holder' = Holder
    <3>1. \A u \in Thread : HasLock(u)' <=> HasLock(u)
      BY <1>0, <1>1, Zenon DEF Acquire, Acquired, Woken, ReturnFromWait, Goto, TypeOK, HasLock
    <3>2. lock' = lock
      BY <1>1, Zenon DEF Acquire, Acquired, Woken, ReturnFromWait
    <3>. QED  BY <1>0, <3>1, <3>2, Zenon DEF LockInv
  <2>2. Signalled' = Signalled
    BY <1>0, <1>1 DEF Acquire, Acquired, Woken, ReturnFromWait, Goto, TypeOK, Signalled, QueueInv
  <2>3. waitQueue' = waitQueue
    BY <1>1, Zenon DEF Acquire, Acquired, Woken, ReturnFromWait
  <2>. QED  BY <2>1, <2>2, <2>3, Zenon DEF AbstractMonitor!vars
<1>2. ASSUME NEW t \in Thread, TakeLock(t)
      PROVE  AbstractMonitor!Acquire(t) \/ AbstractMonitor!ReturnFromWait(t)
  <2>1. Holder = NULL /\ Holder' = t /\ waitQueue' = waitQueue
    BY <1>0, <1>2, Zenon DEF TakeLock, Goto, TypeOK, LockInv, HasLock
  <2>2. CASE pc[t] = "acquire"
    <3>1. Signalled' = Signalled /\ t \notin Signalled
      BY <1>0, <1>2, <2>2, Zenon DEF TakeLock, Goto, TypeOK, Signalled
    <3>2. \A i \in 1 .. Len(waitQueue) : waitQueue[i] # t
      BY <1>0, <2>2, Zenon DEF QueueInv, Queued
    <3>. QED  BY <2>1, <3>1, <3>2, Zenon DEF AbstractMonitor!Acquire, AbstractMonitor!Outside
  <2>3. CASE pc[t] = "reacquire"
    <3>1. Signalled' = Signalled \ {t} /\ t \in Signalled
      BY <1>0, <1>2, <2>3, Zenon DEF TakeLock, Goto, TypeOK, Signalled
    <3>. QED  BY <2>1, <3>1, Zenon DEF AbstractMonitor!ReturnFromWait
  <2>. QED  BY <1>2, <2>2, <2>3, Zenon DEF TakeLock
<1>3. ASSUME NEW t \in Thread, Release(t) \/ Wait(t)
      PROVE  AbstractMonitor!Release(t) \/ AbstractMonitor!Wait(t)
  <2>1. Holder = t /\ Holder' = NULL
    <3>1. HasLock(t) /\ lock = 0
      BY <1>0, <1>3, Zenon DEF Release, Wait, HasLock, LockInv
    <3>2. lock' = 1
      BY <3>1, <1>3 DEF Release, Wait, DoRelease
    <3>. QED  BY <1>0, <3>1, <3>2, Zenon
  <2>2. Signalled' = Signalled
    BY <1>0, <1>3 DEF Release, Wait, DoRelease, Goto, TypeOK, Signalled
  <2>. QED  BY <1>3, <2>1, <2>2, Zenon
            DEF Release, Wait, AbstractMonitor!Release, AbstractMonitor!Wait
<1>4. ASSUME NEW t \in Thread, HasLock(t), pc[t] \in {"in", "broadcast"}, DoSignal,
             pc' = pc \/ Goto(t, "broadcast")
      PROVE  AbstractMonitor!Signal(t)
  <2>1. Holder = t /\ Holder' = t
    BY <1>0, <1>4, Zenon DEF HasLock, Goto, TypeOK
  <2> DEFINE h == Head(waitQueue)
  <2>2. h \in Thread /\ pc[h] = "wait" /\ waiter[h] = 0
    BY <1>0, <1>4, HeadWaits, Zenon DEF DoSignal
  <2>3. Signalled' = Signalled \cup {h}
    <3>1. waiter'[h] = 1 /\ \A u \in Thread \ {h} : waiter'[u] = waiter[u]
      BY <1>0, <1>4, <2>2 DEF DoSignal, TypeOK
    <3>2. \A u \in Thread : pc'[u] = pc[u] \/ (u = t /\ pc'[u] = "broadcast")
      BY <1>0, <1>4, Zenon DEF Goto, TypeOK
    <3>3. pc'[h] = "wait"
      BY <1>4, <2>2, <3>2, Zenon
    <3> HIDE DEF h
    <3>4. \A u \in Thread \ {h} : u \in Signalled' <=> u \in Signalled
      BY <1>4, <3>1, <3>2, Zenon DEF Signalled
    <3>5. h \in Signalled'
      BY <2>2, <3>1, <3>3 DEF Signalled
    <3>. QED  BY <2>2, <3>4, <3>5, Zenon DEF Signalled
  <2>. QED  BY <1>4, <2>1, <2>3, Zenon DEF DoSignal, AbstractMonitor!Signal
<1>5. ASSUME NEW t \in Thread, Signal(t)
      PROVE  AbstractMonitor!Signal(t)
  BY <1>4, <1>5, Zenon DEF Signal, HasLock
<1>6. ASSUME NEW t \in Thread, Broadcast(t)
      PROVE  AbstractMonitor!Signal(t) \/ UNCHANGED AbstractMonitor!vars
  <2>1. CASE DoSignal /\ Goto(t, "broadcast")
    BY <1>4, <1>6, <2>1, Zenon DEF Broadcast, HasLock
  <2>2. CASE ~(DoSignal /\ Goto(t, "broadcast"))
    <3>1. Holder' = Holder /\ waitQueue' = waitQueue
      BY <1>0, <1>6, <2>2, Zenon DEF Broadcast, HasLock, Goto, TypeOK
    <3>2. Signalled' = Signalled
      BY <1>0, <1>6, <2>2, Zenon DEF Broadcast, Goto, TypeOK, Signalled
    <3>. QED  BY <3>1, <3>2, Zenon DEF AbstractMonitor!vars
  <2>. QED  BY <2>1, <2>2, Zenon
<1>7. CASE UNCHANGED vars
  BY <1>7 DEF vars, AbstractMonitor!vars, Holder, Holding, Signalled
<1>. QED  BY <1>1, <1>2, <1>3, <1>5, <1>6, <1>7, Zenon DEF Next, AbstractMonitor!Next

(* Lock and Condition implement the monitor that synch.h promises, for any *)
(* number of threads, although the lock can be taken by a third thread     *)
(* between a signal and the return from Wait.                              *)
THEOREM MonitorCorrect == Spec => ImplementsMonitor
<1>1. Init => AbstractMonitor!Init
  <2> SUFFICES ASSUME Init PROVE AbstractMonitor!Init
    BY Zenon
  <2>1. Holder = NULL
    BY Zenon DEF Init, Holder, Holding
  <2>2. Signalled = {}
    BY Zenon DEF Init, Signalled
  <2>. QED  BY <2>1, <2>2, Zenon DEF Init, AbstractMonitor!Init
<1>2. ConditionInv /\ ConditionInv' /\ [Next]_vars
        => [AbstractMonitor!Next]_(AbstractMonitor!vars)
  BY StepIsMonitorStep, Zenon
<1>. QED  BY <1>1, <1>2, InvHolds, PTL DEF Spec, ImplementsMonitor, AbstractMonitor!Spec
=============================================================================

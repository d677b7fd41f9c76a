----------------------------- MODULE Condition -----------------------------
(***************************************************************************)
(* Lock and Condition (threads/synch.cc): a monitor lock and one condition *)
(* variable, built from semaphores.  The semaphores are the abstract ones  *)
(* of module Semaphore, which module Threads implements: P is the step     *)
(* that finds the value positive and decrements it.                        *)
(*                                                                         *)
(* A thread can lose the CPU only at the end of a P or a V, where the      *)
(* interrupt level is restored, so an action is the code from the return   *)
(* of one P or V through the next.  Condition::Wait allocates a semaphore  *)
(* for each call; it is named here by the thread that calls Wait.          *)
(***************************************************************************)
EXTENDS Naturals, Sequences, FiniteSets

CONSTANTS Thread, NULL

ASSUME ConditionAssumption == NULL \notin Thread

VARIABLES
  pc,          \* where each thread is
  lock,        \* the value of Lock::semaphore
  lockHolder,  \* Lock::lockHolder
  waitQueue,   \* Condition::waitQueue, as the threads whose semaphores it holds
  waiter       \* the threads whose semaphore in Wait is allocated, and its value

vars == <<pc, lock, lockHolder, waitQueue, waiter>>

(***************************************************************************)
(* out        outside the monitor                                          *)
(* acquire    in Acquire, in P of the lock                                 *)
(* taken      P of the lock has returned, lockHolder is not set yet        *)
(* in         in the monitor, holding the lock                             *)
(* broadcast  in the loop of Broadcast                                     *)
(* wait       in Wait, in P of its own semaphore                           *)
(* reacquire  in Wait, in P of the lock                                    *)
(* retaken    in Wait, P of the lock has returned                          *)
(***************************************************************************)
Location == {"out", "acquire", "taken", "in", "broadcast",
             "wait", "reacquire", "retaken"}

TypeOK ==
  /\ pc \in [Thread -> Location]
  /\ lock \in Nat
  /\ lockHolder \in Thread \cup {NULL}
  /\ waitQueue \in Seq(Thread)
  /\ waiter \in [Thread -> Nat \cup {NULL}]

(* Lock::Lock and Condition::Condition                                     *)
Init ==
  /\ pc = [t \in Thread |-> "out"]
  /\ lock = 1
  /\ lockHolder = NULL
  /\ waitQueue = << >>
  /\ waiter = [t \in Thread |-> NULL]

-----------------------------------------------------------------------------
Goto(t, where) == pc' = [pc EXCEPT ![t] = where]

(* Lock::Acquire is called.                                                *)
Acquire(t) ==
  /\ pc[t] = "out"
  /\ Goto(t, "acquire")
  /\ UNCHANGED <<lock, lockHolder, waitQueue, waiter>>

(* Mutant of TakeLock: P does not wait for the value to be positive.       *)
TakeLockAtOnce(t) ==
  /\ pc[t] \in {"acquire", "reacquire"}
  /\ lock' = lock - 1
  /\ Goto(t, IF pc[t] = "acquire" THEN "taken" ELSE "retaken")
  /\ UNCHANGED <<lockHolder, waitQueue, waiter>>

(* P of the lock's semaphore, in Acquire and in the Acquire of Wait.       *)
TakeLock(t) ==
  /\ pc[t] \in {"acquire", "reacquire"} /\ lock > 0
  /\ lock' = lock - 1
  /\ Goto(t, IF pc[t] = "acquire" THEN "taken" ELSE "retaken")
  /\ UNCHANGED <<lockHolder, waitQueue, waiter>>

(* The end of Lock::Acquire.                                               *)
Acquired(t) ==
  /\ pc[t] = "taken"
  /\ lockHolder' = t
  /\ Goto(t, "in")
  /\ UNCHANGED <<lock, waitQueue, waiter>>

(* Mutant of DoRelease: lockHolder is not cleared.                         *)
DoReleaseKeepingHolder ==
  /\ lock' = lock + 1
  /\ UNCHANGED lockHolder

(* The body of Lock::Release.                                              *)
DoRelease ==
  /\ lockHolder' = NULL
  /\ lock' = lock + 1

(* Lock::Release                                                           *)
Release(t) ==
  /\ pc[t] = "in"
  /\ DoRelease
  /\ Goto(t, "out")
  /\ UNCHANGED <<waitQueue, waiter>>

(* Mutant of Wait: the new semaphore goes to the front of the queue.       *)
WaitInFront(t) ==
  /\ pc[t] = "in"
  /\ waiter' = [waiter EXCEPT ![t] = 0]
  /\ waitQueue' = <<t>> \o waitQueue
  /\ DoRelease
  /\ Goto(t, "wait")

(* Condition::Wait, through the release of the lock.                       *)
Wait(t) ==
  /\ pc[t] = "in"
  /\ waiter' = [waiter EXCEPT ![t] = 0]
  /\ waitQueue' = Append(waitQueue, t)
  /\ DoRelease
  /\ Goto(t, "wait")

(* Mutant of Woken: Wait does not acquire the lock again.                  *)
WokenWithLock(t) ==
  /\ pc[t] = "wait" /\ waiter[t] > 0
  /\ waiter' = [waiter EXCEPT ![t] = @ - 1]
  /\ Goto(t, "retaken")
  /\ UNCHANGED <<lock, lockHolder, waitQueue>>

(* P of the semaphore that Wait has allocated.                             *)
Woken(t) ==
  /\ pc[t] = "wait" /\ waiter[t] > 0
  /\ waiter' = [waiter EXCEPT ![t] = @ - 1]
  /\ Goto(t, "reacquire")
  /\ UNCHANGED <<lock, lockHolder, waitQueue>>

(* The end of Condition::Wait.                                             *)
ReturnFromWait(t) ==
  /\ pc[t] = "retaken"
  /\ lockHolder' = t
  /\ waiter' = [waiter EXCEPT ![t] = NULL]
  /\ Goto(t, "in")
  /\ UNCHANGED <<lock, waitQueue>>

(* Mutant of DoSignal: the semaphore is not removed from the queue.        *)
DoSignalKeepingQueue ==
  /\ waitQueue # << >>
  /\ waiter' = [waiter EXCEPT ![Head(waitQueue)] = @ + 1]
  /\ UNCHANGED <<waitQueue, lock, lockHolder>>

(* The body of Condition::Signal when a thread is waiting.                 *)
DoSignal ==
  /\ waitQueue # << >>
  /\ waiter' = [waiter EXCEPT ![Head(waitQueue)] = @ + 1]
  /\ waitQueue' = Tail(waitQueue)
  /\ UNCHANGED <<lock, lockHolder>>

(* Condition::Signal                                                       *)
Signal(t) ==
  /\ pc[t] = "in"
  /\ DoSignal
  /\ UNCHANGED pc

(* Condition::Broadcast, by rounds of its loop.                            *)
Broadcast(t) ==
  /\ pc[t] \in {"in", "broadcast"}
  /\ \/ DoSignal /\ Goto(t, "broadcast")
     \/ /\ waitQueue = << >> /\ pc[t] = "broadcast"
        /\ Goto(t, "in")
        /\ UNCHANGED <<lock, lockHolder, waitQueue, waiter>>

Next ==
  \E t \in Thread :
    \/ Acquire(t) \/ TakeLock(t) \/ Acquired(t) \/ Release(t)
    \/ Wait(t) \/ Woken(t) \/ ReturnFromWait(t)
    \/ Signal(t) \/ Broadcast(t)

Spec == Init /\ [][Next]_vars

-----------------------------------------------------------------------------
(* The threads between P and V of the lock's semaphore.                    *)
Holding == {t \in Thread : pc[t] \in {"taken", "in", "broadcast", "retaken"}}

(* The lock is held by at most one thread, and by one exactly when the     *)
(* semaphore's value is 0: no path through Wait takes it twice or frees it *)
(* twice.                                                                  *)
MutualExclusion ==
  /\ lock + Cardinality(Holding) = 1
  /\ \A t, u \in Holding : t = u

(* lockHolder names the thread that holds the lock whenever that thread is *)
(* in its own code, although it is set after P and cleared before V: the   *)
(* ASSERTs of IsHeldByCurrentThread in Release, Wait and Signal hold for   *)
(* it, and no other thread passes them.                                    *)
HolderIsKnown ==
  \A t \in Thread : pc[t] \in {"in", "broadcast"} <=> lockHolder = t

(* One thread at a time is between Acquire and Release, or has come back   *)
(* from Wait, and lockHolder is that thread whenever an ASSERT asks.       *)
LockIsExclusive == TypeOK /\ MutualExclusion /\ HolderIsKnown

(* A thread in Wait is still queued, or has its signal: the signal that    *)
(* comes between its Release and its P is not missed.  No one else is      *)
(* queued, so no signal is spent on a thread that does not wait, and none  *)
(* goes to a semaphore that Wait has deleted.                              *)
SignalNotMissed ==
  \A t \in Thread :
    LET queued == {i \in 1 .. Len(waitQueue) : waitQueue[i] = t}
    IN  IF pc[t] = "wait"
        THEN Cardinality(queued) + waiter[t] = 1
        ELSE queued = {} /\ waiter[t] \in {0, NULL}

-----------------------------------------------------------------------------
(* Lock and Condition implement the monitor synch.h promises.              *)
Holder == IF Holding = {} THEN NULL ELSE CHOOSE t \in Holding : TRUE

Signalled == {t \in Thread : \/ pc[t] = "reacquire"
                             \/ pc[t] = "wait" /\ waiter[t] > 0}

AbstractMonitor == INSTANCE Monitor WITH holder <- Holder,
                     waiting <- waitQueue, signalled <- Signalled
ImplementsMonitor == AbstractMonitor!Spec
=============================================================================

------------------------------ MODULE Monitor ------------------------------
(***************************************************************************)
(* What synch.h promises of a lock with a condition variable, Mesa style:  *)
(* at most one thread holds the lock; Wait gives it up and joins the       *)
(* waiters in one step; Signal lets the first waiter, and only it, try to  *)
(* get the lock back; a waiter returns from Wait holding the lock.         *)
(***************************************************************************)
EXTENDS Naturals, Sequences

CONSTANTS Thread, NULL

VARIABLES holder,    \* the thread that holds the lock, else NULL
          waiting,   \* the threads in Wait that have not been signalled
          signalled  \* the threads in Wait that have been signalled

vars == <<holder, waiting, signalled>>

Init ==
  /\ holder = NULL
  /\ waiting = << >>
  /\ signalled = {}

Outside(t) == t \notin signalled /\ \A i \in 1 .. Len(waiting) : waiting[i] # t

Acquire(t) ==
  /\ holder = NULL /\ Outside(t)
  /\ holder' = t
  /\ UNCHANGED <<waiting, signalled>>

Release(t) ==
  /\ holder = t
  /\ holder' = NULL
  /\ UNCHANGED <<waiting, signalled>>

Wait(t) ==
  /\ holder = t
  /\ holder' = NULL
  /\ waiting' = Append(waiting, t)
  /\ UNCHANGED signalled

(* Signal with a thread waiting; Broadcast is a sequence of these.         *)
Signal(t) ==
  /\ holder = t /\ waiting # << >>
  /\ waiting' = Tail(waiting)
  /\ signalled' = signalled \cup {Head(waiting)}
  /\ UNCHANGED holder

ReturnFromWait(t) ==
  /\ holder = NULL /\ t \in signalled
  /\ holder' = t
  /\ signalled' = signalled \ {t}
  /\ UNCHANGED waiting

Next ==
  \E t \in Thread :
    Acquire(t) \/ Release(t) \/ Wait(t) \/ Signal(t) \/ ReturnFromWait(t)

Spec == Init /\ [][Next]_vars
=============================================================================

----------------------------- MODULE Semaphore -----------------------------
(***************************************************************************)
(* What synch.h promises of a semaphore, without threads being scheduled,  *)
(* queued or woken: P waits until the value is positive and decrements it, *)
(* V increments it, and each is atomic.                                    *)
(***************************************************************************)
EXTENDS Integers

CONSTANTS Thread, Sem, InitialValue, NULL

VARIABLES value,    \* the value of each semaphore
          waiting   \* the semaphore whose P a thread waits in, else NULL

vars == <<value, waiting>>

Init ==
  /\ value = InitialValue
  /\ waiting = [t \in Thread |-> NULL]

(* P finds a positive value and decrements it.                             *)
P(t, s) ==
  /\ waiting[t] = NULL /\ value[s] > 0
  /\ value' = [value EXCEPT ![s] = @ - 1]
  /\ UNCHANGED waiting

(* P finds the value zero and waits.                                       *)
Wait(t, s) ==
  /\ waiting[t] = NULL /\ value[s] = 0
  /\ waiting' = [waiting EXCEPT ![t] = s]
  /\ UNCHANGED value

(* A waiting P decrements the value and returns.                           *)
Proceed(t, s) ==
  /\ waiting[t] = s /\ value[s] > 0
  /\ value' = [value EXCEPT ![s] = @ - 1]
  /\ waiting' = [waiting EXCEPT ![t] = NULL]

V(s) ==
  /\ value' = [value EXCEPT ![s] = @ + 1]
  /\ UNCHANGED waiting

Next ==
  \E s \in Sem :
    \/ V(s)
    \/ \E t \in Thread : P(t, s) \/ Wait(t, s) \/ Proceed(t, s)

(* While a thread waits for it, a positive value does not go untaken.      *)
Take(s) ==
  /\ \E t \in Thread : waiting[t] = s
  /\ \E t \in Thread : P(t, s) \/ Proceed(t, s)

Spec == Init /\ [][Next]_vars

FairSpec == Spec /\ \A s \in Sem : WF_vars(Take(s))
=============================================================================

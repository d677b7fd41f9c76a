----------------------------- MODULE EventClock -----------------------------
(***************************************************************************)
(* What interrupt.h promises of the simulated hardware: a device asks for  *)
(* an interrupt some ticks from now; simulated time does not move on past  *)
(* an interrupt that is due; interrupts are taken in the order of time.    *)
(***************************************************************************)
EXTENDS Integers

CONSTANTS Device, NULL

VARIABLE left  \* ticks until each device's interrupt, NULL if it asked for none

Asked == {d \in Device : left[d] # NULL}

Init == left \in [Device -> (Nat \ {0}) \cup {NULL}]

Ask(d, n) ==
  /\ left[d] = NULL /\ n > 0
  /\ left' = [left EXCEPT ![d] = n]

(* Time moves on by n ticks.                                               *)
Advance(n) ==
  /\ n > 0 /\ \A d \in Asked : left[d] > 0
  /\ left' = [d \in Device |-> IF d \in Asked THEN left[d] - n ELSE NULL]

(* The interrupt of d is taken, and d may ask for the next one.            *)
Take(d) ==
  /\ d \in Asked /\ left[d] <= 0
  /\ \A e \in Asked : left[d] <= left[e]
  /\ \A e \in Device \ {d} : left'[e] = left[e]
  /\ left' \in [Device -> Int \cup {NULL}]
  /\ left'[d] # NULL => left'[d] > 0

Next ==
  \/ \E d \in Device : Take(d)
  \/ \E d \in Device : left'[d] # NULL /\ Ask(d, left'[d])
  \/ \E d \in Asked : left'[d] # NULL /\ Advance(left[d] - left'[d])

Spec == Init /\ [][Next]_left
=============================================================================

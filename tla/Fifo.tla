-------------------------------- MODULE Fifo --------------------------------
(***************************************************************************)
(* What synchlist.h promises of a synchronized list: items come out in the *)
(* order they went in, each of them once, and never out of an empty list.  *)
(***************************************************************************)
EXTENDS Sequences

CONSTANTS Thread, Item, NULL

VARIABLES contents,  \* the items on the list
          result     \* what a thread's last RemoveFront has returned

vars == <<contents, result>>

Init ==
  /\ contents = << >>
  /\ result = [t \in Thread |-> NULL]

Append1(x) ==
  /\ contents' = Append(contents, x)
  /\ UNCHANGED result

RemoveFront(t) ==
  /\ contents # << >>
  /\ result' = [result EXCEPT ![t] = Head(contents)]
  /\ contents' = Tail(contents)

Next ==
  \/ \E x \in Item : Append1(x)
  \/ \E t \in Thread : RemoveFront(t)

Spec == Init /\ [][Next]_vars
=============================================================================

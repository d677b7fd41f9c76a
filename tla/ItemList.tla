------------------------------ MODULE ItemList ------------------------------
(***************************************************************************)
(* What List and SortedList (lib/list.h) promise: a sequence of distinct   *)
(* items, in the second case ordered by key, first come first.             *)
(***************************************************************************)
EXTENDS Integers, Sequences, SequencesExt

CONSTANTS Item, Key

VARIABLES
  items,
  call    \* the last operation, with the item it was given or returned

vars == <<items, call>>

Init == items = << >> /\ call = <<"List", 0>>

AppendItem(i) ==
  i \notin ToSet(items) /\ items' = Append(items, i) /\ call' = <<"Append", i>>

PrependItem(i) ==
  i \notin ToSet(items) /\ items' = <<i>> \o items /\ call' = <<"Prepend", i>>

RemoveFront ==
  items # << >> /\ items' = Tail(items) /\ call' = <<"RemoveFront", Head(items)>>

RemoveItem(i) ==
  /\ i \in ToSet(items)
  /\ items' = SelectSeq(items, LAMBDA j : j # i)
  /\ call' = <<"Remove", i>>

Insert(i) ==
  /\ i \notin ToSet(items)
  /\ items' = SelectSeq(items, LAMBDA j : Key[j] <= Key[i]) \o <<i>>
              \o SelectSeq(items, LAMBDA j : Key[j] > Key[i])
  /\ call' = <<"Insert", i>>

ListNext   == RemoveFront \/ \E i \in Item : AppendItem(i) \/ PrependItem(i) \/ RemoveItem(i)
SortedNext == RemoveFront \/ \E i \in Item : Insert(i) \/ RemoveItem(i)

ListSpec   == Init /\ [][ListNext]_vars
SortedSpec == Init /\ [][SortedNext]_vars
=============================================================================

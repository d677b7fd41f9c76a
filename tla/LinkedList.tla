----------------------------- MODULE LinkedList -----------------------------
(***************************************************************************)
(* List<T> and SortedList<T> (lib/list.cc): a singly linked list with      *)
(* pointers to the first and the last ListElement and a count.  The heap   *)
(* is "cells", a function from the allocated elements to their contents;   *)
(* `new' takes any element that is not allocated, `delete' removes one.    *)
(* The ASSERTs at the start of an operation are its guard.                 *)
(***************************************************************************)
EXTENDS Integers, FiniteSets, Functions, TLC

CONSTANTS
  Element,   \* addresses of list elements
  Item,
  Key,       \* what `compare' compares, a function on Item
  NULL

LinkedListAssumption ==
  /\ NULL \notin Element /\ IsFiniteSet(Element) /\ Cardinality(Element) >= Cardinality(Item)
  /\ Key \in [Item -> Int]

VARIABLES
  first, last, numInList, cells,
  call   \* the last operation, with the item it was given or returned

vars == <<first, last, numInList, cells, call>>

Init == /\ first = NULL /\ last = NULL /\ numInList = 0 /\ cells = << >>
        /\ call = <<"List", 0>>

IsEmpty == numInList = 0

(* The elements met when following `next' from `first': ptr after k steps  *)
Walk[k \in 0 .. Cardinality(Element)] ==
  IF k = 0 THEN first
  ELSE IF Walk[k - 1] = NULL THEN NULL ELSE cells[Walk[k - 1]].next

Reached == Range(Walk) \ {NULL}

IsInList(item) == \E e \in Reached : cells[e].item = item

Append(item) ==
  \E e \in Element \ DOMAIN cells :
    /\ ~IsInList(item)
    /\ call' = <<"Append", item>>
    /\ first' = IF IsEmpty THEN e ELSE first
    /\ cells' = (e :> [item |-> item, next |-> NULL])
                @@ (IF IsEmpty THEN cells ELSE [cells EXCEPT ![last].next = e])
    /\ last' = e
    /\ numInList' = numInList + 1

(* Mutant of Prepend: the item is put after last, as by Append.            *)
PrependAtEnd(item) ==
  \E e \in Element \ DOMAIN cells :
    /\ ~IsInList(item)
    /\ call' = <<"Prepend", item>>
    /\ cells' = (e :> [item |-> item, next |-> NULL])
                @@ (IF IsEmpty THEN cells ELSE [cells EXCEPT ![last].next = e])
    /\ first' = IF IsEmpty THEN e ELSE first
    /\ last' = e
    /\ numInList' = numInList + 1

Prepend(item) ==
  \E e \in Element \ DOMAIN cells :
    /\ ~IsInList(item)
    /\ call' = <<"Prepend", item>>
    /\ cells' = (e :> [item |-> item, next |-> IF IsEmpty THEN NULL ELSE first]) @@ cells
    /\ first' = e
    /\ last' = IF IsEmpty THEN e ELSE last
    /\ numInList' = numInList + 1

(* The body of RemoveFront, which Remove calls too                         *)
TakeFront ==
  /\ ~IsEmpty
  /\ first' = IF first = last THEN NULL ELSE cells[first].next
  /\ last' = IF first = last THEN NULL ELSE last
  /\ cells' = Restrict(cells, DOMAIN cells \ {first})
  /\ numInList' = numInList - 1

RemoveFront == TakeFront /\ call' = <<"RemoveFront", cells[first].item>>

(* Mutant of RemoveLater: `last' is left alone.                            *)
RemoveLaterKeepLast(item) ==
  \E prev \in Reached :
    LET ptr == cells[prev].next IN
    /\ ptr # NULL /\ cells[ptr].item = item
    /\ cells' = Restrict([cells EXCEPT ![prev].next = cells[ptr].next], DOMAIN cells \ {ptr})
    /\ numInList' = numInList - 1
    /\ UNCHANGED <<first, last>>

(* The loop of Remove, for an item that is not the first                   *)
RemoveLater(item) ==
  \E prev \in Reached :
    LET ptr == cells[prev].next IN
    /\ ptr # NULL /\ cells[ptr].item = item
    /\ cells' = Restrict([cells EXCEPT ![prev].next = cells[ptr].next], DOMAIN cells \ {ptr})
    /\ last' = IF cells[ptr].next = NULL THEN prev ELSE last
    /\ numInList' = numInList - 1
    /\ UNCHANGED first

Remove(item) ==
  /\ IsInList(item)
  /\ IF cells[first].item = item THEN TakeFront ELSE RemoveLater(item)
  /\ call' = <<"Remove", item>>

(* Where SortedList::Insert stops: before the first element that compares  *)
(* greater, at its predecessor, or at the last element                     *)
InsertAfter(item) ==
  LET stops(k) == \/ cells[Walk[k]].next = NULL
                  \/ Key[item] < Key[cells[cells[Walk[k]].next].item]
  IN Walk[CHOOSE k \in 0 .. numInList - 1 : stops(k) /\ \A j \in 0 .. k - 1 : ~stops(j)]

(* Mutant of Insert: the item goes before an equal one at the front.       *)
InsertBeforeEqual(item) ==
  \E e \in Element \ DOMAIN cells :
    /\ ~IsInList(item)
    /\ call' = <<"Insert", item>>
    /\ numInList' = numInList + 1
    /\ IF IsEmpty \/ Key[item] <= Key[cells[first].item]
       THEN /\ first' = e
            /\ last' = IF IsEmpty THEN e ELSE last
            /\ cells' = (e :> [item |-> item, next |-> IF IsEmpty THEN NULL ELSE first]) @@ cells
       ELSE LET ptr == InsertAfter(item) IN
            /\ cells' = (e :> [item |-> item, next |-> cells[ptr].next])
                        @@ [cells EXCEPT ![ptr].next = e]
            /\ last' = IF cells[ptr].next = NULL THEN e ELSE last
            /\ UNCHANGED first

Insert(item) ==
  \E e \in Element \ DOMAIN cells :
    /\ ~IsInList(item)
    /\ call' = <<"Insert", item>>
    /\ numInList' = numInList + 1
    /\ IF IsEmpty \/ Key[item] < Key[cells[first].item]
       THEN /\ first' = e
            /\ last' = IF IsEmpty THEN e ELSE last
            /\ cells' = (e :> [item |-> item, next |-> IF IsEmpty THEN NULL ELSE first]) @@ cells
       ELSE LET ptr == InsertAfter(item) IN
            /\ cells' = (e :> [item |-> item, next |-> cells[ptr].next])
                        @@ [cells EXCEPT ![ptr].next = e]
            /\ last' = IF cells[ptr].next = NULL THEN e ELSE last
            /\ UNCHANGED first

ListNext   == RemoveFront \/ \E i \in Item : Append(i) \/ Prepend(i) \/ Remove(i)
SortedNext == RemoveFront \/ \E i \in Item : Insert(i) \/ Remove(i)

ListSpec   == Init /\ [][ListNext]_vars
SortedSpec == Init /\ [][SortedNext]_vars

-----------------------------------------------------------------------------
(* List::SanityCheck: `last' is reached from `first' in numInList elements *)
(* and ends the list; and every element that was allocated is either on    *)
(* the list or has been deleted.                                           *)
ListIsLegal ==
  /\ Reached = DOMAIN cells
  /\ Cardinality(Reached) = numInList
  /\ IF numInList = 0 THEN first = NULL /\ last = NULL
     ELSE Walk[numInList - 1] = last /\ cells[last].next = NULL

Sequence == INSTANCE ItemList
  WITH items <- [k \in 1 .. Cardinality(Reached) |-> cells[Walk[k - 1]].item]

(* A List holds the sequence of its items: Append and Prepend add at the   *)
(* end they name and Remove takes out one item and keeps the others in     *)
(* their order.                                                            *)
ImplementsList == Sequence!ListSpec

(* A SortedList holds its items by key, and items with the same key in the *)
(* order in which they were inserted.                                      *)
ImplementsSortedList == Sequence!SortedSpec
=============================================================================

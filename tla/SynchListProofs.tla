-------------------------- MODULE SynchListProofs --------------------------
(***************************************************************************)
(* Proofs about SynchList (module SynchList), for every finite set of      *)
(* threads and every set of items: no item is stranded beside a waiting    *)
(* thread, and the list is the one of module Fifo.  The invariants of the  *)
(* lock and the condition are taken from module ConditionProofs.           *)
(***************************************************************************)
EXTENDS SynchList, FiniteSetTheorems, TLAPS

CP == INSTANCE ConditionProofs

-----------------------------------------------------------------------------
(* A step of the list is a step of its lock and its condition.             *)
LEMMA StepOfMonitor ==
  ASSUME [Next]_vars
  PROVE  [CP!Next]_(CP!vars)
<1>1. ASSUME NEW t \in Thread, Call(t)
      PROVE  CP!Acquire(t)
  BY <1>1 DEF Call, CallAppend, CallRemoveFront, CallApply, Mon!Acquire, CP!Acquire,
              Mon!Goto, CP!Goto
<1>2. ASSUME NEW t \in Thread, TakeLock(t) \/ Woken(t)
      PROVE  CP!TakeLock(t) \/ CP!Woken(t)
  BY <1>2 DEF TakeLock, Woken, Mon!TakeLock, CP!TakeLock, Mon!Woken, CP!Woken,
              Mon!Goto, CP!Goto
<1>3. ASSUME NEW t \in Thread, Acquired(t) \/ ReturnFromWait(t)
      PROVE  CP!Acquired(t) \/ CP!ReturnFromWait(t)
  BY <1>3 DEF Acquired, ReturnFromWait, Mon!Acquired, CP!Acquired,
              Mon!ReturnFromWait, CP!ReturnFromWait, Mon!Goto, CP!Goto
<1>4. ASSUME NEW t \in Thread, Return(t)
      PROVE  CP!Release(t)
  BY <1>4 DEF Return, Mon!Release, CP!Release, Mon!DoRelease, CP!DoRelease,
              Mon!Goto, CP!Goto
<1>5. ASSUME NEW t \in Thread, Mon!Signal(t)
      PROVE  CP!Signal(t)
  BY <1>5 DEF Mon!Signal, CP!Signal, Mon!DoSignal, CP!DoSignal
<1>6. ASSUME NEW t \in Thread, Mon!Wait(t)
      PROVE  CP!Wait(t)
  BY <1>6 DEF Mon!Wait, CP!Wait, Mon!DoRelease, CP!DoRelease, Mon!Goto, CP!Goto
<1>7. ASSUME NEW t \in Thread, OwnStep(t)
      PROVE  CP!Acquired(t) \/ CP!ReturnFromWait(t) \/ CP!Release(t) \/ CP!Signal(t) \/ CP!Wait(t)
  BY <1>3, <1>4, <1>5, <1>6, <1>7
     DEF OwnStep, AppendItem, ReturnFromAppend, RemoveItem, ApplyItems
<1>8. CASE UNCHANGED vars
  BY <1>8 DEF vars, monVars, CP!vars
<1>. QED  BY <1>1, <1>2, <1>7, <1>8 DEF Next, CP!Next

LEMMA MonitorInv ==
  Spec => []CP!ConditionInv
<1>1. Init => CP!Init
  BY DEF Init, Mon!Init, CP!Init
<1>2. CP!Init => CP!ConditionInv
  BY CP!InvInit, SynchListAssumption
<1>3. CP!ConditionInv /\ [CP!Next]_(CP!vars) => CP!ConditionInv'
  BY CP!InvKept, SynchListAssumption
<1>4. [Next]_vars => [CP!Next]_(CP!vars)
  BY StepOfMonitor
<1>. QED  BY <1>1, <1>2, <1>3, <1>4, PTL DEF Spec

-----------------------------------------------------------------------------
(* The list's own part of the inductive invariant: only RemoveFront waits, *)
(* and Append has its item until it has put it on the list.                *)
DataOK ==
  /\ list \in Seq(Item)
  /\ op \in [Thread -> Operation]
  /\ arg \in [Thread -> Item \cup {NULL}]
  /\ result \in [Thread -> Item \cup {NULL}]

OpInv ==
  \A t \in Thread :
    /\ pc[t] \in {"wait", "reacquire", "retaken"} => op[t] = "RemoveFront"
    /\ op[t] = "Append" => arg[t] \in Item

LEMMA DataKept ==
  ASSUME DataOK, OpInv, CP!TypeOK, [Next]_vars
  PROVE  DataOK' /\ OpInv'
<1> USE DEF DataOK, OpInv, Operation, CP!TypeOK
<1>1. ASSUME NEW t \in Thread, Call(t)
      PROVE  DataOK' /\ OpInv'
  <2>1. /\ pc'[t] = "acquire" /\ list' = list /\ result' = result
        /\ \A u \in Thread \ {t} : op'[u] = op[u] /\ arg'[u] = arg[u] /\ pc'[u] = pc[u]
    BY <1>1 DEF Call, CallAppend, CallRemoveFront, CallApply, Mon!Acquire, Mon!Goto
  <2>2. /\ op' \in [Thread -> Operation] /\ arg' \in [Thread -> Item \cup {NULL}]
        /\ op'[t] = "Append" => arg'[t] \in Item
    <3>1. ASSUME NEW x \in Item, CallAppend(t, x)
          PROVE  /\ op' \in [Thread -> Operation] /\ arg' \in [Thread -> Item \cup {NULL}]
                 /\ arg'[t] \in Item
      BY <3>1 DEF CallAppend
    <3>2. CASE CallRemoveFront(t)
      BY <3>2 DEF CallRemoveFront
    <3>3. CASE CallApply(t)
      BY <3>3 DEF CallApply
    <3>. QED  BY <1>1, <3>1, <3>2, <3>3 DEF Call
  <2>. QED  BY <2>1, <2>2
<1>2. ASSUME NEW t \in Thread, TakeLock(t) \/ Woken(t)
      PROVE  DataOK' /\ OpInv'
  BY <1>2 DEF TakeLock, Woken, Mon!TakeLock, Mon!Woken, Mon!Goto
<1>3. ASSUME NEW t \in Thread, Acquired(t) \/ ReturnFromWait(t)
      PROVE  DataOK' /\ OpInv'
  BY <1>3 DEF Acquired, ReturnFromWait, Mon!Acquired, Mon!ReturnFromWait, Mon!Goto
<1>4. ASSUME NEW t \in Thread, AppendItem(t)
      PROVE  DataOK' /\ OpInv'
  <2>1. list' \in Seq(Item) /\ arg' \in [Thread -> Item \cup {NULL}] /\ result' = result
    BY <1>4 DEF AppendItem
  <2>2. op' \in [Thread -> Operation] /\ op'[t] # "Append"
    BY <1>4, Zenon DEF AppendItem, Return
  <2>3. \A u \in Thread \ {t} : op'[u] = op[u] /\ arg'[u] = arg[u] /\ pc'[u] = pc[u]
    BY <1>4 DEF AppendItem, Return, Mon!Signal, Mon!Release, Mon!Goto
  <2>4. pc'[t] \in {"in", "out"}
    BY <1>4 DEF AppendItem, Return, Mon!Signal, Mon!Release, Mon!Goto
  <2>. QED  BY <2>1, <2>2, <2>3, <2>4
<1>5. ASSUME NEW t \in Thread, RemoveItem(t)
      PROVE  DataOK' /\ OpInv'
  <2>1. CASE list = << >>
    BY <1>5, <2>1 DEF RemoveItem, Mon!Wait, Mon!Goto
  <2>2. CASE list # << >>
    <3>1. Tail(list) \in Seq(Item) /\ Head(list) \in Item
      BY <2>2
    <3>2. /\ list' = Tail(list) /\ arg' = arg
          /\ result' \in [Thread -> Item \cup {NULL}]
      BY <1>5, <2>2, <3>1 DEF RemoveItem
    <3>3. Return(t)
      BY <1>5, <2>2 DEF RemoveItem
    <3>4. op' \in [Thread -> Operation] /\ op'[t] = "none" /\ pc'[t] = "out"
      BY <3>3 DEF Return, Mon!Release, Mon!Goto
    <3>5. \A u \in Thread \ {t} : op'[u] = op[u] /\ pc'[u] = pc[u]
      BY <3>3 DEF Return, Mon!Release, Mon!Goto
    <3>. QED  BY <3>1, <3>2, <3>4, <3>5
  <2>. QED  BY <2>1, <2>2
<1>6. ASSUME NEW t \in Thread, ReturnFromAppend(t) \/ ApplyItems(t)
      PROVE  DataOK' /\ OpInv'
  BY <1>6 DEF ReturnFromAppend, ApplyItems, Return, Mon!Release, Mon!Goto
<1>7. CASE UNCHANGED vars
  BY <1>7 DEF vars, monVars
<1>. QED  BY <1>1, <1>2, <1>3, <1>4, <1>5, <1>6, <1>7 DEF Next, OwnStep

-----------------------------------------------------------------------------
(* Counting the threads on their way to the list                           *)
LEMMA ComingFinite ==
  /\ IsFiniteSet(Coming) /\ IsFiniteSet(Coming')
  /\ Cardinality(Coming) \in Nat /\ Cardinality(Coming') \in Nat
  /\ Coming \subseteq Coming' => Cardinality(Coming) <= Cardinality(Coming')
<1>1. Coming \subseteq Thread /\ Coming' \subseteq Thread
  BY DEF Coming
<1>2. IsFiniteSet(Coming) /\ IsFiniteSet(Coming')
  BY <1>1, FiniteAssumption, FS_Subset
<1>. QED  BY <1>2, FS_CardinalityType, FS_Subset

(* Append's signal sends one more thread on its way.                       *)
LEMMA ComingMore ==
  ASSUME NEW h, h \notin Coming, Coming' = Coming \cup {h}
  PROVE  Cardinality(Coming') = Cardinality(Coming) + 1
BY ComingFinite, FS_AddElement

(* RemoveFront takes an item and a thread that was on its way.             *)
LEMMA ComingLess ==
  ASSUME NEW t, t \in Coming, Coming' = Coming \ {t}
  PROVE  Cardinality(Coming') = Cardinality(Coming) - 1
BY ComingFinite, FS_RemoveElement

-----------------------------------------------------------------------------
(* A step that only moves threads towards the list strands no item.        *)
LEMMA NothingStranded ==
  ASSUME DataOK, NoStrandedItem, Coming \subseteq Coming',
         list' = list, waitQueue' = waitQueue
  PROVE  NoStrandedItem'
<1>1. Len(list) \in Nat
  BY DEF DataOK
<1>. QED  BY <1>1, ComingFinite DEF NoStrandedItem

LEMMA StrandedKept ==
  ASSUME DataOK, OpInv, CP!TypeOK, CP!QueueInv, NoStrandedItem, [Next]_vars
  PROVE  NoStrandedItem'
<1>1. ASSUME NEW t \in Thread, Call(t)
      PROVE  NoStrandedItem'
  <2>1. /\ list' = list /\ waitQueue' = waitQueue /\ waiter' = waiter /\ pc[t] = "out"
        /\ \A u \in Thread \ {t} : op'[u] = op[u] /\ pc'[u] = pc[u]
    BY <1>1 DEF Call, CallAppend, CallRemoveFront, CallApply, Mon!Acquire, Mon!Goto,
                DataOK, CP!TypeOK
  <2>. QED  BY <2>1, NothingStranded DEF Coming
<1>2. ASSUME NEW t \in Thread, TakeLock(t) \/ Woken(t) \/ Acquired(t) \/ ReturnFromWait(t)
      PROVE  NoStrandedItem'
  <2>1. list' = list /\ waitQueue' = waitQueue /\ op' = op
    BY <1>2 DEF TakeLock, Woken, Acquired, ReturnFromWait,
                Mon!TakeLock, Mon!Woken, Mon!Acquired, Mon!ReturnFromWait
  <2>2. /\ \A u \in Thread \ {t} : pc'[u] = pc[u] /\ waiter'[u] = waiter[u]
        /\ pc'[t] \in {"in", "reacquire", "retaken", "taken"}
        /\ pc'[t] = "taken" => pc[t] = "acquire"
    BY <1>2 DEF TakeLock, Woken, Acquired, ReturnFromWait,
                Mon!TakeLock, Mon!Woken, Mon!Acquired, Mon!ReturnFromWait, Mon!Goto,
                CP!TypeOK
  <2>. QED  BY <2>1, <2>2, NothingStranded DEF Coming
<1>3. ASSUME NEW t \in Thread, AppendItem(t)
      PROVE  NoStrandedItem'
  <2>1. CASE waitQueue = << >>
    <3>1. waitQueue' = << >>
      BY <1>3, <2>1 DEF AppendItem, Return, Mon!Release, Mon!Signal, Mon!DoSignal
    <3>. QED  BY <3>1 DEF NoStrandedItem
  <2>2. CASE waitQueue # << >>
    <3> DEFINE h == Head(waitQueue)
    <3>1. /\ list' = Append(list, arg[t]) /\ op' = [op EXCEPT ![t] = "appended"]
          /\ pc' = pc /\ waiter' = [waiter EXCEPT ![h] = @ + 1]
          /\ pc[t] = "in" /\ op[t] = "Append"
      BY <1>3, <2>2 DEF AppendItem, Mon!Signal, Mon!DoSignal
    <3>2. h \in Thread /\ pc[h] = "wait" /\ waiter[h] = 0 /\ h # t
      BY <2>2, <3>1, CP!HeadWaits, SynchListAssumption
    <3>3. op[h] = "RemoveFront"
      BY <3>2 DEF OpInv
    <3> HIDE DEF h
    <3>4. h \notin Coming
      BY <3>2 DEF Coming
    <3>5. /\ waiter'[h] = 1 /\ op'[h] = op[h] /\ op'[t] = "appended"
          /\ \A u \in Thread \ {h} : waiter'[u] = waiter[u]
          /\ \A u \in Thread \ {t} : op'[u] = op[u]
      BY <3>1, <3>2 DEF DataOK, CP!TypeOK
    <3>6. Coming' = Coming \cup {h}
      BY <3>1, <3>2, <3>3, <3>5 DEF Coming
    <3>7. Len(list) \in Nat /\ Len(list') = Len(list) + 1
      BY <3>1 DEF DataOK, OpInv
    <3>8. Cardinality(Coming') = Cardinality(Coming) + 1
      BY <3>4, <3>6, ComingMore
    <3>. QED  BY <2>2, <3>7, <3>8, ComingFinite DEF NoStrandedItem
  <2>. QED  BY <2>1, <2>2
<1>4. ASSUME NEW t \in Thread, RemoveItem(t)
      PROVE  NoStrandedItem'
  <2>1. CASE list = << >>
    <3>1. list' = << >>
      BY <1>4, <2>1 DEF RemoveItem
    <3>. QED  BY <3>1, ComingFinite DEF NoStrandedItem
  <2>2. CASE list # << >>
    <3>1. /\ list' = Tail(list) /\ Return(t)
          /\ pc[t] = "in" /\ op[t] = "RemoveFront"
      BY <1>4, <2>2 DEF RemoveItem
    <3>2. /\ pc'[t] = "out" /\ waitQueue' = waitQueue /\ waiter' = waiter
          /\ \A u \in Thread \ {t} : op'[u] = op[u] /\ pc'[u] = pc[u]
      BY <3>1 DEF Return, Mon!Release, Mon!Goto, DataOK, CP!TypeOK
    <3>3. t \in Coming /\ Coming' = Coming \ {t}
      BY <3>1, <3>2 DEF Coming
    <3>4. Len(list) \in Nat /\ Len(list') = Len(list) - 1
      BY <2>2, <3>1 DEF DataOK
    <3>5. Cardinality(Coming') = Cardinality(Coming) - 1
      BY <3>3, ComingLess
    <3>. QED  BY <3>2, <3>4, <3>5, ComingFinite DEF NoStrandedItem
  <2>. QED  BY <2>1, <2>2, Zenon
<1>5. ASSUME NEW t \in Thread, ReturnFromAppend(t) \/ ApplyItems(t)
      PROVE  NoStrandedItem'
  <2>1. list' = list /\ Return(t) /\ op[t] # "RemoveFront"
    BY <1>5 DEF ReturnFromAppend, ApplyItems
  <2>2. /\ waitQueue' = waitQueue /\ waiter' = waiter
        /\ \A u \in Thread \ {t} : op'[u] = op[u] /\ pc'[u] = pc[u]
    BY <2>1 DEF Return, Mon!Release, Mon!Goto, DataOK, CP!TypeOK
  <2>. QED  BY <2>1, <2>2, NothingStranded DEF Coming
<1>6. CASE UNCHANGED vars
  BY <1>6 DEF vars, monVars, NoStrandedItem, Coming
<1>. QED  BY <1>1, <1>2, <1>3, <1>4, <1>5, <1>6 DEF Next, OwnStep

-----------------------------------------------------------------------------
ListInv == DataOK /\ OpInv /\ NoStrandedItem

LEMMA ListInvHolds ==
  Spec => [](ListInv /\ CP!ConditionInv)
<1>1. Init => ListInv
  <2> SUFFICES ASSUME Init PROVE ListInv
    OBVIOUS
  <2>1. DataOK
    BY DEF Init, DataOK, Operation
  <2>2. OpInv
    BY DEF Init, OpInv, Mon!Init
  <2>3. NoStrandedItem
    BY DEF Init, NoStrandedItem, Mon!Init
  <2>. QED  BY <2>1, <2>2, <2>3 DEF ListInv
<1>2. ListInv /\ CP!ConditionInv /\ [Next]_vars => ListInv'
  BY DataKept, StrandedKept DEF ListInv, CP!ConditionInv
<1>. QED  BY <1>1, <1>2, MonitorInv, PTL DEF Spec

(* Append of SynchList signals one waiter for each item, and for any       *)
(* number of threads that is enough: while a thread waits in RemoveFront   *)
(* every item on the list has a thread on its way to it, although third    *)
(* threads may take items that others were signalled for.                  *)
THEOREM ListCorrect == Spec => []SynchListInv
<1>1. ListInv /\ CP!ConditionInv => SynchListInv
  BY DEF ListInv, DataOK, CP!ConditionInv, CP!TypeOK, CP!Location,
         SynchListInv, TypeOK, Mon!TypeOK, Mon!Location
<1>. QED  BY <1>1, ListInvHolds, PTL

(* SynchList is a FIFO list for any number of threads and any items: what  *)
(* RemoveFront returns is the head of the list at the moment it is taken,  *)
(* never of an empty one, and Append adds its own item at the end.         *)
THEOREM FifoCorrect == Spec => ImplementsFifo
<1>1. Init => AbstractList!Init
  BY DEF Init, AbstractList!Init
<1>2. ListInv /\ [Next]_vars => [AbstractList!Next]_(AbstractList!vars)
  <2> SUFFICES ASSUME ListInv, [Next]_vars
               PROVE  [AbstractList!Next]_(AbstractList!vars)
    OBVIOUS
  <2>1. ASSUME NEW t \in Thread, AppendItem(t)
        PROVE  \E x \in Item : AbstractList!Append1(x)
    <3>1. arg[t] \in Item
      BY <2>1 DEF AppendItem, ListInv, OpInv
    <3>2. AbstractList!Append1(arg[t])
      BY <2>1 DEF AppendItem, AbstractList!Append1
    <3>. QED  BY <3>1, <3>2
  <2>2. ASSUME NEW t \in Thread, RemoveItem(t)
        PROVE  AbstractList!RemoveFront(t) \/ UNCHANGED AbstractList!vars
    BY <2>2 DEF RemoveItem, AbstractList!RemoveFront, AbstractList!vars
  <2>3. ASSUME NEW t \in Thread, Call(t) \/ TakeLock(t) \/ Woken(t) \/ Acquired(t)
                 \/ ReturnFromWait(t) \/ ReturnFromAppend(t) \/ ApplyItems(t)
        PROVE  UNCHANGED AbstractList!vars
    BY <2>3 DEF Call, CallAppend, CallRemoveFront, CallApply, TakeLock, Woken, Acquired,
                ReturnFromWait, ReturnFromAppend, ApplyItems, AbstractList!vars
  <2>4. CASE UNCHANGED vars
    BY <2>4 DEF vars, AbstractList!vars
  <2>. QED  BY <2>1, <2>2, <2>3, <2>4 DEF Next, OwnStep, AbstractList!Next
<1>. QED  BY <1>1, <1>2, ListInvHolds, PTL DEF Spec, ImplementsFifo, AbstractList!Spec
=============================================================================

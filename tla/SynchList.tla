----------------------------- MODULE SynchList -----------------------------
(***************************************************************************)
(* SynchList (threads/synchlist.cc): a list protected by a Lock, with a    *)
(* Condition on which RemoveFront waits while the list is empty.  The lock *)
(* and the condition are those of module Condition, step by step.          *)
(***************************************************************************)
EXTENDS Naturals, Sequences, FiniteSets

CONSTANTS Thread, Item, NULL

ASSUME SynchListAssumption == NULL \notin Thread \cup Item
ASSUME FiniteAssumption == IsFiniteSet(Thread)

VARIABLES
  pc, lock, lockHolder, waitQueue, waiter,  \* the monitor
  list,    \* SynchList::list
  op,      \* the operation each thread is in
  arg,     \* the item that Append is to append
  result   \* what the thread's last RemoveFront has returned

monVars == <<pc, lock, lockHolder, waitQueue, waiter>>
vars    == <<monVars, list, op, arg, result>>

Mon == INSTANCE Condition

(* appended: in Append, back from the V of Signal.                         *)
Operation == {"none", "Append", "appended", "RemoveFront", "Apply"}

TypeOK ==
  /\ Mon!TypeOK
  /\ list \in Seq(Item)
  /\ op \in [Thread -> Operation]
  /\ arg \in [Thread -> Item \cup {NULL}]
  /\ result \in [Thread -> Item \cup {NULL}]

Init ==
  /\ Mon!Init
  /\ list = << >>
  /\ op = [t \in Thread |-> "none"]
  /\ arg = [t \in Thread |-> NULL]
  /\ result = [t \in Thread |-> NULL]

-----------------------------------------------------------------------------
(* A thread calls Append, RemoveFront or Apply, which call Acquire first.  *)
(* List::Append asserts that the item is not on the list already, so a     *)
(* caller appends only an item that no one else has put or is putting      *)
(* there; the number of items thus bounds the length of the list.          *)
CallAppend(t, x) ==
  /\ \A i \in 1 .. Len(list) : list[i] # x
  /\ \A u \in Thread : arg[u] # x
  /\ Mon!Acquire(t)
  /\ op' = [op EXCEPT ![t] = "Append"]
  /\ arg' = [arg EXCEPT ![t] = x]
  /\ UNCHANGED <<list, result>>

CallRemoveFront(t) ==
  /\ Mon!Acquire(t)
  /\ op' = [op EXCEPT ![t] = "RemoveFront"]
  /\ UNCHANGED <<list, arg, result>>

CallApply(t) ==
  /\ Mon!Acquire(t)
  /\ op' = [op EXCEPT ![t] = "Apply"]
  /\ UNCHANGED <<list, arg, result>>

(* The thread goes through Acquire and Wait.                               *)
TakeLock(t)       == Mon!TakeLock(t) /\ UNCHANGED <<list, op, arg, result>>
Acquired(t)       == Mon!Acquired(t) /\ UNCHANGED <<list, op, arg, result>>
Woken(t)          == Mon!Woken(t) /\ UNCHANGED <<list, op, arg, result>>
ReturnFromWait(t) == Mon!ReturnFromWait(t) /\ UNCHANGED <<list, op, arg, result>>

(* Release, the last thing every operation does.                           *)
Return(t) ==
  /\ Mon!Release(t)
  /\ op' = [op EXCEPT ![t] = "none"]

(* Mutant of AppendItem: arg is read after it has been cleared.            *)
AppendNothing(t) ==
  /\ pc[t] = "in" /\ op[t] = "Append"
  /\ arg' = [arg EXCEPT ![t] = NULL]
  /\ list' = Append(list, arg'[t])
  /\ \/ Mon!Signal(t) /\ op' = [op EXCEPT ![t] = "appended"]
     \/ waitQueue = << >> /\ Return(t)
  /\ UNCHANGED result

(* Mutant of AppendItem: Signal only when the list was empty.              *)
AppendSignalIfEmpty(t) ==
  /\ pc[t] = "in" /\ op[t] = "Append"
  /\ list' = Append(list, arg[t])
  /\ arg' = [arg EXCEPT ![t] = NULL]
  /\ \/ list = << >> /\ Mon!Signal(t) /\ op' = [op EXCEPT ![t] = "appended"]
     \/ (list # << >> \/ waitQueue = << >>) /\ Return(t)
  /\ UNCHANGED result

(* Mutant of AppendItem: the item goes to the front of the list.           *)
AppendInFront(t) ==
  /\ pc[t] = "in" /\ op[t] = "Append"
  /\ list' = <<arg[t]>> \o list
  /\ arg' = [arg EXCEPT ![t] = NULL]
  /\ \/ Mon!Signal(t) /\ op' = [op EXCEPT ![t] = "appended"]
     \/ waitQueue = << >> /\ Return(t)
  /\ UNCHANGED result

(* Mutant of AppendItem: no Signal.                                        *)
AppendWithoutSignal(t) ==
  /\ pc[t] = "in" /\ op[t] = "Append"
  /\ list' = Append(list, arg[t])
  /\ arg' = [arg EXCEPT ![t] = NULL]
  /\ Return(t)
  /\ UNCHANGED result

(* Append, holding the lock: with no one to signal it runs to its end.     *)
AppendItem(t) ==
  /\ pc[t] = "in" /\ op[t] = "Append"
  /\ list' = Append(list, arg[t])
  /\ arg' = [arg EXCEPT ![t] = NULL]
  /\ \/ Mon!Signal(t) /\ op' = [op EXCEPT ![t] = "appended"]
     \/ waitQueue = << >> /\ Return(t)
  /\ UNCHANGED result

ReturnFromAppend(t) ==
  /\ op[t] = "appended"
  /\ Return(t)
  /\ UNCHANGED <<list, arg, result>>

(* RemoveFront, holding the lock: the test of its loop and what follows.   *)
RemoveItem(t) ==
  /\ pc[t] = "in" /\ op[t] = "RemoveFront"
  /\ \/ /\ list = << >>
        /\ Mon!Wait(t)
        /\ UNCHANGED <<list, op, result>>
     \/ /\ list # << >>
        /\ result' = [result EXCEPT ![t] = Head(list)]
        /\ list' = Tail(list)
        /\ Return(t)
  /\ UNCHANGED arg

(* Apply, holding the lock.                                                *)
ApplyItems(t) ==
  /\ op[t] = "Apply"
  /\ Return(t)
  /\ UNCHANGED <<list, arg, result>>

-----------------------------------------------------------------------------
(* What a thread does without waiting for another one.                     *)
OwnStep(t) ==
  \/ Acquired(t) \/ ReturnFromWait(t) \/ AppendItem(t) \/ ReturnFromAppend(t)
  \/ RemoveItem(t) \/ ApplyItems(t)

Call(t) ==
  \/ \E x \in Item : CallAppend(t, x)
  \/ CallRemoveFront(t) \/ CallApply(t)

Next == \E t \in Thread : Call(t) \/ TakeLock(t) \/ Woken(t) \/ OwnStep(t)

Spec == Init /\ [][Next]_vars

(* A thread in an operation gets the CPU, and a semaphore's value does not *)
(* go untaken while threads wait for it (ReadyThreadsRun and               *)
(* ImplementsFairSemaphore of module Threads).  Nobody has to call.        *)
FairSpec ==
  /\ Spec
  /\ \A t \in Thread : WF_vars(OwnStep(t)) /\ WF_vars(Woken(t))
  /\ WF_vars(\E t \in Thread : TakeLock(t))

-----------------------------------------------------------------------------
(* The threads in RemoveFront that will look at the list without waiting   *)
(* for another signal.                                                     *)
Coming ==
  {t \in Thread :
     /\ op[t] = "RemoveFront"
     /\ \/ pc[t] \in {"in", "reacquire", "retaken"}
        \/ pc[t] = "wait" /\ waiter[t] > 0}

(* Append signals one waiter per item, and another thread may remove the   *)
(* item before that waiter has the lock again.  Even so, while threads     *)
(* wait on the condition every item on the list has a thread on its way.   *)
NoStrandedItem == waitQueue # << >> => Len(list) <= Cardinality(Coming)

(* The safety of the list: its state is well-formed, and no item is left   *)
(* beside a waiting thread that nothing will wake.                         *)
SynchListInv == TypeOK /\ NoStrandedItem

(* A thread leaves RemoveFront only with an item, and items come out once  *)
(* each, in order.                                                         *)
AbstractList == INSTANCE Fifo WITH contents <- list
ImplementsFifo == AbstractList!Spec

(* RemoveFront does not wait for ever while there are items, unless other  *)
(* threads keep calling: those may take the lock from under a signalled    *)
(* thread again and again, since Semaphore::V reserves nothing for it.     *)
ItemsAreTaken ==
  \/ []<><<\E t \in Thread : Call(t)>>_vars
  \/ (list # << >> /\ waitQueue # << >>) ~> (list = << >> \/ waitQueue = << >>)
=============================================================================

------------------------------ MODULE SelfTest ------------------------------
(***************************************************************************)
(* Kernel::ThreadSelfTest (threads/kernel.cc): Thread::SelfTest,           *)
(* Semaphore::SelfTest and SynchList::SelfTest one after the other.  Each  *)
(* forks a thread and plays ping-pong with it; the semaphores and lists    *)
(* are deleted while the forked thread may still be on its way out.        *)
(* Semaphores are what module Semaphore promises: V touches nothing of its *)
(* semaphore after it has enabled interrupts again, so it is one step.     *)
(* Synchronized lists are what module Fifo promises, with the lock that is *)
(* held until the operation's last step.  LibSelfTest touches neither.     *)
(*                                                                         *)
(* main.cc:273 has the call of ThreadSelfTest commented out: -K runs       *)
(* ThreadTest, which is the part of Thread::SelfTest here.                 *)
(***************************************************************************)
EXTENDS Integers, Sequences

CONSTANTS
  Rounds,   \* 10 in Semaphore::SelfTest and SynchList::SelfTest
  Loops,    \* 5 in SimpleThread
  NULL

SelfTestAssumption == Rounds \in Nat \ {0} /\ Loops \in Nat \ {0}

Tester == {"main", "forked", "semaphore helper", "list helper"}
Sem    == {"ping", "pong"}
List   == {"selfTestPing", "synchList"}

VARIABLES
  at,              \* what each thread does next
  loop,            \* the loop counter of each thread
  value, waiting,  \* of the semaphores
  list,            \* the contents of the lists
  listHolder,      \* the thread in each list's lock
  alive            \* the semaphores and lists that exist

listVars == <<list, listHolder>>
vars == <<at, loop, value, waiting, listVars, alive>>

S == INSTANCE Semaphore WITH Thread <- Tester, InitialValue <- [s \in Sem |-> 0]

Quiet ==
  /\ loop = [t \in Tester |-> 0]
  /\ S!Init
  /\ list = [l \in List |-> << >>]
  /\ listHolder = [l \in List |-> NULL]
  /\ alive = {}
Init == at = [t \in Tester |-> IF t = "main" THEN "loop" ELSE "unborn"] /\ Quiet

Go(t, next) == at' = [at EXCEPT ![t] = next]

(* The next turn of t's loop at step `first', or `after' it                *)
Again(t, bound, first, after) ==
  IF loop[t] + 1 < bound
  THEN loop' = [loop EXCEPT ![t] = @ + 1] /\ Go(t, first)
  ELSE loop' = [loop EXCEPT ![t] = 0] /\ Go(t, after)

(* t calls P of s: it returns at once, or waits and returns later          *)
CallP(t, s) == S!P(t, s) \/ S!Proceed(t, s)

Wait(t, s) == S!Wait(t, s) /\ UNCHANGED <<at, loop, listVars, alive>>

(* Thread::SelfTest forks a thread; both run SimpleThread and yield        *)
Fork ==
  /\ at["main"] = "loop" /\ at["forked"] = "unborn" /\ loop["main"] = 0
  /\ at' = [at EXCEPT !["forked"] = "loop"]
  /\ UNCHANGED <<loop, value, waiting, listVars, alive>>

SimpleThread(t) ==
  /\ at[t] = "loop" /\ at["forked"] # "unborn"
  /\ Again(t, Loops, "loop", IF t = "main" THEN "new semaphores" ELSE "finished")
  /\ UNCHANGED <<value, waiting, listVars, alive>>

(* Semaphore::SelfTest up to its loop                                      *)
NewSemaphores ==
  /\ at["main"] = "new semaphores"
  /\ alive' = alive \cup Sem
  /\ at' = [at EXCEPT !["main"] = "V", !["semaphore helper"] = "P"]
  /\ UNCHANGED <<loop, value, waiting, listVars>>

MainV ==
  /\ at["main"] = "V" /\ S!V("ping") /\ Go("main", "P")
  /\ UNCHANGED <<loop, listVars, alive>>

MainP ==
  /\ at["main"] = "P"
  /\ \/ Wait("main", "pong")
     \/ CallP("main", "pong") /\ Again("main", Rounds, "V", "delete ping")
                              /\ UNCHANGED <<listVars, alive>>

(* The loop of SelfTestHelper of synch.cc                                  *)
HelperP ==
  /\ at["semaphore helper"] = "P"
  /\ \/ Wait("semaphore helper", "ping")
     \/ CallP("semaphore helper", "ping") /\ Go("semaphore helper", "V")
                                          /\ UNCHANGED <<loop, listVars, alive>>

(* Mutant of HelperV: the loop runs once too often.                        *)
HelperVOnceMore ==
  /\ at["semaphore helper"] = "V" /\ S!V("pong")
  /\ Again("semaphore helper", Rounds + 1, "P", "finished")
  /\ UNCHANGED <<listVars, alive>>

HelperV ==
  /\ at["semaphore helper"] = "V" /\ S!V("pong")
  /\ Again("semaphore helper", Rounds, "P", "finished")
  /\ UNCHANGED <<listVars, alive>>

(* `delete ping', and `delete semaphore' in ThreadSelfTest                 *)
Delete(step, object, next) ==
  /\ at["main"] = step
  /\ alive' = alive \ {object}
  /\ Go("main", next)
  /\ UNCHANGED <<loop, value, waiting, listVars>>

(* SynchList::SelfTest up to its loop                                      *)
NewLists ==
  /\ at["main"] = "new lists"
  /\ alive' = alive \cup List
  /\ at' = [at EXCEPT !["main"] = "append", !["list helper"] = "take"]
  /\ UNCHANGED <<loop, value, waiting, listVars>>

(* Append and RemoveFront of list l by thread t: from the Acquire, or from *)
(* the Wait in which it finds the list not empty any more, to the Release  *)
AppendTo(t, from, l, to) ==
  /\ at[t] = from /\ listHolder[l] = NULL
  /\ listHolder' = [listHolder EXCEPT ![l] = t]
  /\ list' = [list EXCEPT ![l] = Append(@, 9)]
  /\ Go(t, to)
  /\ UNCHANGED <<loop, value, waiting, alive>>

(* Mutant of TakeFrom: without the lock.                                   *)
TakeFromUnlocked(t, from, l, to) ==
  /\ at[t] = from /\ list[l] # << >>
  /\ list' = [list EXCEPT ![l] = Tail(@)]
  /\ Go(t, to)
  /\ UNCHANGED <<loop, value, waiting, listHolder, alive>>

TakeFrom(t, from, l, to) ==
  /\ at[t] = from /\ listHolder[l] = NULL /\ list[l] # << >>
  /\ listHolder' = [listHolder EXCEPT ![l] = t]
  /\ list' = [list EXCEPT ![l] = Tail(@)]
  /\ Go(t, to)
  /\ UNCHANGED <<loop, value, waiting, alive>>

Release(t, from, l) ==
  /\ at[t] = from
  /\ listHolder' = [listHolder EXCEPT ![l] = NULL]
  /\ UNCHANGED <<value, waiting, list, alive>>

(* The loop of SynchList::SelfTest                                         *)
MainAppend == AppendTo("main", "append", "selfTestPing", "appended")
MainAppended == Release("main", "appended", "selfTestPing") /\ Go("main", "remove") /\ UNCHANGED loop
MainRemove == TakeFrom("main", "remove", "synchList", "removed")
MainRemoved ==
  Release("main", "removed", "synchList") /\ Again("main", Rounds, "append", "delete selfTestPing")

(* The loop of SelfTestHelper of synchlist.cc                              *)
HelperTake == TakeFrom("list helper", "take", "selfTestPing", "taken")
HelperTaken ==
  Release("list helper", "taken", "selfTestPing") /\ Go("list helper", "give") /\ UNCHANGED loop

(* Mutant of HelperGive: the item goes back to the list it came from.      *)
HelperGiveBack == AppendTo("list helper", "give", "selfTestPing", "given")

HelperGive == AppendTo("list helper", "give", "synchList", "given")
HelperGiven ==
  Release("list helper", "given", "synchList") /\ Again("list helper", Rounds, "take", "finished")

Main ==
  \/ Fork \/ SimpleThread("main") \/ NewSemaphores \/ MainV \/ MainP
  \/ Delete("delete ping", "ping", "delete pong") \/ Delete("delete pong", "pong", "new lists")
  \/ NewLists \/ MainAppend \/ MainAppended \/ MainRemove \/ MainRemoved
  \/ Delete("delete selfTestPing", "selfTestPing", "delete synchList")
  \/ Delete("delete synchList", "synchList", "finished")

Forked          == SimpleThread("forked")
SemaphoreHelper == HelperP \/ HelperV
ListHelper      == HelperTake \/ HelperTaken \/ HelperGive \/ HelperGiven

Next == Main \/ Forked \/ SemaphoreHelper \/ ListHelper

Spec == Init /\ [][Next]_vars

(* Time slicing and the first-in first-out ready list give every thread    *)
(* that can run its turn (ReadyThreadsRun of module Threads)               *)
Fairness ==
  /\ WF_vars(Main) /\ WF_vars(Forked) /\ WF_vars(SemaphoreHelper) /\ WF_vars(ListHelper)

-----------------------------------------------------------------------------
(* What the next step of each thread uses, the Release of a list included  *)
Target(t) ==
  CASE at[t] = "P" -> IF t = "main" THEN {"pong"} ELSE {"ping"}
    [] at[t] = "V" -> IF t = "main" THEN {"ping"} ELSE {"pong"}
    [] at[t] \in {"append", "appended", "take", "taken"} -> {"selfTestPing"}
    [] at[t] \in {"remove", "removed", "give", "given"} -> {"synchList"}
    [] OTHER -> {}

(* No thread uses a semaphore or a list that the main thread has deleted,  *)
(* or is still inside Append when it is deleted, and each is deleted       *)
(* empty: with value 0, with nobody waiting and with no item left.         *)
DeletedWhenDone ==
  /\ \A t \in Tester : Target(t) \subseteq alive
  /\ \A s \in Sem : s \notin alive => value[s] = 0 /\ \A t \in Tester : waiting[t] # s
  /\ \A l \in List : l \notin alive => list[l] = << >>

(* The test ends, and so do all threads it forked.                         *)
SelfTestEnds == <>[](\A t \in Tester : at[t] = "finished")
=============================================================================

----------------------------- MODULE SynchDisk -----------------------------
(***************************************************************************)
(* SynchDisk (filesys/synchdisk.cc) over the requests and the interrupts   *)
(* of Disk (machine/disk.cc): threads that share a disk which takes one    *)
(* request at a time and says with an interrupt that it is done.           *)
(*                                                                         *)
(* The lock is the one that module Condition shows Lock to be, and the     *)
(* semaphore the one of module Semaphore.  A thread can lose the CPU only  *)
(* at the end of a P or a V.  How long a request takes is the subject of   *)
(* module Disk; here the interrupt comes at any later time.                *)
(***************************************************************************)
EXTENDS Naturals, FiniteSets

CONSTANTS Thread, Sector, Data, NULL

VARIABLES
  pc,         \* where each thread is
  op,         \* the operation it is in, NULL if none
  data,       \* the contents of its buffer
  holder,     \* the thread that holds SynchDisk::lock, or NULL
  semaphore,  \* the value of SynchDisk::semaphore
  active,     \* Disk::active
  sectors     \* the contents of the disk (the UNIX file)

vars == <<pc, op, data, holder, semaphore, active, sectors>>

Operation == [name : {"ReadSector", "WriteSector"}, sector : Sector]

SynchDiskAssumption == NULL \notin Thread /\ NULL \notin Operation

(* out      not in SynchDisk         wait     in P of the semaphore        *)
(* acquire  in lock->Acquire         release  back from P                  *)
(* request  holding the lock                                               *)
TypeOK ==
  /\ pc \in [Thread -> {"out", "acquire", "request", "wait", "release"}]
  /\ op \in [Thread -> Operation \cup {NULL}]
  /\ data \in [Thread -> Data]
  /\ holder \in Thread \cup {NULL}
  /\ semaphore \in 0 .. 1
  /\ active \in BOOLEAN
  /\ sectors \in [Sector -> Data]

(* SynchDisk::SynchDisk and Disk::Disk, on a disk with any contents.       *)
Init ==
  /\ pc = [t \in Thread |-> "out"]
  /\ op = [t \in Thread |-> NULL]
  /\ data \in [Thread -> Data]
  /\ holder = NULL
  /\ semaphore = 0
  /\ active = FALSE
  /\ sectors \in [Sector -> Data]

Goto(t, where) == pc' = [pc EXCEPT ![t] = where]

-----------------------------------------------------------------------------
(* A thread calls ReadSector or WriteSector with its buffer.               *)
Call(t) ==
  /\ pc[t] = "out"
  /\ \E o \in Operation, d \in Data :
       /\ op' = [op EXCEPT ![t] = o]
       /\ data' = [data EXCEPT ![t] = d]
  /\ Goto(t, "acquire")
  /\ UNCHANGED <<holder, semaphore, active, sectors>>

(* Mutant of Acquire: the lock is not waited for.                          *)
AcquireAtOnce(t) ==
  /\ pc[t] = "acquire"
  /\ holder' = t
  /\ Goto(t, "request")
  /\ UNCHANGED <<op, data, semaphore, active, sectors>>

Acquire(t) ==
  /\ pc[t] = "acquire" /\ holder = NULL
  /\ holder' = t
  /\ Goto(t, "request")
  /\ UNCHANGED <<op, data, semaphore, active, sectors>>

(* Mutant of ReadRequest: the buffer is not filled.                        *)
ReadRequestOfNothing(t) ==
  /\ op[t].name = "ReadSector"
  /\ UNCHANGED <<data, sectors>>

(* Disk::ReadRequest and Disk::WriteRequest: the data moves at once, to or *)
(* from the UNIX file, and the interrupt is scheduled.  The request is     *)
(* followed by P, which cannot go through without a step of its own.       *)
ReadRequest(t) ==
  /\ op[t].name = "ReadSector"
  /\ data' = [data EXCEPT ![t] = sectors[op[t].sector]]
  /\ UNCHANGED sectors

WriteRequest(t) ==
  /\ op[t].name = "WriteSector"
  /\ sectors' = [sectors EXCEPT ![op[t].sector] = data[t]]
  /\ UNCHANGED data

Request(t) ==
  /\ pc[t] = "request"
  /\ ReadRequest(t) \/ WriteRequest(t)
  /\ active' = TRUE
  /\ Goto(t, "wait")
  /\ UNCHANGED <<op, holder, semaphore>>

(* Mutant of CallBack: the thread is not woken.                            *)
CallBackWithoutV ==
  /\ active
  /\ active' = FALSE
  /\ UNCHANGED <<pc, op, data, holder, semaphore, sectors>>

(* Mutant of CallBack: the handler is called twice.                        *)
CallBackTwice ==
  /\ active
  /\ active' = FALSE
  /\ semaphore' = semaphore + 2
  /\ UNCHANGED <<pc, op, data, holder, sectors>>

(* The disk interrupt: Disk::CallBack, which calls SynchDisk::CallBack.    *)
CallBack ==
  /\ active
  /\ active' = FALSE
  /\ semaphore' = semaphore + 1
  /\ UNCHANGED <<pc, op, data, holder, sectors>>

(* Mutant of Wakeup: the thread asks for its sector again.                 *)
WakeupRetrying(t) ==
  /\ pc[t] = "wait" /\ semaphore > 0
  /\ semaphore' = semaphore - 1
  /\ Goto(t, "request")
  /\ UNCHANGED <<op, data, holder, active, sectors>>

(* P finds the semaphore's value positive.                                 *)
Wakeup(t) ==
  /\ pc[t] = "wait" /\ semaphore > 0
  /\ semaphore' = semaphore - 1
  /\ Goto(t, "release")
  /\ UNCHANGED <<op, data, holder, active, sectors>>

(* lock->Release, and the return to the caller.                            *)
Release(t) ==
  /\ pc[t] = "release"
  /\ holder' = NULL
  /\ op' = [op EXCEPT ![t] = NULL]
  /\ Goto(t, "out")
  /\ UNCHANGED <<data, semaphore, active, sectors>>

OwnStep(t) == Request(t) \/ Wakeup(t) \/ Release(t)

Next == CallBack \/ \E t \in Thread : Call(t) \/ Acquire(t) \/ OwnStep(t)

Spec == Init /\ [][Next]_vars

(* A thread that can go on gets the CPU, the scheduled interrupt comes     *)
(* (EveryInterruptTaken of module Interrupt), and a free lock is taken by  *)
(* some thread that waits for it, though not by any one of them.           *)
Fairness ==
  /\ WF_vars(CallBack)
  /\ WF_vars(\E t \in Thread : Acquire(t))
  /\ \A t \in Thread : WF_vars(OwnStep(t))

-----------------------------------------------------------------------------
(* ASSERT(!active) of ReadRequest and WriteRequest: the disk is idle when  *)
(* a request reaches it, although the interrupt of the last one may come   *)
(* long before or after its thread runs again.                             *)
OneRequestAtATime == \A t \in Thread : pc[t] = "request" => ~active

(* An interrupt wakes the thread whose request it ends: the value of the   *)
(* semaphore and the request in progress always add up to the one thread   *)
(* that waits, so a thread leaves P only when its own request is done.     *)
InterruptIsForTheWaiter ==
  /\ semaphore + (IF active THEN 1 ELSE 0) = Cardinality({t \in Thread : pc[t] = "wait"})
  /\ \A t \in Thread : pc[t] = "wait" => holder = t

(* ReadSector and WriteSector take effect one at a time, between their     *)
(* call and their return, and a read returns the last write.               *)
Done == {t \in Thread : pc[t] \in {"wait", "release"}}
Store == INSTANCE SectorStore WITH done <- Done
ImplementsSectorStore == Store!Spec

(* ReadSector and WriteSector are atomic reads and writes of sectors: the  *)
(* disk gets one request at a time, each interrupt wakes the thread whose  *)
(* request has ended, and a read returns the last write.                   *)
SectorsAreAtomic ==
  [](TypeOK /\ OneRequestAtATime /\ InterruptIsForTheWaiter) /\ ImplementsSectorStore

(* A thread that has called gets its sector, unless other threads take the *)
(* lock before it for ever (V reserves the lock for no one).               *)
EveryRequestReturns ==
  \A t \in Thread :
    \/ pc[t] = "acquire" ~> pc[t] = "out"
    \/ []<><<\E u \in Thread \ {t} : Acquire(u)>>_vars
=============================================================================

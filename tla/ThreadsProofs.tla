--------------------------- MODULE ThreadsProofs ----------------------------
(***************************************************************************)
(* Proofs about the thread kernel of module Threads, for every set of      *)
(* threads and semaphores and every choice of ticks and time slices: the   *)
(* types are kept, the ready list and the queues are exact, finished       *)
(* threads are deleted, no wakeup is lost, the semaphore implements the    *)
(* abstract one, and the interrupt level, the machine status and           *)
(* time-slice requests are right.  They rest on lemmas about lists and on  *)
(* one for each way a step moves a thread between the CPU, the ready list  *)
(* and the queues.                                                         *)
(***************************************************************************)
EXTENDS Threads, FiniteSetTheorems, TLAPS

-----------------------------------------------------------------------------
(* What appending to and removing from a list without duplicates does to   *)
(* its members (List::Append, List::RemoveFront).                          *)
LEMMA AppendMembers ==
  ASSUME NEW S, NEW seq \in Seq(S), NEW x \in S
  PROVE  /\ Append(seq, x) \in Seq(S)
         /\ \A y : InSeq(y, Append(seq, x)) <=> InSeq(y, seq) \/ y = x
         /\ Distinct(seq) /\ ~InSeq(x, seq) => Distinct(Append(seq, x))
<1>1. /\ Append(seq, x) \in Seq(S)
      /\ Len(Append(seq, x)) = Len(seq) + 1
      /\ \A i \in 1 .. Len(seq) : Append(seq, x)[i] = seq[i]
      /\ Append(seq, x)[Len(seq) + 1] = x
      /\ Len(seq) \in Nat
  OBVIOUS
<1>2. ASSUME NEW y
      PROVE  InSeq(y, Append(seq, x)) <=> InSeq(y, seq) \/ y = x
  <2>1. ASSUME InSeq(y, Append(seq, x))
        PROVE  InSeq(y, seq) \/ y = x
    <3>1. PICK i \in 1 .. Len(seq) + 1 : Append(seq, x)[i] = y
      BY <1>1, <2>1, Zenon DEF InSeq
    <3>2. CASE i = Len(seq) + 1
      BY <1>1, <3>1, <3>2, Zenon
    <3>3. CASE i \in 1 .. Len(seq)
      BY <1>1, <3>1, <3>3, Zenon DEF InSeq
    <3>. QED  BY <1>1, <3>2, <3>3
  <2>2. InSeq(y, seq) => InSeq(y, Append(seq, x))
    BY <1>1 DEF InSeq
  <2>3. y = x => InSeq(y, Append(seq, x))
    BY <1>1 DEF InSeq
  <2>. QED  BY <2>1, <2>2, <2>3, Zenon
<1>3. ASSUME Distinct(seq), ~InSeq(x, seq)
      PROVE  Distinct(Append(seq, x))
  BY <1>1, <1>3 DEF Distinct, InSeq
<1>. QED  BY <1>1, <1>2, <1>3, Zenon

(* RemoveFront takes the first element off, and only that one.             *)
LEMMA TailMembers ==
  ASSUME NEW S, NEW seq \in Seq(S), seq # << >>
  PROVE  /\ Tail(seq) \in Seq(S)
         /\ Head(seq) \in S
         /\ InSeq(Head(seq), seq)
         /\ Distinct(seq) => Distinct(Tail(seq))
         /\ Distinct(seq) => \A y : InSeq(y, Tail(seq)) <=>
                                    InSeq(y, seq) /\ y # Head(seq)
<1>1. /\ Tail(seq) \in Seq(S)
      /\ Len(Tail(seq)) = Len(seq) - 1
      /\ \A i \in 1 .. Len(seq) - 1 : Tail(seq)[i] = seq[i + 1]
      /\ Head(seq) = seq[1]
      /\ Len(seq) \in Nat \ {0}
      /\ seq[1] \in S
  OBVIOUS
<1>2. InSeq(Head(seq), seq)
  BY <1>1 DEF InSeq
<1>3. Distinct(seq) => Distinct(Tail(seq))
  BY <1>1 DEF Distinct
<1>4. ASSUME Distinct(seq), NEW y
      PROVE  InSeq(y, Tail(seq)) <=> InSeq(y, seq) /\ y # Head(seq)
  <2>1. ASSUME InSeq(y, Tail(seq))
        PROVE  InSeq(y, seq) /\ y # Head(seq)
    <3>1. PICK i \in 1 .. Len(seq) - 1 : Tail(seq)[i] = y
      BY <1>1, <2>1, Zenon DEF InSeq
    <3>2. i + 1 \in 1 .. Len(seq) /\ i + 1 # 1 /\ seq[i + 1] = y
      BY <1>1, <3>1
    <3>. QED  BY <1>1, <1>4, <3>2 DEF InSeq, Distinct
  <2>2. ASSUME InSeq(y, seq), y # Head(seq)
        PROVE  InSeq(y, Tail(seq))
    <3>1. PICK i \in 1 .. Len(seq) : seq[i] = y
      BY <2>2, Zenon DEF InSeq
    <3>2. i - 1 \in 1 .. Len(seq) - 1 /\ Tail(seq)[i - 1] = y
      BY <1>1, <2>2, <3>1
    <3>. QED  BY <1>1, <3>2, Zenon DEF InSeq
  <2>. QED  BY <2>1, <2>2, Zenon
<1>. QED  BY <1>1, <1>2, <1>3, <1>4, Zenon

(* The empty list has no members.                                          *)
LEMMA EmptyMembers ==
  /\ Distinct(<< >>)
  /\ \A y : ~InSeq(y, << >>)
BY DEF Distinct, InSeq

-----------------------------------------------------------------------------
(* How a live thread's status goes with the place it is at, and what is    *)
(* left behind by a deleted one: with the invariants on the ready list,   *)
(* the queues and toBeDestroyed, an inductive invariant.                   *)
LocationsConsistent ==
  /\ \A t \in alive :
       /\ status[t] # "JUST_CREATED"
       /\ status[t] = "RUNNING" => t = currentThread
       /\ pc[t] \in {"run", "oneTick"} => status[t] = "RUNNING"
       /\ pc[t] \in {"begin", "inYield"} => status[t] # "BLOCKED"
       /\ pc[t] = "inP" <=> waitingOn[t] # NULL
  /\ \A t \in Thread \ alive : waitingOn[t] = NULL
  /\ machineStatus = "IdleMode" => pc[currentThread] \in {"inP", "finish"}
  /\ machineStatus = "IdleMode" => status[currentThread] # "RUNNING"
  /\ \A t \in Thread : oldStatus[t] # "IdleMode"


-----------------------------------------------------------------------------
(* The inductive invariant: the three invariants on where threads are,     *)
(* strengthened by how a thread's status goes with its place.              *)
PlacesInv ==
  LocationsConsistent /\ CarcassDeletedByNext /\ ReadyListExact /\ QueuesExact

(* The invariant holds when Kernel::Initialize has created main.           *)
LEMMA InitPlacesInv == Init => PlacesInv
<1> SUFFICES ASSUME Init PROVE PlacesInv
  BY Zenon
<1> USE ThreadsAssumption
<1>1. LocationsConsistent /\ CarcassDeletedByNext
  BY Zenon DEF Init, LocationsConsistent, CarcassDeletedByNext, MachineStatus
<1>2. ReadyListExact
  BY EmptyMembers, Zenon DEF Init, ReadyListExact
<1>3. QueuesExact
  BY EmptyMembers, Zenon DEF Init, QueuesExact
<1>. QED  BY <1>1, <1>2, <1>3, Zenon DEF PlacesInv

(* A step of the running thread that stays within its own code and OneTick *)
LEMMA LocalStep ==
  ASSUME ThreadTypeOK, KernelTypeOK, PlacesInv,
         pc[currentThread] \in {"run", "oneTick"},
         NEW x \in {"run", "oneTick"},
         pc' = [pc EXCEPT ![currentThread] = x],
         machineStatus' # "IdleMode",
         \A t \in Thread : oldStatus'[t] # "IdleMode",
         UNCHANGED <<alive, status, waitingOn, currentThread, readyList,
                     toBeDestroyed, queue>>
  PROVE  PlacesInv'
<1>1. ReadyListExact' /\ QueuesExact'
  BY Zenon DEF PlacesInv, ReadyListExact, QueuesExact
<1>2. LocationsConsistent'
  BY DEF PlacesInv, LocationsConsistent, CarcassDeletedByNext, ThreadTypeOK,
         KernelTypeOK
<1>3. CarcassDeletedByNext'
  BY Zenon DEF PlacesInv, LocationsConsistent, CarcassDeletedByNext, ThreadTypeOK,
         KernelTypeOK
<1>. QED  BY <1>1, <1>2, <1>3, Zenon DEF PlacesInv

(* A thread Scheduler::Run has returned to deletes the finished thread.    *)
LEMMA ResumeStep ==
  ASSUME ThreadTypeOK, KernelTypeOK, PlacesInv,
         pc[currentThread] \in {"begin", "inYield"},
         status[currentThread] = "RUNNING",
         NEW x \in {"run", "oneTick"},
         pc' = [pc EXCEPT ![currentThread] = x],
         CheckToBeDestroyed,
         UNCHANGED <<status, waitingOn, currentThread, readyList, queue,
                     machineStatus, oldStatus>>
  PROVE  PlacesInv'
<1> USE ThreadsAssumption
<1>0. /\ toBeDestroyed # NULL => /\ toBeDestroyed \in Thread
                                /\ pc[toBeDestroyed] = "finish"
                                /\ status[toBeDestroyed] = "BLOCKED"
                                /\ waitingOn[toBeDestroyed] = NULL
      /\ currentThread \in alive /\ currentThread # toBeDestroyed
  BY DEF PlacesInv, LocationsConsistent, CarcassDeletedByNext, ThreadTypeOK,
         KernelTypeOK
<1>1. ReadyListExact'
  BY <1>0, Zenon DEF PlacesInv, ReadyListExact, CheckToBeDestroyed, ThreadTypeOK
<1>2. QueuesExact'
  BY <1>0 DEF PlacesInv, QueuesExact, CheckToBeDestroyed, ThreadTypeOK
<1>3. LocationsConsistent'
  BY <1>0 DEF PlacesInv, LocationsConsistent, CarcassDeletedByNext,
         CheckToBeDestroyed, ThreadTypeOK, KernelTypeOK
<1>4. CarcassDeletedByNext'
  BY <1>0 DEF PlacesInv, LocationsConsistent, CarcassDeletedByNext,
         CheckToBeDestroyed, ThreadTypeOK, KernelTypeOK
<1>. QED  BY <1>1, <1>2, <1>3, <1>4, Zenon DEF PlacesInv

(* Thread::Fork puts a new thread on the ready list.                       *)
LEMMA ForkStep ==
  ASSUME ThreadTypeOK, KernelTypeOK, PlacesInv,
         NEW t \in Thread, NEW u \in Thread, Fork(t, u)
  PROVE  PlacesInv'
<1> USE DEF ThreadTypeOK, KernelTypeOK
<1>0. /\ t = currentThread /\ t \in alive /\ pc[t] = "run" /\ t # u
      /\ ~InSeq(u, readyList) /\ status[t] = "RUNNING"
      /\ machineStatus # "IdleMode" /\ toBeDestroyed = NULL
      /\ waitingOn[u] = NULL
  BY Zenon DEF Fork, InKernelCode, InOwnCode, PlacesInv, LocationsConsistent,
         CarcassDeletedByNext, ReadyListExact
<1>1. ReadyListExact'
  <2>1. /\ Distinct(readyList')
        /\ \A y : InSeq(y, readyList') <=> InSeq(y, readyList) \/ y = u
    BY <1>0, AppendMembers, Zenon DEF Fork, PlacesInv, ReadyListExact
  <2>. QED
    BY <1>0, <2>1, Zenon DEF Fork, PlacesInv, ReadyListExact
<1>2. QueuesExact'
  BY <1>0, ThreadsAssumption DEF Fork, semVars, PlacesInv, QueuesExact
<1>3. LocationsConsistent'
  BY <1>0 DEF Fork, PlacesInv, LocationsConsistent
<1>4. CarcassDeletedByNext'
  BY <1>0 DEF Fork, PlacesInv, CarcassDeletedByNext
<1>. QED  BY <1>1, <1>2, <1>3, <1>4, Zenon DEF PlacesInv

(* Thread::Finish blocks a thread that is on no list.                      *)
LEMMA FinishStep ==
  ASSUME ThreadTypeOK, KernelTypeOK, PlacesInv, NEW t \in Thread, Finish(t)
  PROVE  PlacesInv'
<1> USE DEF ThreadTypeOK, KernelTypeOK
<1>0. /\ t = currentThread /\ t \in alive /\ pc[t] = "run"
      /\ status[t] = "RUNNING" /\ waitingOn[t] = NULL
      /\ machineStatus # "IdleMode" /\ toBeDestroyed = NULL
  BY Zenon DEF Finish, InKernelCode, InOwnCode, PlacesInv, LocationsConsistent,
         CarcassDeletedByNext
<1>1. ReadyListExact'
  BY <1>0, Zenon DEF Finish, schedVars, PlacesInv, ReadyListExact
<1>2. QueuesExact'
  BY <1>0, ThreadsAssumption DEF Finish, semVars, PlacesInv, QueuesExact
<1>3. LocationsConsistent'
  BY <1>0, Zenon DEF Finish, schedVars, PlacesInv, LocationsConsistent
<1>4. CarcassDeletedByNext'
  BY <1>0, Zenon DEF Finish, schedVars, PlacesInv, CarcassDeletedByNext,
              LocationsConsistent
<1>. QED  BY <1>1, <1>2, <1>3, <1>4, Zenon DEF PlacesInv

(* The switch in Thread::Yield: the yielding thread goes to the end of the *)
(* ready list, the first one on it to the CPU.                             *)
LEMMA SwitchInYieldStep ==
  ASSUME ThreadTypeOK, KernelTypeOK, PlacesInv, NEW t \in Thread,
         t = currentThread, pc[t] \in {"run", "oneTick"},
         SwitchInYield(t), machineStatus' # "IdleMode",
         \A u \in Thread : oldStatus'[u] # "IdleMode",
         UNCHANGED <<alive, waitingOn, toBeDestroyed, queue>>
  PROVE  PlacesInv'
<1> USE DEF ThreadTypeOK, KernelTypeOK
<1> DEFINE n == Head(readyList)
<1>0. /\ t \in alive /\ status[t] = "RUNNING" /\ waitingOn[t] = NULL
      /\ toBeDestroyed = NULL
      /\ ~InSeq(t, readyList)
  BY Zenon DEF PlacesInv, LocationsConsistent, CarcassDeletedByNext, ReadyListExact
<1>1. /\ Tail(readyList) \in Seq(Thread)
      /\ n \in Thread /\ InSeq(n, readyList)
      /\ Distinct(Tail(readyList))
      /\ \A y : InSeq(y, Tail(readyList)) <=> InSeq(y, readyList) /\ y # n
  BY TailMembers, Zenon DEF SwitchInYield, PlacesInv, ReadyListExact
<1>2. n \in alive /\ status[n] = "READY" /\ n # t
  BY <1>0, <1>1, Zenon DEF PlacesInv, ReadyListExact
<1>3. /\ Distinct(readyList')
      /\ \A y : InSeq(y, readyList') <=>
                 (InSeq(y, readyList) /\ y # n) \/ y = t
  <2>1. readyList' = Append(Tail(readyList), t)
    BY Zenon DEF SwitchInYield
  <2>2. ~InSeq(t, Tail(readyList))
    BY <1>0, <1>1, Zenon
  <2>. DEFINE rest == Tail(readyList)
  <2>3. rest \in Seq(Thread) /\ Distinct(rest) /\ ~InSeq(t, rest)
    BY <1>1, <2>2, Zenon
  <2>. HIDE DEF n, rest
  <2>4. Distinct(Append(rest, t))
    BY <2>3, AppendMembers, Zenon
  <2>5. \A y : InSeq(y, Append(rest, t)) <=> InSeq(y, rest) \/ y = t
    BY <2>3, AppendMembers, Zenon
  <2>. QED  BY <1>1, <2>1, <2>4, <2>5, Zenon DEF rest
<1> HIDE DEF n
<1>4. /\ status' = [status EXCEPT ![t] = "READY", ![n] = "RUNNING"]
      /\ pc' = [pc EXCEPT ![t] = "inYield"] /\ currentThread' = n
  BY Zenon DEF SwitchInYield, n
<1>5. ReadyListExact'
  BY <1>0, <1>1, <1>2, <1>3, <1>4, Zenon DEF PlacesInv, ReadyListExact
<1>6. QueuesExact'
  BY <1>0, <1>2, <1>4, ThreadsAssumption DEF PlacesInv, QueuesExact
<1>7. LocationsConsistent'
  BY <1>0, <1>2, <1>4 DEF PlacesInv, LocationsConsistent
<1>8. CarcassDeletedByNext'
  BY <1>0, <1>2, <1>4
     DEF PlacesInv, LocationsConsistent, CarcassDeletedByNext
<1>. QED  BY <1>5, <1>6, <1>7, <1>8, Zenon DEF PlacesInv

(* The switch in Thread::Sleep: the sleeper stays where it is (in P's      *)
(* queue, on the ready list if a handler has woken it, or finishing).      *)
LEMMA DispatchStep ==
  ASSUME ThreadTypeOK, KernelTypeOK, PlacesInv, NEW t \in Thread, Dispatch(t)
  PROVE  PlacesInv'
<1> USE DEF ThreadTypeOK, KernelTypeOK
<1> DEFINE n == Head(readyList)
<1>0. /\ t = currentThread /\ t \in alive /\ status[t] # "RUNNING"
      /\ pc[t] \in {"inP", "finish"} /\ machineStatus # "IdleMode"
      /\ toBeDestroyed = NULL /\ readyList # << >>
  BY Zenon DEF Dispatch, InSleep, PlacesInv, CarcassDeletedByNext
<1>1. /\ n \in Thread /\ InSeq(n, readyList)
      /\ Distinct(readyList')
      /\ \A y : InSeq(y, readyList') <=> InSeq(y, readyList) /\ y # n
  BY <1>0, TailMembers, Zenon DEF Dispatch, PlacesInv, ReadyListExact
<1>2. n \in alive /\ status[n] = "READY"
  BY <1>1, Zenon DEF PlacesInv, ReadyListExact
<1>3. pc[n] \in {"begin", "inYield", "inP"}
  BY <1>2, Zenon DEF PlacesInv, LocationsConsistent, CarcassDeletedByNext, Location
<1> HIDE DEF n
<1>4. /\ status' = [status EXCEPT ![n] = "RUNNING"] /\ currentThread' = n
      /\ toBeDestroyed' = IF pc[t] = "finish" THEN t ELSE NULL
      /\ UNCHANGED <<alive, pc, waitingOn, oldStatus, queue, machineStatus>>
  BY <1>0, Zenon DEF Dispatch, n, semVars, intVars
<1>5. ReadyListExact'
  BY <1>1, <1>2, <1>4, Zenon DEF PlacesInv, ReadyListExact
<1>6. QueuesExact'
  BY <1>2, <1>4 DEF PlacesInv, QueuesExact
<1>7. LocationsConsistent'
  BY <1>0, <1>2, <1>3, <1>4, Zenon DEF PlacesInv, LocationsConsistent
<1>8. CarcassDeletedByNext'
  BY <1>0, <1>2, <1>3, <1>4, ThreadsAssumption
     DEF PlacesInv, LocationsConsistent, CarcassDeletedByNext
<1>. QED  BY <1>5, <1>6, <1>7, <1>8, Zenon DEF PlacesInv

(* Semaphore::P finds the value zero: the thread, on no list so far, joins *)
(* the semaphore's queue.  If Run has just returned to it, it also deletes *)
(* a finished thread, which is on no list either.                          *)
LEMMA BlockInPStep ==
  ASSUME ThreadTypeOK, KernelTypeOK, PlacesInv,
         NEW t \in Thread, NEW s \in Sem,
         t = currentThread, status[t] = "RUNNING", machineStatus # "IdleMode",
         pc[t] # "finish",
         alive' = alive \ {toBeDestroyed}, toBeDestroyed' = NULL,
         queue' = [queue EXCEPT ![s] = Append(@, t)],
         status' = [status EXCEPT ![t] = "BLOCKED"],
         pc' = [pc EXCEPT ![t] = "inP"],
         waitingOn' = [waitingOn EXCEPT ![t] = s],
         UNCHANGED <<oldStatus, currentThread, readyList, machineStatus>>
  PROVE  PlacesInv'
<1> USE ThreadsAssumption DEF ThreadTypeOK, KernelTypeOK
<1>0. /\ t \in alive /\ t # toBeDestroyed
      /\ toBeDestroyed # NULL => /\ toBeDestroyed \in Thread
                                /\ status[toBeDestroyed] = "BLOCKED"
                                /\ waitingOn[toBeDestroyed] = NULL
      /\ \A r \in Sem : ~InSeq(t, queue[r])
  BY DEF PlacesInv, CarcassDeletedByNext, QueuesExact
<1>1. /\ Distinct(queue'[s])
      /\ \A y : InSeq(y, queue'[s]) <=> InSeq(y, queue[s]) \/ y = t
  BY <1>0, AppendMembers DEF PlacesInv, QueuesExact
<1>2. \A r \in Sem \ {s} : queue'[r] = queue[r]
  BY Zenon
<1>3. /\ \A u \in Thread \ {t} :
           status'[u] = status[u] /\ pc'[u] = pc[u] /\ waitingOn'[u] = waitingOn[u]
      /\ status'[t] = "BLOCKED" /\ pc'[t] = "inP" /\ waitingOn'[t] = s
      /\ s # NULL /\ t # NULL /\ alive \subseteq Thread
  BY Zenon
<1> HIDE DEF ThreadTypeOK, KernelTypeOK
<1>4. ReadyListExact'
  BY <1>0, <1>3 DEF PlacesInv, ReadyListExact
<1>5. QueuesExact'
  <2>1. \A r \in Sem : Distinct(queue'[r])
    BY <1>1, <1>2, Zenon DEF PlacesInv, QueuesExact
  <2>2. ASSUME NEW r \in Sem, NEW u \in Thread
        PROVE  InSeq(u, queue'[r]) <=> /\ u \in alive' /\ status'[u] = "BLOCKED"
                                       /\ waitingOn'[u] = r
    <3>1. CASE u = t
      BY <1>0, <1>1, <1>2, <1>3, <3>1
    <3>2. CASE u # t
      <4>1. InSeq(u, queue'[r]) <=> InSeq(u, queue[r])
        BY <1>1, <1>2, <3>2, Zenon
      <4>2. InSeq(u, queue[r]) <=> u \in alive /\ status[u] = "BLOCKED" /\ waitingOn[u] = r
        BY Zenon DEF PlacesInv, QueuesExact
      <4>3. u = toBeDestroyed => waitingOn[u] # r
        BY <1>0, Zenon
      <4>. QED  BY <1>3, <3>2, <4>1, <4>2, <4>3, Zenon
    <3>. QED  BY <3>1, <3>2, Zenon
  <2>. QED  BY <2>1, <2>2, Zenon DEF QueuesExact
<1>6. LocationsConsistent'
  <2>1. ASSUME NEW u \in Thread \ alive'
        PROVE  waitingOn'[u] = NULL
    BY <1>0, <1>3 DEF PlacesInv, LocationsConsistent
  <2>2. ASSUME NEW u \in alive'
        PROVE  /\ status'[u] # "JUST_CREATED"
               /\ status'[u] = "RUNNING" => u = currentThread
               /\ pc'[u] \in {"run", "oneTick"} => status'[u] = "RUNNING"
               /\ pc'[u] \in {"begin", "inYield"} => status'[u] # "BLOCKED"
               /\ pc'[u] = "inP" <=> waitingOn'[u] # NULL
    BY <1>0, <1>3 DEF PlacesInv, LocationsConsistent
  <2>3. \A u \in Thread : oldStatus[u] # "IdleMode"
    BY Zenon DEF PlacesInv, LocationsConsistent
  <2>. QED  BY <2>1, <2>2, <2>3, Zenon DEF LocationsConsistent
<1>7. CarcassDeletedByNext'
  BY <1>0, <1>3 DEF PlacesInv, CarcassDeletedByNext
<1>. QED  BY <1>4, <1>5, <1>6, <1>7, Zenon DEF PlacesInv

(* Semaphore::P takes a unit of the value and returns.                     *)
LEMMA TakeInPStep ==
  ASSUME ThreadTypeOK, KernelTypeOK, PlacesInv,
         NEW t \in Thread, NEW x \in {"run", "oneTick"},
         t = currentThread, status[t] = "RUNNING", machineStatus # "IdleMode",
         pc[t] # "finish",
         alive' = alive \ {toBeDestroyed}, toBeDestroyed' = NULL,
         pc' = [pc EXCEPT ![t] = x],
         waitingOn' = [waitingOn EXCEPT ![t] = NULL],
         UNCHANGED <<status, queue, oldStatus, currentThread, readyList,
                     machineStatus>>
  PROVE  PlacesInv'
<1> USE ThreadsAssumption DEF ThreadTypeOK, KernelTypeOK
<1>0. /\ t \in alive /\ t # toBeDestroyed
      /\ toBeDestroyed # NULL => /\ toBeDestroyed \in Thread
                                /\ status[toBeDestroyed] = "BLOCKED"
                                /\ waitingOn[toBeDestroyed] = NULL
  BY Zenon DEF PlacesInv, CarcassDeletedByNext
<1>1. /\ \A u \in Thread \ {t} : pc'[u] = pc[u] /\ waitingOn'[u] = waitingOn[u]
      /\ pc'[t] = x /\ waitingOn'[t] = NULL
      /\ NULL \notin Sem /\ t # NULL /\ alive \subseteq Thread
  BY Zenon
<1> HIDE DEF ThreadTypeOK, KernelTypeOK
<1>2. ReadyListExact'
  BY <1>0, Zenon DEF PlacesInv, ReadyListExact
<1>3. QueuesExact'
  <2>1. ASSUME NEW r \in Sem, NEW u \in Thread
        PROVE  InSeq(u, queue[r]) <=> /\ u \in alive' /\ status[u] = "BLOCKED"
                                      /\ waitingOn'[u] = r
    <3>1. InSeq(u, queue[r]) <=> u \in alive /\ status[u] = "BLOCKED" /\ waitingOn[u] = r
      BY Zenon DEF PlacesInv, QueuesExact
    <3>2. u = toBeDestroyed => waitingOn[u] # r
      BY <1>0, <1>1
    <3>. QED  BY <1>1, <3>1, <3>2, Zenon
  <2>2. \A r \in Sem : Distinct(queue[r])
    BY Zenon DEF PlacesInv, QueuesExact
  <2>. QED  BY <2>1, <2>2, Zenon DEF QueuesExact
<1>4. LocationsConsistent'
  <2>1. ASSUME NEW u \in Thread \ alive'
        PROVE  waitingOn'[u] = NULL
    BY <1>0, <1>1 DEF PlacesInv, LocationsConsistent
  <2>2. ASSUME NEW u \in alive'
        PROVE  /\ status[u] # "JUST_CREATED"
               /\ status[u] = "RUNNING" => u = currentThread
               /\ pc'[u] \in {"run", "oneTick"} => status[u] = "RUNNING"
               /\ pc'[u] \in {"begin", "inYield"} => status[u] # "BLOCKED"
               /\ pc'[u] = "inP" <=> waitingOn'[u] # NULL
    BY <1>0, <1>1 DEF PlacesInv, LocationsConsistent
  <2>3. \A u \in Thread : oldStatus[u] # "IdleMode"
    BY Zenon DEF PlacesInv, LocationsConsistent
  <2>. QED  BY <2>1, <2>2, <2>3, Zenon DEF LocationsConsistent
<1>5. CarcassDeletedByNext'
  BY <1>0, <1>1 DEF PlacesInv, CarcassDeletedByNext
<1>. QED  BY <1>2, <1>3, <1>4, <1>5, Zenon DEF PlacesInv

(* Semaphore::V, by a thread or a handler, moves the first waiter from the *)
(* semaphore's queue to the ready list.                                    *)
LEMMA DoVStep ==
  ASSUME ThreadTypeOK, KernelTypeOK, PlacesInv, NEW s \in Sem, DoV(s),
         UNCHANGED <<alive, waitingOn, oldStatus, currentThread,
                     toBeDestroyed, machineStatus>>,
         \/ UNCHANGED pc
         \/ /\ pc[currentThread] = "run"
            /\ \E x \in {"run", "oneTick"} :
                 pc' = [pc EXCEPT ![currentThread] = x]
  PROVE  PlacesInv'
<1> USE ThreadsAssumption DEF ThreadTypeOK, KernelTypeOK
<1>1. CASE queue[s] = << >>
  <2>1. UNCHANGED <<queue, status, readyList>>
    BY <1>1, Zenon DEF DoV
  <2>2. CASE UNCHANGED pc
    <3>1. ReadyListExact' /\ QueuesExact'
      BY <2>1, <2>2, Zenon DEF PlacesInv, ReadyListExact, QueuesExact
    <3>2. LocationsConsistent' /\ CarcassDeletedByNext'
      BY <2>1, <2>2, Zenon DEF PlacesInv, LocationsConsistent, CarcassDeletedByNext
    <3>. QED  BY <3>1, <3>2, Zenon DEF PlacesInv
  <2>3. CASE ~UNCHANGED pc
    <3>1. machineStatus # "IdleMode" /\ \A t \in Thread : oldStatus[t] # "IdleMode"
      BY <2>3, Zenon DEF PlacesInv, LocationsConsistent
    <3>. QED  BY <2>1, <2>3, <3>1, LocalStep, Zenon
  <2>. QED  BY <2>2, <2>3, Zenon
<1>2. CASE queue[s] # << >>
  <2> DEFINE n == Head(queue[s])
  <2>1. /\ n \in Thread /\ InSeq(n, queue[s])
        /\ Distinct(Tail(queue[s]))
        /\ \A y : InSeq(y, Tail(queue[s])) <=> InSeq(y, queue[s]) /\ y # n
    BY <1>2, TailMembers DEF PlacesInv, QueuesExact
  <2>2. n \in alive /\ status[n] = "BLOCKED" /\ waitingOn[n] = s
    BY <2>1, Zenon DEF PlacesInv, QueuesExact
  <2>3. /\ Distinct(readyList')
        /\ \A y : InSeq(y, readyList') <=> InSeq(y, readyList) \/ y = n
    <3>1. ~InSeq(n, readyList) /\ Distinct(readyList)
      BY <2>1, <2>2, Zenon DEF PlacesInv, ReadyListExact
    <3>2. readyList' = Append(readyList, n)
      BY <1>2, Zenon DEF DoV
    <3>. QED
      BY <2>1, <3>1, <3>2, AppendMembers
  <2>4. /\ queue' = [queue EXCEPT ![s] = Tail(queue[s])]
        /\ status' = [status EXCEPT ![n] = "READY"]
    BY <1>2, Zenon DEF DoV
  <2> HIDE DEF n
  <2>5. pc[n] = "inP" /\ pc'[n] = "inP"
    BY <2>2, Zenon DEF PlacesInv, LocationsConsistent
  <2>6. ReadyListExact'
    BY <2>1, <2>2, <2>3, <2>4, Zenon DEF PlacesInv, ReadyListExact
  <2>7. QueuesExact'
    <3>1. \A r \in Sem : Distinct(queue'[r])
      BY <2>1, <2>4 DEF PlacesInv, QueuesExact
    <3>2. ASSUME NEW r \in Sem, NEW u \in Thread
          PROVE  InSeq(u, queue'[r]) <=> /\ u \in alive /\ status'[u] = "BLOCKED"
                                         /\ waitingOn[u] = r
      <4>1. CASE u = n
        BY <2>1, <2>2, <2>4, <4>1 DEF PlacesInv, QueuesExact
      <4>2. CASE u # n
        <5>1. InSeq(u, queue'[r]) <=> InSeq(u, queue[r])
          BY <2>1, <2>4, <4>2, Zenon
        <5>2. status'[u] = status[u]
          BY <2>4, <4>2, Zenon
        <5>. QED  BY <5>1, <5>2 DEF PlacesInv, QueuesExact
      <4>. QED  BY <4>1, <4>2, Zenon
    <3>. QED  BY <3>1, <3>2, Zenon DEF QueuesExact
  <2>8. \A u \in Thread :
          /\ status'[u] = IF u = n THEN "READY" ELSE status[u]
          /\ \/ pc'[u] = pc[u]
             \/ u = currentThread /\ pc[u] = "run" /\ pc'[u] \in {"run", "oneTick"}
    BY <2>1, <2>4
  <2>9. n # toBeDestroyed /\ alive \subseteq Thread
    BY <2>1, <2>2, <2>5 DEF PlacesInv, CarcassDeletedByNext
  <2> HIDE DEF ThreadTypeOK, KernelTypeOK
  <2>10. LocationsConsistent'
    <3>1. ASSUME NEW u \in alive
          PROVE  /\ status'[u] # "JUST_CREATED"
                 /\ status'[u] = "RUNNING" => u = currentThread
                 /\ pc'[u] \in {"run", "oneTick"} => status'[u] = "RUNNING"
                 /\ pc'[u] \in {"begin", "inYield"} => status'[u] # "BLOCKED"
                 /\ pc'[u] = "inP" <=> waitingOn[u] # NULL
      BY <2>5, <2>8, <2>9 DEF PlacesInv, LocationsConsistent
    <3>2. machineStatus = "IdleMode" =>
            pc'[currentThread] \in {"inP", "finish"} /\ status'[currentThread] # "RUNNING"
      BY <2>8, <2>9, Zenon DEF PlacesInv, LocationsConsistent, CarcassDeletedByNext
    <3>3. /\ \A u \in Thread \ alive : waitingOn[u] = NULL
          /\ \A u \in Thread : oldStatus[u] # "IdleMode"
      BY Zenon DEF PlacesInv, LocationsConsistent
    <3>. QED  BY <3>1, <3>2, <3>3, Zenon DEF LocationsConsistent
  <2>11. CarcassDeletedByNext'
    <3>1. ASSUME NEW u \in alive
          PROVE  /\ pc'[u] = "finish" <=> pc[u] = "finish"
                 /\ status'[u] = "BLOCKED" /\ waitingOn[u] = NULL <=>
                      status[u] = "BLOCKED" /\ waitingOn[u] = NULL
                 /\ status[u] = "RUNNING" => status'[u] = "RUNNING"
                 /\ pc[u] # "run" => pc'[u] = pc[u]
      BY <2>2, <2>8, <2>9, ThreadsAssumption, Zenon DEF KernelTypeOK
    <3>. QED  BY <3>1, Zenon DEF PlacesInv, CarcassDeletedByNext
  <2>. QED  BY <2>6, <2>7, <2>10, <2>11, Zenon DEF PlacesInv
<1>. QED  BY <1>1, <1>2, Zenon

(* SetLevel leaves the thread in its own code or in OneTick.               *)
LEMMA SetLevelPc ==
  ASSUME NEW t, NEW old, SetLevel(t, old)
  PROVE  \E x \in {"run", "oneTick"} : pc' = [pc EXCEPT ![t] = x]
BY Zenon DEF SetLevel

-----------------------------------------------------------------------------
(* The initial state is well typed.                                        *)
LEMMA InitTypeOK == Init => TypeOK
<1>1. Init => ThreadTypeOK /\ KernelTypeOK
  BY ThreadsAssumption DEF Init, ThreadTypeOK, KernelTypeOK, ThreadStatus,
     IntStatus, MachineStatus, Location
<1>2. Init => yieldOnReturn \in BOOLEAN
  BY Zenon DEF Init
<1>. QED  BY <1>1, <1>2, Zenon DEF TypeOK

(* SetLevel keeps the types of what it writes.                             *)
LEMMA SetLevelType ==
  ASSUME ThreadTypeOK, KernelTypeOK,
         NEW t \in Thread, NEW old \in IntStatus, SetLevel(t, old)
  PROVE  /\ pc' \in [Thread -> Location]
         /\ level' \in IntStatus
         /\ timer' \in Int
<1>1. timer - SystemTick \in Int /\ timer - UserTick \in Int
  BY ThreadsAssumption DEF KernelTypeOK
<1>2. timer' \in Int
  BY <1>1, Zenon DEF SetLevel, KernelTypeOK
<1>. QED
  BY <1>2, Zenon DEF SetLevel, ThreadTypeOK, Location, IntStatus

(* The switch in Yield keeps the types.                                    *)
LEMMA SwitchInYieldType ==
  ASSUME ThreadTypeOK, KernelTypeOK, NEW t \in Thread, SwitchInYield(t)
  PROVE  /\ currentThread' \in Thread
         /\ readyList' \in Seq(Thread)
         /\ status' \in [Thread -> ThreadStatus]
         /\ pc' \in [Thread -> Location]
         /\ level' \in IntStatus
         /\ timer' \in Int
BY SMTT(30) DEF SwitchInYield, ThreadTypeOK, KernelTypeOK, ThreadStatus, Location,
       IntStatus

(* A round of the loop in P keeps the types: it decrements the value only  *)
(* if it is positive.                                                      *)
LEMMA TryPType ==
  ASSUME ThreadTypeOK, KernelTypeOK,
         NEW t \in Thread, NEW s \in Sem, NEW old \in IntStatus,
         TryP(t, s, old)
  PROVE  /\ queue' \in [Sem -> Seq(Thread)]
         /\ value' \in [Sem -> Nat]
         /\ status' \in [Thread -> ThreadStatus]
         /\ pc' \in [Thread -> Location]
         /\ waitingOn' \in [Thread -> Sem \cup {NULL}]
         /\ level' \in IntStatus
         /\ timer' \in Int
<1>1. CASE value[s] = 0
  <2>1. Append(queue[s], t) \in Seq(Thread)
    BY AppendMembers, Zenon DEF KernelTypeOK
  <2>2. /\ queue' = [queue EXCEPT ![s] = Append(queue[s], t)]
        /\ status' = [status EXCEPT ![t] = "BLOCKED"]
        /\ pc' = [pc EXCEPT ![t] = "inP"]
        /\ waitingOn' = [waitingOn EXCEPT ![t] = s]
        /\ level' = "IntOff"
        /\ UNCHANGED <<value, timer>>
    BY <1>1 DEF TryP
  <2>. QED
    BY <2>1, <2>2, Zenon DEF ThreadTypeOK, KernelTypeOK, ThreadStatus, Location,
                      IntStatus
<1>2. CASE value[s] > 0
  <2>1. /\ value' = [value EXCEPT ![s] = @ - 1]
        /\ waitingOn' = [waitingOn EXCEPT ![t] = NULL]
        /\ SetLevel(t, old)
        /\ UNCHANGED <<queue, status>>
    BY <1>2 DEF TryP
  <2>. QED
    BY <1>2, <2>1, SetLevelType DEF ThreadTypeOK, KernelTypeOK
<1>. QED  BY <1>1, <1>2, Zenon DEF TryP

(* V keeps the types.                                                      *)
LEMMA DoVType ==
  ASSUME ThreadTypeOK, KernelTypeOK, NEW s \in Sem, DoV(s)
  PROVE  /\ queue' \in [Sem -> Seq(Thread)]
         /\ value' \in [Sem -> Nat]
         /\ status' \in [Thread -> ThreadStatus]
         /\ readyList' \in Seq(Thread)
<1>1. value' \in [Sem -> Nat]
  BY DEF DoV, KernelTypeOK
<1>2. CASE queue[s] = << >>
  BY <1>1, <1>2, Zenon DEF DoV, ThreadTypeOK, KernelTypeOK
<1>3. CASE queue[s] # << >>
  <2>1. /\ Tail(queue[s]) \in Seq(Thread)
        /\ Head(queue[s]) \in Thread
    BY <1>3, TailMembers, Zenon DEF KernelTypeOK
  <2>2. Append(readyList, Head(queue[s])) \in Seq(Thread)
    BY <2>1, AppendMembers, Zenon DEF KernelTypeOK
  <2>3. /\ queue' = [queue EXCEPT ![s] = Tail(queue[s])]
        /\ status' = [status EXCEPT ![Head(queue[s])] = "READY"]
        /\ readyList' = Append(readyList, Head(queue[s]))
    BY <1>3, Zenon DEF DoV
  <2>. QED
    BY <1>1, <2>1, <2>2, <2>3, Zenon DEF ThreadTypeOK, KernelTypeOK, ThreadStatus
<1>. QED  BY <1>2, <1>3, Zenon

(* Every step keeps the types.  A thread returning from Sleep uses the     *)
(* semaphore it went to sleep on, which LocationsConsistent provides.      *)
LEMMA NextTypeOK ==
  ASSUME TypeOK, LocationsConsistent, CarcassDeletedByNext, [Next]_vars
  PROVE  TypeOK'
<1>0. ThreadTypeOK /\ KernelTypeOK
  BY Zenon DEF TypeOK
<1>1. SUFFICES ThreadTypeOK' /\ KernelTypeOK'
  <2>1. yieldOnReturn' \in BOOLEAN
    BY ZenonT(30)
       DEF TypeOK, Next, vars, threadVars, schedVars, semVars, intVars,
       ThreadStep, Enable, Begin, Finish, Yield, ReturnFromYield, Dispatch,
       ReturnFromSleep, Idle, ReturnFromOneTick, YieldInOneTick,
       RunUserProgram, OneInstruction, Fork, P, V, DeviceInterrupt,
       TimerInterrupt, ReturnFromIdle
  <2>. QED  BY <2>1, Zenon DEF TypeOK
<1> USE <1>0, ThreadsAssumption DEF ThreadStatus, IntStatus, MachineStatus,
        Location, threadVars, schedVars, semVars, intVars
<1> HIDE DEF TypeOK
<1>2. ASSUME NEW t \in Thread, Enable(t)
      PROVE  ThreadTypeOK' /\ KernelTypeOK'
  BY <1>2, SetLevelType, Zenon DEF Enable, ThreadTypeOK, KernelTypeOK
<1>3. ASSUME NEW t \in Thread, Begin(t)
      PROVE  ThreadTypeOK' /\ KernelTypeOK'
  BY <1>3, SetLevelType, Zenon
     DEF Begin, CheckToBeDestroyed, ThreadTypeOK, KernelTypeOK
<1>4. ASSUME NEW t \in Thread, Finish(t)
      PROVE  ThreadTypeOK' /\ KernelTypeOK'
  BY <1>4, Zenon DEF Finish, ThreadTypeOK, KernelTypeOK
<1>5. ASSUME NEW t \in Thread, Yield(t)
      PROVE  ThreadTypeOK' /\ KernelTypeOK'
  <2>1. CASE SwitchInYield(t)
    BY <1>5, <2>1, SwitchInYieldType, Zenon DEF Yield, ThreadTypeOK, KernelTypeOK
  <2>2. CASE SetLevel(t, level) /\ UNCHANGED <<status, currentThread, readyList>>
    BY <1>5, <2>2, SetLevelType DEF Yield, ThreadTypeOK, KernelTypeOK
  <2>. QED  BY <1>5, <2>1, <2>2, Zenon DEF Yield
<1>6. ASSUME NEW t \in Thread, ReturnFromYield(t)
      PROVE  ThreadTypeOK' /\ KernelTypeOK'
  <2>1. oldLevel[t] \in IntStatus
    BY Zenon DEF ThreadTypeOK
  <2>. QED
    BY <1>6, <2>1, SetLevelType
       DEF ReturnFromYield, CheckToBeDestroyed, ThreadTypeOK, KernelTypeOK
<1>7. ASSUME NEW t \in Thread, Dispatch(t)
      PROVE  ThreadTypeOK' /\ KernelTypeOK'
  <2>1. Head(readyList) \in Thread /\ Tail(readyList) \in Seq(Thread)
    BY <1>7, TailMembers, Zenon DEF Dispatch, KernelTypeOK
  <2>. QED
    BY <1>7, <2>1, Zenon DEF Dispatch, ThreadTypeOK, KernelTypeOK
<1>8. ASSUME NEW t \in Thread, ReturnFromSleep(t)
      PROVE  ThreadTypeOK' /\ KernelTypeOK'
  <2>1. waitingOn[t] \in Sem /\ oldLevel[t] \in IntStatus
    BY <1>8, Zenon DEF ReturnFromSleep, Resumed, LocationsConsistent,
                CarcassDeletedByNext, ThreadTypeOK
  <2>. QED
    BY <1>8, <2>1, TryPType
       DEF ReturnFromSleep, CheckToBeDestroyed, ThreadTypeOK, KernelTypeOK
<1>9. ASSUME NEW t \in Thread, Idle(t)
      PROVE  ThreadTypeOK' /\ KernelTypeOK'
  BY <1>9 DEF Idle, ThreadTypeOK, KernelTypeOK
<1>10. ASSUME NEW t \in Thread, ReturnFromOneTick(t)
       PROVE  ThreadTypeOK' /\ KernelTypeOK'
  BY <1>10, Zenon DEF ReturnFromOneTick, ThreadTypeOK, KernelTypeOK
<1>11. ASSUME NEW t \in Thread, YieldInOneTick(t)
       PROVE  ThreadTypeOK' /\ KernelTypeOK'
  <2>1. CASE SwitchInYield(t)
    BY <1>11, <2>1, SwitchInYieldType, ZenonT(30)
       DEF YieldInOneTick, ThreadTypeOK, KernelTypeOK
  <2>2. CASE /\ timer' = timer - SystemTick
             /\ UNCHANGED <<level, pc, status, currentThread, readyList>>
    BY <1>11, <2>2 DEF YieldInOneTick, ThreadTypeOK, KernelTypeOK
  <2>. QED  BY <1>11, <2>1, <2>2, Zenon DEF YieldInOneTick
<1>12. ASSUME NEW t \in Thread, RunUserProgram(t)
       PROVE  ThreadTypeOK' /\ KernelTypeOK'
  BY <1>12, Zenon DEF RunUserProgram, ThreadTypeOK, KernelTypeOK
<1>13. ASSUME NEW t \in Thread, OneInstruction(t)
       PROVE  ThreadTypeOK' /\ KernelTypeOK'
  BY <1>13, SetLevelType, Zenon DEF OneInstruction, ThreadTypeOK, KernelTypeOK
<1>14. ASSUME NEW t \in Thread, NEW u \in Thread, Fork(t, u)
       PROVE  ThreadTypeOK' /\ KernelTypeOK'
  <2>1. Append(readyList, u) \in Seq(Thread)
    BY AppendMembers, Zenon DEF KernelTypeOK
  <2>2. ThreadTypeOK'
    BY <1>14, Zenon DEF Fork, ThreadTypeOK
  <2>3. timer - SystemTick \in Int
    BY DEF KernelTypeOK
  <2>4. KernelTypeOK'
    BY <1>14, <2>1, <2>3, ZenonT(30) DEF Fork, KernelTypeOK
  <2>. QED  BY <2>2, <2>4, Zenon
<1>15. ASSUME NEW t \in Thread, NEW s \in Sem, P(t, s)
       PROVE  ThreadTypeOK' /\ KernelTypeOK'
  BY <1>15, TryPType DEF P, ThreadTypeOK, KernelTypeOK
<1>16. ASSUME NEW t \in Thread, NEW s \in Sem, V(t, s)
       PROVE  ThreadTypeOK' /\ KernelTypeOK'
  <2>1. /\ queue' \in [Sem -> Seq(Thread)] /\ value' \in [Sem -> Nat]
        /\ status' \in [Thread -> ThreadStatus] /\ readyList' \in Seq(Thread)
    BY <1>16, DoVType, Zenon DEF V
  <2>2. level \in IntStatus
    BY Zenon DEF KernelTypeOK
  <2>3. pc' \in [Thread -> Location] /\ level' \in IntStatus /\ timer' \in Int
    BY <1>16, <2>2, SetLevelType, Zenon DEF V
  <2>4. ThreadTypeOK'
    BY <1>16, <2>1, <2>3, Zenon DEF V, ThreadTypeOK
  <2>5. KernelTypeOK'
    BY <1>16, <2>1, <2>3, Zenon DEF V, KernelTypeOK
  <2>. QED  BY <2>4, <2>5, Zenon
<1>17. ASSUME NEW s \in DeviceSem, DeviceInterrupt(s)
       PROVE  ThreadTypeOK' /\ KernelTypeOK'
  BY <1>17, DoVType, Zenon DEF DeviceInterrupt, ThreadTypeOK, KernelTypeOK
<1>18. ASSUME TimerInterrupt
       PROVE  ThreadTypeOK' /\ KernelTypeOK'
  BY <1>18 DEF TimerInterrupt, ThreadTypeOK, KernelTypeOK
<1>19. ASSUME ReturnFromIdle
       PROVE  ThreadTypeOK' /\ KernelTypeOK'
  BY <1>19, Zenon DEF ReturnFromIdle, ThreadTypeOK, KernelTypeOK
<1>20. CASE UNCHANGED vars
  BY <1>20, Zenon DEF vars, ThreadTypeOK, KernelTypeOK
<1>. QED
  BY <1>2, <1>3, <1>4, <1>5, <1>6, <1>7, <1>8, <1>9, <1>10, <1>11, <1>12,
     <1>13, <1>14, <1>15, <1>16, <1>17, <1>18, <1>19, <1>20, ZenonT(30)
     DEF Next, ThreadStep

-----------------------------------------------------------------------------
(* Every step, by one thread or by a handler, preserves the invariant.     *)
LEMMA NextPlacesInv ==
  ASSUME ThreadTypeOK, KernelTypeOK, PlacesInv, [Next]_vars
  PROVE  PlacesInv'
<1> USE DEF threadVars, schedVars, semVars, intVars
<1>0. /\ currentThread \in alive /\ alive \subseteq Thread
      /\ pc[currentThread] \in {"run", "oneTick"} =>
           /\ status[currentThread] = "RUNNING"
           /\ machineStatus # "IdleMode"
           /\ toBeDestroyed = NULL
      /\ \A t \in Thread : oldStatus[t] # "IdleMode"
      /\ status[currentThread] = "RUNNING" => machineStatus # "IdleMode"
  BY Zenon DEF PlacesInv, CarcassDeletedByNext, LocationsConsistent, ThreadTypeOK
<1>1. ASSUME NEW t \in Thread, Enable(t)
      PROVE  PlacesInv'
  BY <1>0, <1>1, SetLevelPc, LocalStep, Zenon DEF Enable, InKernelCode, InOwnCode
<1>2. ASSUME NEW t \in Thread, Begin(t)
      PROVE  PlacesInv'
  BY <1>2, SetLevelPc, ResumeStep, Zenon DEF Begin, Resumed
<1>3. ASSUME NEW t \in Thread, Finish(t)
      PROVE  PlacesInv'
  BY <1>3, FinishStep, Zenon
<1>4. ASSUME NEW t \in Thread, Yield(t)
      PROVE  PlacesInv'
  <2>1. CASE SwitchInYield(t)
    BY <1>0, <1>4, <2>1, SwitchInYieldStep, Zenon DEF Yield, InKernelCode, InOwnCode
  <2>2. CASE SetLevel(t, level) /\ UNCHANGED <<status, currentThread, readyList>>
    BY <1>0, <1>4, <2>2, SetLevelPc, LocalStep, Zenon
       DEF Yield, InKernelCode, InOwnCode
  <2>. QED  BY <1>4, <2>1, <2>2, Zenon DEF Yield
<1>5. ASSUME NEW t \in Thread, ReturnFromYield(t)
      PROVE  PlacesInv'
  BY <1>5, SetLevelPc, ResumeStep, Zenon DEF ReturnFromYield, Resumed
<1>6. ASSUME NEW t \in Thread, Dispatch(t)
      PROVE  PlacesInv'
  BY <1>6, DispatchStep, Zenon
<1>7. ASSUME NEW t \in Thread, NEW s \in Sem, NEW old \in IntStatus,
             TryP(t, s, old), t = currentThread, status[t] = "RUNNING",
             pc[t] # "finish",
             alive' = alive \ {toBeDestroyed}, toBeDestroyed' = NULL,
             UNCHANGED <<oldStatus, currentThread, readyList, machineStatus>>
      PROVE  PlacesInv'
  <2>0. machineStatus # "IdleMode"
    BY <1>0, <1>7, Zenon
  <2>1. CASE value[s] = 0
    <3>1. /\ queue' = [queue EXCEPT ![s] = Append(queue[s], t)]
          /\ status' = [status EXCEPT ![t] = "BLOCKED"]
          /\ pc' = [pc EXCEPT ![t] = "inP"]
          /\ waitingOn' = [waitingOn EXCEPT ![t] = s]
      BY <1>7, <2>1 DEF TryP
    <3>. QED  BY <1>7, <2>0, <3>1, BlockInPStep, Zenon
  <2>2. CASE value[s] > 0
    <3>1. /\ waitingOn' = [waitingOn EXCEPT ![t] = NULL]
          /\ SetLevel(t, old)
          /\ UNCHANGED <<status, queue>>
      BY <1>7, <2>2 DEF TryP
    <3>2. PICK x \in {"run", "oneTick"} : pc' = [pc EXCEPT ![t] = x]
      BY <3>1, SetLevelPc, Zenon
    <3>. QED  BY <1>7, <2>0, <3>1, <3>2, TakeInPStep, Zenon
  <2>. QED  BY <1>7, <2>1, <2>2, Zenon DEF TryP
<1>8. ASSUME NEW t \in Thread, ReturnFromSleep(t)
      PROVE  PlacesInv'
  <2>1. waitingOn[t] \in Sem /\ oldLevel[t] \in IntStatus
    BY <1>0, <1>8, Zenon DEF ReturnFromSleep, Resumed, PlacesInv,
                      LocationsConsistent, ThreadTypeOK
  <2>. QED
    BY <1>7, <1>8, <2>1, Zenon DEF ReturnFromSleep, Resumed, CheckToBeDestroyed
<1>9. ASSUME NEW t \in Thread, NEW s \in Sem, P(t, s)
      PROVE  PlacesInv'
  <2>1. t = currentThread /\ pc[t] = "run"
    BY <1>9, Zenon DEF P, InKernelCode, InOwnCode
  <2>2. alive' = alive \ {toBeDestroyed} /\ toBeDestroyed' = NULL
    BY <1>0, <1>9, <2>1, ThreadsAssumption, ZenonT(30) DEF P
  <2>. QED
    BY <1>0, <1>7, <1>9, <2>1, <2>2, Zenon DEF P, KernelTypeOK
<1>10. ASSUME NEW t \in Thread, Idle(t)
       PROVE  PlacesInv'
  BY <1>10 DEF Idle, InSleep, PlacesInv, LocationsConsistent,
               CarcassDeletedByNext, ReadyListExact, QueuesExact
<1>11. ASSUME NEW t \in Thread, ReturnFromOneTick(t)
       PROVE  PlacesInv'
  <2>1. /\ machineStatus' # "IdleMode"
        /\ \A u \in Thread : oldStatus'[u] # "IdleMode"
    BY <1>0, <1>11, ThreadsAssumption, Zenon
       DEF ReturnFromOneTick, ThreadTypeOK, MachineStatus
  <2>. QED
    BY <1>0, <1>11, <2>1, LocalStep, Zenon DEF ReturnFromOneTick
<1>12. ASSUME NEW t \in Thread, YieldInOneTick(t)
       PROVE  PlacesInv'
  <2>1. /\ machineStatus' # "IdleMode"
        /\ \A u \in Thread : oldStatus'[u] # "IdleMode"
    BY <1>0, <1>12, Zenon DEF YieldInOneTick, ThreadTypeOK
  <2>2. CASE SwitchInYield(t)
    BY <1>0, <1>12, <2>1, <2>2, SwitchInYieldStep, Zenon DEF YieldInOneTick
  <2>3. CASE UNCHANGED <<level, pc, status, currentThread, readyList>>
    <3>1. pc' = [pc EXCEPT ![currentThread] = "oneTick"]
      BY <1>12, <2>3, Zenon DEF YieldInOneTick, ThreadTypeOK
    <3>. QED
      BY <1>0, <1>12, <2>1, <2>3, <3>1, LocalStep, Zenon DEF YieldInOneTick
  <2>. QED  BY <1>12, <2>2, <2>3, Zenon DEF YieldInOneTick
<1>13. ASSUME NEW t \in Thread, RunUserProgram(t)
       PROVE  PlacesInv'
  <2>1. pc' = [pc EXCEPT ![currentThread] = "run"]
    BY <1>13, Zenon DEF RunUserProgram, InKernelCode, InOwnCode, ThreadTypeOK
  <2>. QED
    BY <1>0, <1>13, <2>1, LocalStep, Zenon
       DEF RunUserProgram, InKernelCode, InOwnCode
<1>14. ASSUME NEW t \in Thread, OneInstruction(t)
       PROVE  PlacesInv'
  BY <1>0, <1>14, SetLevelPc, LocalStep, Zenon DEF OneInstruction, InOwnCode
<1>15. ASSUME NEW t \in Thread, NEW s \in Sem, V(t, s)
       PROVE  PlacesInv'
  BY <1>15, SetLevelPc, DoVStep, Zenon DEF V, InKernelCode, InOwnCode
<1>16. ASSUME NEW s \in DeviceSem, DeviceInterrupt(s)
       PROVE  PlacesInv'
  BY <1>16, DoVStep, ThreadsAssumption, Zenon DEF DeviceInterrupt
<1>17. CASE TimerInterrupt \/ UNCHANGED vars
  <2>1. UNCHANGED <<alive, status, pc, oldStatus, waitingOn, currentThread,
                    readyList, toBeDestroyed, queue, machineStatus>>
    BY <1>17, Zenon DEF TimerInterrupt, vars, threadVars, schedVars, semVars, intVars
  <2>2. ReadyListExact' /\ QueuesExact'
    BY <2>1, Zenon DEF PlacesInv, ReadyListExact, QueuesExact
  <2>3. LocationsConsistent' /\ CarcassDeletedByNext'
    BY <2>1, ZenonT(30) DEF PlacesInv, LocationsConsistent, CarcassDeletedByNext
  <2>. QED  BY <2>2, <2>3, Zenon DEF PlacesInv
<1>18. CASE ReturnFromIdle
  BY <1>18 DEF ReturnFromIdle, PlacesInv, LocationsConsistent,
               CarcassDeletedByNext, ReadyListExact, QueuesExact
<1>. QED
  BY <1>1, <1>2, <1>3, <1>4, <1>5, <1>6, <1>8, <1>9, <1>10, <1>11, <1>12,
     <1>13, <1>14, <1>15, <1>16, <1>17, <1>18, ForkStep, ZenonT(30) DEF Next, ThreadStep

(* The invariant and the types are inductive together.                     *)
LEMMA Places == Spec => [](TypeOK /\ PlacesInv)
<1>1. Init => TypeOK /\ PlacesInv
  BY InitTypeOK, InitPlacesInv, Zenon
<1>2. TypeOK /\ PlacesInv /\ [Next]_vars => (TypeOK /\ PlacesInv)'
  <2> SUFFICES ASSUME TypeOK, PlacesInv, [Next]_vars
               PROVE  (TypeOK /\ PlacesInv)'
    BY Zenon
  <2>1. TypeOK'
    BY NextTypeOK, Zenon DEF PlacesInv
  <2>2. PlacesInv'
    BY NextPlacesInv, Zenon DEF TypeOK
  <2>. QED  BY <2>1, <2>2, Zenon
<1>. QED  BY <1>1, <1>2, PTL DEF Spec

(* Types are kept for every number of threads and semaphores: a semaphore  *)
(* value stays a natural number although P decrements it after a sleep.    *)
THEOREM TypeCorrect == Spec => []TypeOK
BY Places, PTL

(* The ready list is exact after any interleaving of Fork, Yield, P, V and *)
(* interrupts: no thread is queued twice by ReadyToRun, none is forgotten. *)
THEOREM ReadyListCorrect == Spec => []ReadyListExact
<1>1. PlacesInv => ReadyListExact
  BY Zenon DEF PlacesInv
<1>. QED  BY <1>1, Places, PTL

(* The queue of every semaphore holds exactly the threads asleep in its P. *)
THEOREM QueuesCorrect == Spec => []QueuesExact
<1>1. PlacesInv => QueuesExact
  BY Zenon DEF PlacesInv
<1>. QED  BY <1>1, Places, PTL

(* Finished threads are deleted by the thread that runs next, never while  *)
(* they are on the CPU: the ASSERTs about toBeDestroyed always hold.       *)
THEOREM CarcassCorrect == Spec => []CarcassDeletedByNext
<1>1. PlacesInv => CarcassDeletedByNext
  BY Zenon DEF PlacesInv
<1>. QED  BY <1>1, Places, PTL

-----------------------------------------------------------------------------
(* A step that leaves a semaphore's value, queue and woken threads alone   *)
(* loses no wakeup.                                                        *)
LEMMA WokenStable ==
  ASSUME NoLostWakeup, UNCHANGED <<value, queue>>,
         \A s \in Sem : Woken(s)' = Woken(s)
  PROVE  NoLostWakeup'
BY Zenon DEF NoLostWakeup

(* The woken threads are finitely many.                                    *)
LEMMA WokenFinite ==
  ASSUME ThreadTypeOK, NEW s \in Sem
  PROVE  /\ IsFiniteSet(Woken(s)) /\ Cardinality(Woken(s)) \in Nat
<1>1. Woken(s) \subseteq Thread
  BY Zenon DEF Woken, ThreadTypeOK
<1>. QED  BY <1>1, FS_Subset, FS_CardinalityType, ThreadsAssumption, Zenon

(* One round of the loop in P.  If it blocks, the value is zero; if it     *)
(* takes a unit, at most one thread stops being on its way to it.          *)
LEMMA TryPWakeup ==
  ASSUME ThreadTypeOK, KernelTypeOK, PlacesInv, NoLostWakeup,
         NEW t \in Thread, NEW s \in Sem, NEW old, TryP(t, s, old),
         t \in alive, waitingOn[t] \in {s, NULL}, status[t] = "RUNNING",
         alive' = alive \ {toBeDestroyed}
  PROVE  NoLostWakeup'
<1> USE ThreadsAssumption DEF ThreadTypeOK, KernelTypeOK
<1>0. toBeDestroyed # NULL => /\ toBeDestroyed # t
                             /\ waitingOn[toBeDestroyed] = NULL
  BY Zenon DEF PlacesInv, CarcassDeletedByNext, LocationsConsistent
<1>1. ASSUME NEW r \in Sem, r # s, UNCHANGED <<value[r], queue[r]>>
      PROVE  queue'[r] # << >> => value'[r] <= Cardinality(Woken(r)')
  <2>1. Woken(r)' = Woken(r)
    BY <1>0, <1>1 DEF Woken, TryP
  <2>. QED  BY <1>1, <2>1, Zenon DEF NoLostWakeup
<1>2. \A r \in Sem \ {s} : UNCHANGED <<value[r], queue[r]>>
  BY DEF TryP
<1>3. queue'[s] # << >> => value'[s] <= Cardinality(Woken(s)')
  <2>0. Woken(s)' \subseteq Thread
    BY Zenon DEF Woken
  <2>1. CASE value[s] = 0
    <3>1. value'[s] = 0
      BY <2>1 DEF TryP
    <3>2. Cardinality(Woken(s)') \in Nat
      BY <2>0, FS_Subset, FS_CardinalityType, ZenonT(30)
    <3>. QED  BY <3>1, <3>2
  <2>2. CASE value[s] > 0
    <3>1. value'[s] = value[s] - 1 /\ queue'[s] = queue[s]
      BY <2>2 DEF TryP
    <3>2. Woken(s)' = Woken(s) \ {t}
      BY <1>0, <2>2 DEF Woken, TryP
    <3>3. Cardinality(Woken(s)') >= Cardinality(Woken(s)) - 1
      <4> DEFINE W == Woken(s)
      <4>1. IsFiniteSet(W) /\ Cardinality(W) \in Nat
        BY WokenFinite, Zenon
      <4> HIDE DEF W
      <4>2. Cardinality(W \ {t}) = IF t \in W THEN Cardinality(W) - 1
                                             ELSE Cardinality(W)
        BY <4>1, FS_RemoveElement, Zenon
      <4>3. Cardinality(W \ {t}) >= Cardinality(W) - 1
        BY <4>1, <4>2
      <4>. QED  BY <3>2, <4>3, Zenon DEF W
    <3>4. Cardinality(Woken(s)') \in Nat
      BY <2>0, FS_Subset, FS_CardinalityType, Zenon
    <3>. QED  BY <3>1, <3>3, <3>4, WokenFinite, SMTT(20) DEF NoLostWakeup
  <2>. QED  BY <2>1, <2>2
<1>. QED  BY <1>1, <1>2, <1>3, Zenon DEF NoLostWakeup

(* V adds one unit, and if threads are queued, one woken thread.           *)
LEMMA DoVWakeup ==
  ASSUME ThreadTypeOK, KernelTypeOK, PlacesInv, NoLostWakeup,
         NEW s \in Sem, DoV(s), UNCHANGED <<alive, waitingOn>>
  PROVE  NoLostWakeup'
<1> USE ThreadsAssumption DEF ThreadTypeOK, KernelTypeOK
<1>1. CASE queue[s] = << >>
  <2>1. UNCHANGED <<queue, status>> /\ \A r \in Sem \ {s} : value'[r] = value[r]
    BY <1>1, Zenon DEF DoV
  <2>2. \A r \in Sem : Woken(r)' = Woken(r)
    BY <2>1, Zenon DEF Woken
  <2>. QED  BY <1>1, <2>1, <2>2, Zenon DEF NoLostWakeup
<1>2. CASE queue[s] # << >>
  <2> DEFINE n == Head(queue[s])
  <2>1. n \in alive /\ status[n] = "BLOCKED" /\ waitingOn[n] = s
    BY <1>2, TailMembers, Zenon DEF PlacesInv, QueuesExact
  <2>2. /\ queue' = [queue EXCEPT ![s] = Tail(@)]
        /\ value' = [value EXCEPT ![s] = @ + 1]
        /\ status' = [status EXCEPT ![n] = "READY"]
    BY <1>2, Zenon DEF DoV
  <2> HIDE DEF n
  <2>3. ASSUME NEW r \in Sem, r # s
        PROVE  queue'[r] # << >> => value'[r] <= Cardinality(Woken(r)')
    <3>1. Woken(r)' = Woken(r)
      BY <2>1, <2>2, <2>3, Zenon DEF Woken
    <3>. QED  BY <2>2, <2>3, <3>1 DEF NoLostWakeup
  <2>4. Woken(s)' = Woken(s) \cup {n} /\ n \notin Woken(s)
    BY <2>1, <2>2 DEF Woken
  <2>5. Cardinality(Woken(s)') = Cardinality(Woken(s)) + 1
    <3> DEFINE W == Woken(s)
    <3>1. IsFiniteSet(W) /\ Cardinality(W) \in Nat
      BY WokenFinite, Zenon
    <3>2. n \notin W
      BY <2>4, Zenon
    <3> HIDE DEF W
    <3>3. Cardinality(W \cup {n}) = Cardinality(W) + 1
      BY <3>1, <3>2, FS_AddElement, Zenon
    <3>. QED  BY <2>4, <3>3, Zenon DEF W
  <2>6. value[s] <= Cardinality(Woken(s)) /\ value'[s] = value[s] + 1
    BY <1>2, <2>2, ZenonT(30) DEF NoLostWakeup
  <2>7. value'[s] <= Cardinality(Woken(s)')
    BY <2>5, <2>6, WokenFinite
  <2>. QED  BY <2>3, <2>7, Zenon DEF NoLostWakeup
<1>. QED  BY <1>1, <1>2, Zenon

(* While threads are queued on a semaphore, every unit of its value has a  *)
(* woken thread on its way to it.                                          *)
LEMMA NextNoLostWakeup ==
  ASSUME ThreadTypeOK, KernelTypeOK, PlacesInv, NoLostWakeup, [Next]_vars
  PROVE  NoLostWakeup'
<1> USE ThreadsAssumption DEF threadVars, schedVars, semVars, intVars
<1>0. /\ currentThread \in alive /\ alive \subseteq Thread
      /\ pc[currentThread] \in {"run", "oneTick"} =>
           /\ status[currentThread] = "RUNNING"
           /\ waitingOn[currentThread] = NULL
           /\ toBeDestroyed = NULL
  BY Zenon DEF PlacesInv, CarcassDeletedByNext, LocationsConsistent, ThreadTypeOK
<1>1. CASE UNCHANGED <<alive, status, waitingOn, value, queue>>
  BY <1>1, WokenStable, Zenon DEF Woken
<1>2. ASSUME CheckToBeDestroyed, UNCHANGED <<status, waitingOn, value, queue>>
      PROVE  NoLostWakeup'
  <2>1. toBeDestroyed # NULL => waitingOn[toBeDestroyed] = NULL
    BY Zenon DEF PlacesInv, CarcassDeletedByNext
  <2>2. \A s \in Sem : Woken(s)' = Woken(s)
    BY <1>0, <1>2, <2>1, Zenon DEF Woken, CheckToBeDestroyed
  <2>. QED  BY <1>2, <2>2, WokenStable, Zenon
<1>3. ASSUME NEW t \in Thread, t = currentThread, SwitchInYield(t),
             pc[t] \in {"run", "oneTick"},
             UNCHANGED <<alive, waitingOn, value, queue>>
      PROVE  NoLostWakeup'
  <2> DEFINE n == Head(readyList)
  <2>1. n \in Thread /\ status[n] = "READY"
    BY <1>3, TailMembers, Zenon
       DEF SwitchInYield, PlacesInv, ReadyListExact, KernelTypeOK
  <2>2. status' = [status EXCEPT ![t] = "READY", ![n] = "RUNNING"]
    BY <1>3, Zenon DEF SwitchInYield
  <2> HIDE DEF n
  <2>3. \A s \in Sem : Woken(s)' = Woken(s)
    BY <1>0, <1>3, <2>1, <2>2 DEF Woken, ThreadTypeOK
  <2>. QED  BY <1>3, <2>3, WokenStable, Zenon
<1>4. ASSUME NEW t \in Thread, Dispatch(t)
      PROVE  NoLostWakeup'
  <2> DEFINE n == Head(readyList)
  <2>1. n \in Thread /\ status[n] = "READY"
    BY <1>4, TailMembers, Zenon DEF Dispatch, PlacesInv, ReadyListExact, KernelTypeOK
  <2>2. /\ status' = [status EXCEPT ![n] = "RUNNING"]
        /\ UNCHANGED <<alive, waitingOn, value, queue>>
    BY <1>4, Zenon DEF Dispatch
  <2> HIDE DEF n
  <2>3. \A s \in Sem : Woken(s)' = Woken(s)
    BY <2>1, <2>2, Zenon DEF Woken, ThreadTypeOK
  <2>. QED  BY <2>2, <2>3, WokenStable, Zenon
<1>5. ASSUME NEW t \in Thread, Finish(t)
      PROVE  NoLostWakeup'
  <2>1. waitingOn[t] = NULL
    BY <1>0, <1>5, Zenon DEF Finish, InKernelCode, InOwnCode
  <2>2. /\ status' = [status EXCEPT ![t] = "BLOCKED"]
        /\ UNCHANGED <<alive, waitingOn, value, queue>>
    BY <1>5, Zenon DEF Finish
  <2>3. \A s \in Sem : Woken(s)' = Woken(s)
    BY <2>1, <2>2, Zenon DEF Woken, ThreadTypeOK
  <2>. QED  BY <2>2, <2>3, WokenStable, Zenon
<1>6. ASSUME NEW t \in Thread, NEW u \in Thread, Fork(t, u)
      PROVE  NoLostWakeup'
  <2>1. waitingOn[u] = NULL /\ u \notin alive
    BY <1>6, Zenon DEF Fork, PlacesInv, LocationsConsistent
  <2>2. \A s \in Sem : Woken(s)' = Woken(s)
    BY <1>6, <2>1, ZenonT(30) DEF Fork, Woken, ThreadTypeOK
  <2>. QED  BY <1>6, <2>2, WokenStable, Zenon DEF Fork
<1>7. ASSUME NEW t \in Thread, NEW s \in Sem, P(t, s)
      PROVE  NoLostWakeup'
  <2>1. /\ t = currentThread /\ pc[t] = "run" /\ TryP(t, s, level)
        /\ alive' = alive
    BY <1>7, Zenon DEF P, InKernelCode, InOwnCode
  <2>2. alive' = alive \ {toBeDestroyed}
    BY <1>0, <2>1, Zenon
  <2>. QED  BY <1>0, <2>1, <2>2, TryPWakeup
<1>8. ASSUME NEW t \in Thread, ReturnFromSleep(t)
      PROVE  NoLostWakeup'
  <2>1. /\ t \in alive /\ status[t] = "RUNNING" /\ waitingOn[t] \in Sem
        /\ TryP(t, waitingOn[t], oldLevel[t])
        /\ alive' = alive \ {toBeDestroyed}
    BY <1>0, <1>8, Zenon DEF ReturnFromSleep, Resumed, CheckToBeDestroyed, PlacesInv,
                      LocationsConsistent, ThreadTypeOK
  <2>. QED  BY <2>1, TryPWakeup, Zenon
<1>9. ASSUME NEW t \in Thread, NEW s \in Sem, V(t, s)
      PROVE  NoLostWakeup'
  BY <1>9, DoVWakeup, Zenon DEF V
<1>10. ASSUME NEW s \in DeviceSem, DeviceInterrupt(s)
       PROVE  NoLostWakeup'
  BY <1>10, DoVWakeup, Zenon DEF DeviceInterrupt
<1>11. ASSUME NEW t \in Thread, Begin(t) \/ ReturnFromYield(t)
       PROVE  NoLostWakeup'
  BY <1>2, <1>11, Zenon DEF Begin, ReturnFromYield
<1>12. ASSUME NEW t \in Thread, Yield(t)
       PROVE  NoLostWakeup'
  BY <1>1, <1>3, <1>12, Zenon DEF Yield, InKernelCode, InOwnCode
<1>13. ASSUME NEW t \in Thread, YieldInOneTick(t)
       PROVE  NoLostWakeup'
  BY <1>1, <1>3, <1>13, Zenon DEF YieldInOneTick
<1>14. ASSUME NEW t \in Thread,
              \/ Enable(t) \/ Idle(t) \/ ReturnFromOneTick(t)
              \/ RunUserProgram(t) \/ OneInstruction(t)
       PROVE  NoLostWakeup'
  BY <1>1, <1>14, Zenon DEF Enable, Idle, ReturnFromOneTick, RunUserProgram,
                     OneInstruction
<1>15. CASE TimerInterrupt \/ ReturnFromIdle \/ UNCHANGED vars
  BY <1>1, <1>15, Zenon DEF TimerInterrupt, ReturnFromIdle, vars
<1>. QED
  BY <1>4, <1>5, <1>6, <1>7, <1>8, <1>9, <1>10, <1>11, <1>12, <1>13, <1>14,
     <1>15, ZenonT(30) DEF Next, ThreadStep

(* No wakeup is lost, for any number of threads and semaphores: although   *)
(* V only makes a waiter ready and others may take the value before the    *)
(* waiter runs, threads stay queued on a semaphore with a positive value   *)
(* only while woken threads that will test the value are under way.        *)
THEOREM WakeupsCorrect == Spec => []NoLostWakeup
<1>1. Init => NoLostWakeup
  BY Zenon DEF Init, NoLostWakeup
<1>2. TypeOK /\ PlacesInv /\ NoLostWakeup /\ [Next]_vars => NoLostWakeup'
  BY NextNoLostWakeup, Zenon DEF TypeOK
<1>. QED  BY <1>1, <1>2, Places, PTL DEF Spec

-----------------------------------------------------------------------------
(* Each step of the scheduled, queueing semaphore is a step of the         *)
(* abstract one or leaves what it shows, value and waitingOn, alone.       *)
LEMMA TryPRefines ==
  ASSUME ThreadTypeOK, NEW t \in Thread, NEW s \in Sem, NEW old,
         TryP(t, s, old), waitingOn[t] \in {s, NULL}
  PROVE  \/ AbstractSemaphore!Next
         \/ UNCHANGED <<value, waitingOn>>
<1> USE ThreadsAssumption DEF ThreadTypeOK
<1>1. CASE value[s] = 0 /\ waitingOn[t] = NULL
  BY <1>1 DEF TryP, AbstractSemaphore!Next, AbstractSemaphore!Wait
<1>2. CASE value[s] = 0 /\ waitingOn[t] = s
  BY <1>2 DEF TryP
<1>3. CASE value[s] > 0 /\ waitingOn[t] = NULL
  <2>1. waitingOn' = waitingOn /\ value' = [value EXCEPT ![s] = @ - 1]
    BY <1>3 DEF TryP
  <2>. QED
    BY <1>3, <2>1, Zenon DEF AbstractSemaphore!Next, AbstractSemaphore!P
<1>4. CASE value[s] > 0 /\ waitingOn[t] = s
  BY <1>4 DEF TryP, AbstractSemaphore!Next, AbstractSemaphore!Proceed
<1>. QED  BY <1>1, <1>2, <1>3, <1>4, SMTT(20) DEF TryP

(* The step simulation, by action.                                         *)
LEMMA NextRefines ==
  ASSUME TypeOK, PlacesInv, [Next]_vars
  PROVE  [AbstractSemaphore!Next]_(AbstractSemaphore!vars)
<1> USE ThreadsAssumption DEF threadVars, schedVars, semVars, intVars
<1>0. SUFFICES \/ AbstractSemaphore!Next
               \/ UNCHANGED <<value, waitingOn>>
  BY Zenon DEF AbstractSemaphore!vars
<1>1. ASSUME NEW t \in Thread, NEW s \in Sem, P(t, s)
      PROVE  AbstractSemaphore!Next \/ UNCHANGED <<value, waitingOn>>
  <2>1. waitingOn[t] = NULL
    BY <1>1, Zenon DEF P, InKernelCode, InOwnCode, PlacesInv, LocationsConsistent,
                CarcassDeletedByNext
  <2>. QED  BY <1>1, <2>1, TryPRefines, Zenon DEF P, TypeOK
<1>2. ASSUME NEW t \in Thread, ReturnFromSleep(t)
      PROVE  AbstractSemaphore!Next \/ UNCHANGED <<value, waitingOn>>
  <2>1. waitingOn[t] \in Sem
    BY <1>2, Zenon DEF ReturnFromSleep, Resumed, PlacesInv, LocationsConsistent,
                CarcassDeletedByNext, TypeOK, ThreadTypeOK
  <2>. QED  BY <1>2, <2>1, TryPRefines, Zenon DEF ReturnFromSleep, TypeOK
<1>3. ASSUME NEW s \in Sem, DoV(s), UNCHANGED waitingOn
      PROVE  AbstractSemaphore!Next
  BY <1>3, Zenon DEF DoV, AbstractSemaphore!Next, AbstractSemaphore!V
<1>4. ASSUME NEW t \in Thread,
             \/ Enable(t) \/ Begin(t) \/ Finish(t) \/ Yield(t)
             \/ ReturnFromYield(t) \/ Dispatch(t) \/ Idle(t)
             \/ ReturnFromOneTick(t) \/ YieldInOneTick(t)
             \/ RunUserProgram(t) \/ OneInstruction(t)
             \/ \E u \in Thread : Fork(t, u)
      PROVE  UNCHANGED <<value, waitingOn>>
  BY <1>4, Zenon DEF Enable, Begin, Finish, Yield, ReturnFromYield, Dispatch, Idle,
     ReturnFromOneTick, YieldInOneTick, RunUserProgram, OneInstruction, Fork
<1>5. CASE TimerInterrupt \/ ReturnFromIdle \/ UNCHANGED vars
  BY <1>5, Zenon DEF TimerInterrupt, ReturnFromIdle, vars
<1>. QED
  BY <1>1, <1>2, <1>3, <1>4, <1>5 DEF Next, ThreadStep, V, DeviceInterrupt

(* The semaphore of synch.cc, with its queue, the scheduler, time slices   *)
(* and interrupt handlers, implements the semaphore synch.h promises.      *)
THEOREM SemaphoreCorrect == Spec => ImplementsSemaphore
<1>1. Init => AbstractSemaphore!Init
  BY Zenon DEF Init, AbstractSemaphore!Init
<1>2. TypeOK /\ PlacesInv /\ [Next]_vars =>
        [AbstractSemaphore!Next]_(AbstractSemaphore!vars)
  BY NextRefines, Zenon
<1>. QED
  BY <1>1, <1>2, Places, PTL
     DEF Spec, ImplementsSemaphore, AbstractSemaphore!Spec

-----------------------------------------------------------------------------
(* The machine status that goes with what a thread executes.               *)
StatusOf(t) == IF mode[t] = "user" THEN "UserMode" ELSE "SystemMode"

(* What makes the interrupt level inductive: only main, alone, is ever     *)
(* switched out of a call it made with interrupts off.                     *)
LevelInv ==
  /\ level = "IntOn" => pc[currentThread] = "run"
  /\ alive # {Main} =>
       /\ pc[currentThread] = "run" => level = "IntOn"
       /\ \A t \in alive : pc[t] \in {"inYield", "inP"} => oldLevel[t] = "IntOn"

(* What makes the machine status inductive: a thread that OneTick has made *)
(* yield has its own status saved, and every other one that is not in its  *)
(* own code has left it in system mode.                                    *)
StatusInv ==
  /\ \A t \in Thread :
       /\ t \notin alive \/ pc[t] \in {"begin", "inP", "finish"} =>
            mode[t] = "kernel" /\ oldStatus[t] = NULL
       /\ pc[t] = "run" => oldStatus[t] = NULL
       /\ pc[t] = "inYield" => IF oldStatus[t] = NULL THEN mode[t] = "kernel"
                                                      ELSE oldLevel[t] = "IntOn"
       /\ oldStatus[t] # NULL => oldStatus[t] = StatusOf(t)
  /\ LET t == currentThread IN
     IF pc[t] \in {"run", "oneTick"} /\ oldStatus[t] = NULL
     THEN machineStatus = StatusOf(t)
     ELSE machineStatus # "UserMode"

(* The thread FindNextToRun returns is alive, ready, and was switched out  *)
(* at one of the three places Scheduler::Run returns to.                   *)
LEMMA HeadReady ==
  ASSUME ThreadTypeOK, KernelTypeOK, PlacesInv, readyList # << >>
  PROVE  /\ Head(readyList) \in alive
         /\ status[Head(readyList)] = "READY"
         /\ pc[Head(readyList)] \in {"begin", "inYield", "inP"}
<1> DEFINE n == Head(readyList)
<1>1. n \in Thread /\ InSeq(n, readyList)
  BY TailMembers, Zenon DEF PlacesInv, ReadyListExact, KernelTypeOK
<1> HIDE DEF n
<1>2. n \in alive /\ status[n] = "READY"
  BY <1>1, Zenon DEF PlacesInv, ReadyListExact
<1>3. pc[n] \in {"begin", "inYield", "inP"}
  BY <1>1, <1>2, Zenon DEF PlacesInv, LocationsConsistent, CarcassDeletedByNext,
                    Location, ThreadTypeOK
<1>. QED  BY <1>2, <1>3, Zenon DEF n

(* Every action preserves the invariant on the interrupt level.            *)
LEMMA NextLevelInv ==
  ASSUME ThreadTypeOK, KernelTypeOK, PlacesInv, LevelInv, [Next]_vars
  PROVE  LevelInv'
<1> USE DEF threadVars, schedVars, semVars, intVars, IntStatus, LevelInv
<1>a. /\ alive \subseteq Thread /\ currentThread \in Thread /\ Main \in Thread
      /\ pc \in [Thread -> Location] /\ oldLevel \in [Thread -> IntStatus]
      /\ level \in IntStatus /\ NULL \notin Thread
  BY ThreadsAssumption, Zenon DEF ThreadTypeOK, KernelTypeOK
<1> USE <1>a
<1>0. /\ currentThread \in alive
      /\ pc[currentThread] \in {"run", "oneTick"} => toBeDestroyed = NULL
      /\ toBeDestroyed # NULL => toBeDestroyed \in alive \ {currentThread}
  BY Zenon DEF PlacesInv, CarcassDeletedByNext
<1>1. ASSUME NEW t \in Thread, Enable(t)
      PROVE  LevelInv'
  BY <1>0, <1>1, Zenon DEF Enable, InKernelCode, InOwnCode, SetLevel
<1>2. ASSUME NEW t \in Thread, Begin(t)
      PROVE  LevelInv'
  BY <1>0, <1>2, Zenon DEF Begin, Resumed, CheckToBeDestroyed, SetLevel
<1>3. ASSUME NEW t \in Thread, Finish(t)
      PROVE  LevelInv'
  BY <1>0, <1>3, Zenon DEF Finish, InKernelCode, InOwnCode
<1>4. ASSUME NEW t \in Thread, Yield(t)
      PROVE  LevelInv'
  <2>1. t = currentThread /\ t \in alive /\ pc[t] = "run"
    BY <1>0, <1>4, Zenon DEF Yield, InKernelCode, InOwnCode
  <2>2. CASE SwitchInYield(t)
    BY <1>4, <2>1, <2>2, HeadReady, Zenon DEF Yield, SwitchInYield
  <2>3. CASE SetLevel(t, level) /\ UNCHANGED currentThread
    BY <1>4, <2>1, <2>3, Zenon DEF Yield, SetLevel
  <2>. QED  BY <1>4, <2>2, <2>3, Zenon DEF Yield
<1>5. ASSUME NEW t \in Thread, ReturnFromYield(t)
      PROVE  LevelInv'
  BY <1>0, <1>5, Zenon DEF ReturnFromYield, Resumed, CheckToBeDestroyed, SetLevel
<1>6. ASSUME NEW t \in Thread, Dispatch(t)
      PROVE  LevelInv'
  BY <1>0, HeadReady, <1>6, Zenon DEF Dispatch, InSleep
<1>7. ASSUME NEW t \in Thread, ReturnFromSleep(t)
      PROVE  LevelInv'
  BY <1>0, <1>7, Zenon DEF ReturnFromSleep, Resumed, CheckToBeDestroyed, TryP, SetLevel
<1>8. ASSUME NEW t \in Thread, Idle(t)
      PROVE  LevelInv'
  BY <1>0, <1>8, Zenon DEF Idle, InSleep
<1>9. ASSUME NEW t \in Thread, ReturnFromOneTick(t)
      PROVE  LevelInv'
  BY <1>0, <1>9, Zenon DEF ReturnFromOneTick
<1>10. ASSUME NEW t \in Thread, YieldInOneTick(t)
      PROVE  LevelInv'
  <2>1. level = "IntOff" /\ t = currentThread /\ t \in alive
    BY <1>0, <1>10, Zenon DEF YieldInOneTick
  <2>2. CASE SwitchInYield(t)
    BY <1>10, <2>1, <2>2, HeadReady, Zenon DEF YieldInOneTick, SwitchInYield
  <2>3. CASE UNCHANGED <<level, pc, currentThread>>
    BY <1>10, <2>1, <2>3, Zenon DEF YieldInOneTick
  <2>. QED  BY <1>10, <2>2, <2>3, Zenon DEF YieldInOneTick
<1>11. ASSUME NEW t \in Thread, RunUserProgram(t)
      PROVE  LevelInv'
  BY <1>0, <1>11, Zenon DEF RunUserProgram, InKernelCode, InOwnCode
<1>12. ASSUME NEW t \in Thread, OneInstruction(t)
      PROVE  LevelInv'
  BY <1>0, <1>12, Zenon DEF OneInstruction, InOwnCode, SetLevel
<1>13. ASSUME NEW t \in Thread, NEW u \in Thread, Fork(t, u)
      PROVE  LevelInv'
  BY <1>0, <1>13, Zenon DEF Fork, InKernelCode, InOwnCode
<1>14. ASSUME NEW t \in Thread, NEW s \in Sem, P(t, s)
      PROVE  LevelInv'
  BY <1>0, <1>14, Zenon DEF P, InKernelCode, InOwnCode, TryP, SetLevel
<1>15. ASSUME NEW t \in Thread, NEW s \in Sem, V(t, s)
      PROVE  LevelInv'
  BY <1>0, <1>15, Zenon DEF V, InKernelCode, InOwnCode, SetLevel
<1>16. ASSUME NEW s \in DeviceSem, DeviceInterrupt(s)
      PROVE  LevelInv'
  BY <1>0, <1>16, Zenon DEF DeviceInterrupt
<1>17. CASE TimerInterrupt \/ ReturnFromIdle \/ UNCHANGED vars
  BY <1>17, Zenon DEF TimerInterrupt, ReturnFromIdle, vars
<1>. QED
  BY <1>1, <1>2, <1>3, <1>4, <1>5, <1>6, <1>7, <1>8, <1>9, <1>10, <1>11,
     <1>12, <1>13, <1>14, <1>15, <1>16, <1>17, ZenonT(30)
     DEF Next, ThreadStep

(* The current thread, in a kernel call it made itself, moves on, and a    *)
(* finished thread may be deleted.                                         *)
LEMMA KernelStep ==
  ASSUME ThreadTypeOK, KernelTypeOK, StatusInv, NEW t \in Thread,
         t = currentThread, mode[t] = "kernel", oldStatus[t] = NULL,
         machineStatus = "SystemMode",
         \E x \in {"run", "oneTick", "inP"} : pc' = [pc EXCEPT ![t] = x],
         t \in alive', alive' \subseteq alive,
         \A u \in alive \ alive' : pc[u] = "finish",
         \A u \in Thread \ {t} : oldLevel'[u] = oldLevel[u],
         UNCHANGED <<mode, oldStatus, currentThread, machineStatus>>
  PROVE  StatusInv'
<1>1. pc'[t] \in {"run", "oneTick", "inP"}
  BY Zenon DEF ThreadTypeOK
<1>2. \A u \in Thread \ {t} : pc'[u] = pc[u]
  BY Zenon DEF ThreadTypeOK
<1>3. ASSUME NEW u \in Thread
      PROVE  StatusInv!1!(u)'
  <2>1. CASE u = t
    BY <1>1, <2>1, Zenon DEF StatusOf
  <2>2. CASE u # t
    BY <1>2, <2>2 DEF StatusInv, StatusOf
  <2>. QED  BY <2>1, <2>2, Zenon
<1>. QED  BY <1>1, <1>3, Zenon DEF StatusInv, StatusOf

(* Yield switches to the thread at the head of the ready list, with the    *)
(* status of the thread it leaves saved if OneTick called it.              *)
LEMMA SwitchStatus ==
  ASSUME ThreadTypeOK, KernelTypeOK, PlacesInv, StatusInv, NEW t \in Thread,
         t = currentThread, t \in alive, SwitchInYield(t),
         machineStatus' = "SystemMode",
         \/ UNCHANGED oldStatus /\ oldStatus[t] = NULL /\ mode[t] = "kernel"
         \/ /\ oldStatus' = [oldStatus EXCEPT ![t] = StatusOf(t)]
            /\ oldLevel'[t] = "IntOn",
         \A u \in Thread \ {t} : oldLevel'[u] = oldLevel[u],
         UNCHANGED <<alive, mode>>
  PROVE  StatusInv'
<1> USE ThreadsAssumption DEF ThreadTypeOK, KernelTypeOK
<1>1. /\ currentThread' \in Thread
      /\ pc[currentThread'] \in {"begin", "inYield", "inP"}
  BY HeadReady, Zenon DEF SwitchInYield
<1>2. pc' = [pc EXCEPT ![t] = "inYield"]
  BY Zenon DEF SwitchInYield
<1>3. pc'[currentThread'] \notin {"run", "oneTick"}
  BY <1>1, <1>2, Zenon
<1>4. ASSUME NEW u \in Thread
      PROVE  StatusInv!1!(u)'
  <2>1. CASE u = t
    <3>1. pc'[t] = "inYield"
      BY <1>2, Zenon
    <3>2. StatusOf(t) # NULL /\ StatusOf(t)' = StatusOf(t)
      BY Zenon DEF StatusOf, MachineStatus
    <3>3. CASE UNCHANGED oldStatus /\ oldStatus[t] = NULL /\ mode[t] = "kernel"
      BY <2>1, <3>1, <3>3, Zenon
    <3>4. CASE /\ oldStatus' = [oldStatus EXCEPT ![t] = StatusOf(t)]
               /\ oldLevel'[t] = "IntOn"
      BY <2>1, <3>1, <3>2, <3>4, ZenonT(30)
    <3>. QED  BY <3>3, <3>4, Zenon
  <2>2. CASE u # t
    <3>1. pc'[u] = pc[u]
      BY <1>2, <2>2, Zenon
    <3>2. oldStatus'[u] = oldStatus[u]
      BY <2>2, Zenon
    <3>. QED  BY <2>2, <3>1, <3>2 DEF StatusInv, StatusOf
  <2>. QED  BY <2>1, <2>2, Zenon
<1>. QED  BY <1>3, <1>4, Zenon DEF StatusInv

(* Every action preserves the invariant on the machine status.             *)
LEMMA NextStatusInv ==
  ASSUME ThreadTypeOK, KernelTypeOK, PlacesInv, StatusInv, [Next]_vars
  PROVE  StatusInv'
<1> USE DEF threadVars, schedVars, semVars, intVars, MachineStatus,
        StatusInv, StatusOf
<1>a. /\ alive \subseteq Thread /\ currentThread \in Thread
      /\ mode \in [Thread -> {"kernel", "user"}]
      /\ pc \in [Thread -> Location] /\ oldLevel \in [Thread -> IntStatus]
      /\ oldStatus \in [Thread -> MachineStatus \cup {NULL}]
      /\ machineStatus \in MachineStatus /\ NULL \notin Thread \cup MachineStatus
  BY ThreadsAssumption, Zenon DEF ThreadTypeOK, KernelTypeOK
<1> USE <1>a
<1>0. /\ currentThread \in alive
      /\ pc[currentThread] \in {"run", "oneTick"} => toBeDestroyed = NULL
      /\ toBeDestroyed # NULL => /\ toBeDestroyed \in alive \ {currentThread}
                                /\ pc[toBeDestroyed] = "finish"
      /\ status[currentThread] = "RUNNING" => machineStatus # "IdleMode"
  BY Zenon DEF PlacesInv, CarcassDeletedByNext, LocationsConsistent
<1>1. ASSUME NEW t \in Thread, Enable(t)
      PROVE  StatusInv'
  BY <1>0, <1>1 DEF Enable, InKernelCode, InOwnCode, SetLevel
<1>2. ASSUME NEW t \in Thread, Begin(t)
      PROVE  StatusInv'
  BY <1>0, <1>2 DEF Begin, Resumed, CheckToBeDestroyed, SetLevel
<1>3. ASSUME NEW t \in Thread, Finish(t)
      PROVE  StatusInv'
  BY <1>0, <1>3, Zenon DEF Finish, InKernelCode, InOwnCode
<1>4. ASSUME NEW t \in Thread, Yield(t)
      PROVE  StatusInv'
  <2>1. CASE SwitchInYield(t)
    <3>1. /\ t = currentThread /\ t \in alive /\ mode[t] = "kernel"
          /\ oldStatus[t] = NULL /\ machineStatus = "SystemMode"
      BY <1>0, <1>4, ZenonT(30) DEF Yield, InKernelCode, InOwnCode
    <3>. QED  BY <1>4, <2>1, <3>1, SwitchStatus, Zenon DEF Yield
  <2>2. CASE SetLevel(t, level) /\ UNCHANGED currentThread
    BY <1>0, <1>4, <2>2, SetLevelPc, KernelStep
       DEF Yield, InKernelCode, InOwnCode
  <2>. QED  BY <1>4, <2>1, <2>2, Zenon DEF Yield
<1>5. ASSUME NEW t \in Thread, ReturnFromYield(t)
      PROVE  StatusInv'
  <2>1. /\ t = currentThread /\ pc[t] = "inYield"
        /\ machineStatus = "SystemMode"
    BY <1>0, <1>5, Zenon DEF ReturnFromYield, Resumed
  <2>2. /\ \E x \in {"run", "oneTick"} : pc' = [pc EXCEPT ![t] = x]
        /\ alive' = alive \ {toBeDestroyed}
        /\ UNCHANGED <<mode, oldLevel, oldStatus, currentThread, machineStatus>>
    BY <1>5, SetLevelPc, Zenon DEF ReturnFromYield, CheckToBeDestroyed
  <2>3. oldStatus[t] # NULL => pc' = [pc EXCEPT ![t] = "oneTick"]
    BY <1>5, <2>1, Zenon DEF ReturnFromYield, SetLevel
  <2>4. oldStatus[t] = NULL => mode[t] = "kernel"
    BY <2>1, Zenon
  <2>5. \A u \in Thread \ {t} : pc'[u] = pc[u]
    BY <2>2, Zenon
  <2>6. /\ pc'[t] \in {"run", "oneTick"}
        /\ oldStatus[t] # NULL => pc'[t] = "oneTick"
    BY <2>2, <2>3, ZenonT(30)
  <2>7. \A u \in alive \ alive' : u # t /\ pc[u] = "finish"
    BY <1>0, <2>1, <2>2, SMTT(20)
  <2>8. ASSUME NEW u \in Thread
        PROVE  StatusInv!1!(u)'
    BY <2>1, <2>2, <2>4, <2>5, <2>6, <2>7
  <2>. QED  BY <2>1, <2>2, <2>4, <2>5, <2>6, <2>8, ZenonT(30)
<1>6. ASSUME NEW t \in Thread, Dispatch(t)
      PROVE  StatusInv'
  BY <1>0, HeadReady, <1>6, ZenonT(30) DEF Dispatch, InSleep
<1>7. ASSUME NEW t \in Thread, ReturnFromSleep(t)
      PROVE  StatusInv'
  <2>1. /\ t = currentThread /\ mode[t] = "kernel" /\ oldStatus[t] = NULL
        /\ machineStatus = "SystemMode"
    BY <1>0, <1>7, Zenon DEF ReturnFromSleep, Resumed
  <2>2. \E x \in {"run", "oneTick", "inP"} : pc' = [pc EXCEPT ![t] = x]
    BY <1>7, SetLevelPc, Zenon DEF ReturnFromSleep, TryP
  <2>3. \A u \in alive \ alive' : pc[u] = "finish"
    BY <1>0, <1>7, Zenon DEF ReturnFromSleep, CheckToBeDestroyed
  <2>4. t \in alive' /\ alive' \subseteq alive
    BY <1>0, <1>7, <2>1, Zenon DEF ReturnFromSleep, CheckToBeDestroyed
  <2>. QED  BY <1>7, <2>1, <2>2, <2>3, <2>4, KernelStep DEF ReturnFromSleep
<1>8. ASSUME NEW t \in Thread, Idle(t)
      PROVE  StatusInv'
  BY <1>0, <1>8, Zenon DEF Idle, InSleep
<1>9. ASSUME NEW t \in Thread, ReturnFromOneTick(t)
      PROVE  StatusInv'
  BY <1>0, <1>9, ZenonT(30) DEF ReturnFromOneTick
<1>10. ASSUME NEW t \in Thread, YieldInOneTick(t)
      PROVE  StatusInv'
  <2>1. /\ t = currentThread /\ t \in alive /\ pc[t] = "oneTick"
        /\ oldStatus' = [oldStatus EXCEPT ![t] = StatusOf(t)]
    BY <1>0, <1>10, Zenon DEF YieldInOneTick
  <2>2. CASE SwitchInYield(t)
    <3>1. /\ oldLevel' = [oldLevel EXCEPT ![t] = "IntOn"]
          /\ machineStatus' = "SystemMode" /\ UNCHANGED <<alive, mode>>
      BY <1>10, Zenon DEF YieldInOneTick
    <3>2. /\ oldLevel'[t] = "IntOn"
          /\ \A u \in Thread \ {t} : oldLevel'[u] = oldLevel[u]
      BY <3>1, ZenonT(30)
    <3> HIDE DEF StatusInv, StatusOf
    <3>. QED  BY <2>1, <2>2, <3>1, <3>2, SwitchStatus, Zenon
  <2>3. CASE UNCHANGED <<pc, currentThread>>
    BY <1>10, <2>1, <2>3 DEF YieldInOneTick
  <2>. QED  BY <1>10, <2>2, <2>3, Zenon DEF YieldInOneTick
<1>11. ASSUME NEW t \in Thread, RunUserProgram(t)
      PROVE  StatusInv'
  BY <1>0, <1>11, ZenonT(30) DEF RunUserProgram, InKernelCode, InOwnCode
<1>12. ASSUME NEW t \in Thread, OneInstruction(t)
      PROVE  StatusInv'
  BY <1>0, <1>12 DEF OneInstruction, InOwnCode, SetLevel
<1>13. ASSUME NEW t \in Thread, NEW u \in Thread, Fork(t, u)
      PROVE  StatusInv'
  <2>1. /\ t = currentThread /\ mode[t] = "kernel" /\ oldStatus[t] = NULL
        /\ machineStatus = "SystemMode"
        /\ u # t /\ mode[u] = "kernel" /\ oldStatus[u] = NULL
    BY <1>0, <1>13, Zenon DEF Fork, InKernelCode, InOwnCode
  <2>2. /\ pc'[u] = "begin" /\ pc'[t] = "oneTick"
        /\ \A v \in Thread \ {t, u} : pc'[v] = pc[v]
    BY <1>13, <2>1, Zenon DEF Fork
  <2>3. ASSUME NEW v \in Thread
        PROVE  StatusInv!1!(v)'
    <3>1. UNCHANGED <<mode, oldLevel, oldStatus>> /\ alive' = alive \cup {u}
      BY <1>13, Zenon DEF Fork
    <3>2. CASE v \in {t, u}
      BY <2>1, <2>2, <3>1, <3>2, Zenon
    <3>3. CASE v \notin {t, u}
      BY <2>2, <3>1, <3>3, Zenon
    <3>. QED  BY <3>2, <3>3, Zenon
  <2>. QED  BY <1>13, <2>1, <2>2, <2>3, Zenon DEF Fork
<1>14. ASSUME NEW t \in Thread, NEW s \in Sem, P(t, s)
      PROVE  StatusInv'
  <2>1. /\ t = currentThread /\ mode[t] = "kernel" /\ oldStatus[t] = NULL
        /\ machineStatus = "SystemMode" /\ t \in alive
    BY <1>0, <1>14, Zenon DEF P, InKernelCode, InOwnCode
  <2>2. \E x \in {"run", "oneTick", "inP"} : pc' = [pc EXCEPT ![t] = x]
    BY <1>14, SetLevelPc, ZenonT(30) DEF P, TryP
  <2>. QED  BY <1>14, <2>1, <2>2, KernelStep, Zenon DEF P
<1>15. ASSUME NEW t \in Thread, NEW s \in Sem, V(t, s)
      PROVE  StatusInv'
  BY <1>0, <1>15 DEF V, InKernelCode, InOwnCode, SetLevel
<1>16. ASSUME NEW s \in DeviceSem, DeviceInterrupt(s)
      PROVE  StatusInv'
  BY <1>0, <1>16, ZenonT(30) DEF DeviceInterrupt
<1>17. CASE TimerInterrupt \/ ReturnFromIdle \/ UNCHANGED vars
  BY <1>17 DEF TimerInterrupt, ReturnFromIdle, vars
<1> HIDE DEF StatusInv, StatusOf
<1>. QED
  BY <1>1, <1>2, <1>3, <1>4, <1>5, <1>6, <1>7, <1>8, <1>9, <1>10, <1>11,
     <1>12, <1>13, <1>14, <1>15, <1>16, <1>17, ZenonT(30)
     DEF Next, ThreadStep

(* Interrupts are on only in a thread's own code, and, once a second       *)
(* thread exists, always there: the interrupt-level ASSERTs of the         *)
(* scheduler, of Sleep and of CheckIfDue hold on every path.               *)
THEOREM LevelCorrect == Spec => []InterruptLevelRight
<1>1. Init => LevelInv
  BY ThreadsAssumption, Zenon DEF Init, LevelInv
<1>2. TypeOK /\ PlacesInv /\ LevelInv /\ [Next]_vars => LevelInv'
  BY NextLevelInv, Zenon DEF TypeOK
<1>3. LevelInv => InterruptLevelRight
  BY Zenon DEF LevelInv, InterruptLevelRight, InOwnCode
<1>. QED  BY <1>1, <1>2, <1>3, Places, PTL DEF Spec

(* A thread back in its own code finds the machine in the mode it left,    *)
(* whatever threads in user and in kernel mode ran in between.             *)
THEOREM StatusCorrect == Spec => []StatusFollowsThread
<1>1. Init => StatusInv
  BY ThreadsAssumption, Zenon DEF Init, StatusInv, StatusOf
<1>2. TypeOK /\ PlacesInv /\ StatusInv /\ [Next]_vars => StatusInv'
  BY NextStatusInv, Zenon DEF TypeOK
<1>3. TypeOK /\ StatusInv => StatusFollowsThread
  BY Zenon DEF TypeOK, KernelTypeOK, StatusInv, StatusOf, StatusFollowsThread,
         InOwnCode
<1>. QED  BY <1>1, <1>2, <1>3, Places, PTL DEF Spec

(* A time-slice request never outlives the OneTick that ran the timer's    *)
(* handler: no other thread is made to yield for it, and no idle CPU.      *)
THEOREM RequestCorrect == Spec => []YieldRequestConsumed
<1>1. Init => YieldRequestConsumed
  BY Zenon DEF Init, YieldRequestConsumed
<1>2. ASSUME TypeOK, PlacesInv, YieldRequestConsumed, [Next]_vars
      PROVE  YieldRequestConsumed'
  <2> USE DEF YieldRequestConsumed, threadVars, schedVars, semVars, intVars
  <2>1. ASSUME NEW t \in Thread,
               \/ Enable(t) \/ Finish(t) \/ Yield(t) \/ RunUserProgram(t)
               \/ OneInstruction(t) \/ \E u \in Thread : Fork(t, u)
               \/ \E s \in Sem : P(t, s) \/ V(t, s)
        PROVE  ~yieldOnReturn'
    BY <1>2, <2>1, Zenon DEF Enable, Finish, Yield, RunUserProgram, OneInstruction,
                      Fork, P, V, InKernelCode, InOwnCode
  <2>2. ASSUME NEW t \in Thread,
               \/ Begin(t) \/ ReturnFromYield(t) \/ ReturnFromSleep(t)
               \/ Dispatch(t) \/ Idle(t)
        PROVE  ~yieldOnReturn'
    BY <1>2, <2>2, Zenon DEF Begin, ReturnFromYield, ReturnFromSleep, Dispatch,
                      Idle, Resumed, InSleep
  <2>3. ASSUME NEW t \in Thread, ReturnFromOneTick(t) \/ YieldInOneTick(t)
        PROVE  ~yieldOnReturn'
    BY <2>3, Zenon DEF ReturnFromOneTick, YieldInOneTick
  <2>4. ASSUME TimerInterrupt
        PROVE  YieldRequestConsumed'
    BY <1>2, <2>4, Zenon DEF TimerInterrupt, InHandlers
  <2>5. CASE \/ \E s \in DeviceSem : DeviceInterrupt(s)
             \/ ReturnFromIdle \/ UNCHANGED vars
    BY <1>2, <2>5, Zenon DEF DeviceInterrupt, ReturnFromIdle, vars
  <2>. QED
    BY <1>2, <2>1, <2>2, <2>3, <2>4, <2>5, ZenonT(30) DEF Next, ThreadStep
<1>. QED  BY <1>1, <1>2, Places, PTL DEF Spec
=============================================================================

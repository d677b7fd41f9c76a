------------------------------ MODULE Threads ------------------------------
(***************************************************************************)
(* The thread kernel of Nachos: Thread, Scheduler and Semaphore, with the  *)
(* part of Interrupt, Alarm and Timer that decides when the CPU changes    *)
(* hands.                                                                  *)
(*                                                                         *)
(* Nachos runs on one simulated CPU.  Other code gets to run only when a   *)
(* thread sleeps, yields, or turns interrupts from off to on               *)
(* (Interrupt::SetLevel), since that calls Interrupt::OneTick, which runs  *)
(* the interrupt handlers that are due.  An action below is the code       *)
(* between two such points.  A thread that is switched out keeps, in       *)
(* pc[t], the place at which Scheduler::Run will return to it.             *)
(***************************************************************************)
EXTENDS Integers, Sequences, FiniteSets

CONSTANTS Thread,       \* addresses a Thread object may have
          Main,         \* the thread Kernel::Initialize wraps around main()
          Sem,          \* the semaphores
          DeviceSem,    \* the semaphores that interrupt handlers V
          InitialValue, \* Semaphore::Semaphore's initialValue
          MaxValue,     \* bound on a semaphore's value (int in the code)
          SystemTick,   \* cost of enabling interrupts (stats.h)
          UserTick,     \* cost of one user instruction (stats.h)
          TimerDelays,  \* {TimerTicks}, or 1 .. 2 * TimerTicks with -rs
          NULL

ThreadStatus == {"JUST_CREATED", "RUNNING", "READY", "BLOCKED"}
IntStatus == {"IntOff", "IntOn"}
MachineStatus == {"IdleMode", "SystemMode", "UserMode"}

ASSUME ThreadsAssumption ==
  /\ IsFiniteSet(Thread) /\ Main \in Thread
  /\ DeviceSem \subseteq Sem
  /\ InitialValue \in [Sem -> Nat]
  /\ MaxValue \in Nat
  /\ SystemTick \in Nat \ {0} /\ UserTick \in Nat \ {0}
  /\ TimerDelays \subseteq Nat \ {0} /\ TimerDelays # {}
  /\ NULL \notin Thread \cup Sem \cup MachineStatus

VARIABLES
  alive,          \* the Thread objects that are allocated
  status,         \* Thread::status
  pc,             \* where a thread is in its own code
  mode,           \* whether a thread runs kernel code or Machine::Run
  oldLevel,       \* P's and Yield's local: the level to go back to
  oldStatus,      \* outermost OneTick's local, NULL unless it has yielded
  waitingOn,      \* the semaphore whose P a thread sleeps in, else NULL
  currentThread,  \* Kernel::currentThread
  readyList,      \* Scheduler::readyList
  toBeDestroyed,  \* Scheduler::toBeDestroyed
  value, queue,   \* Semaphore::value, Semaphore::queue
  level,          \* Interrupt::level
  machineStatus,  \* Interrupt::status
  yieldOnReturn,  \* Interrupt::yieldOnReturn
  timer           \* ticks from now until the pending timer interrupt

threadVars == <<alive, status, pc, mode, oldLevel, oldStatus, waitingOn>>
schedVars  == <<currentThread, readyList, toBeDestroyed>>
semVars    == <<value, queue>>
intVars    == <<level, machineStatus, yieldOnReturn, timer>>
vars       == <<threadVars, schedVars, semVars, intVars>>

(***************************************************************************)
(* begin    forked, ThreadRoot not entered yet                             *)
(* run      in its own code, between two kernel calls                      *)
(* oneTick  in Interrupt::OneTick, handlers may run                        *)
(* inYield  in Thread::Yield, in the call of Scheduler::Run                *)
(* inP      in Semaphore::P, in the call of Thread::Sleep                  *)
(* finish   in Thread::Finish, in the call of Thread::Sleep                *)
(***************************************************************************)
Location == {"begin", "run", "oneTick", "inYield", "inP", "finish"}

ThreadTypeOK ==
  /\ alive \in SUBSET Thread
  /\ status \in [Thread -> ThreadStatus]
  /\ pc \in [Thread -> Location]
  /\ mode \in [Thread -> {"kernel", "user"}]
  /\ oldLevel \in [Thread -> IntStatus]
  /\ oldStatus \in [Thread -> MachineStatus \cup {NULL}]
  /\ waitingOn \in [Thread -> Sem \cup {NULL}]

KernelTypeOK ==
  /\ currentThread \in Thread
  /\ readyList \in Seq(Thread)
  /\ toBeDestroyed \in Thread \cup {NULL}
  /\ value \in [Sem -> Nat]
  /\ queue \in [Sem -> Seq(Thread)]
  /\ level \in IntStatus
  /\ machineStatus \in MachineStatus
  /\ timer \in Int

TypeOK == ThreadTypeOK /\ KernelTypeOK /\ yieldOnReturn \in BOOLEAN

-----------------------------------------------------------------------------
(* Kernel::Initialize up to the point where the file system is formatted:  *)
(* main is running, interrupts are still off, the timer has been set.      *)
Init ==
  /\ alive = {Main}
  /\ status = [t \in Thread |-> IF t = Main THEN "RUNNING" ELSE "JUST_CREATED"]
  /\ pc = [t \in Thread |-> "run"]
  /\ mode = [t \in Thread |-> "kernel"]
  /\ oldLevel = [t \in Thread |-> "IntOff"]
  /\ oldStatus = [t \in Thread |-> NULL]
  /\ waitingOn = [t \in Thread |-> NULL]
  /\ currentThread = Main
  /\ readyList = << >>
  /\ toBeDestroyed = NULL
  /\ value = InitialValue
  /\ queue = [s \in Sem |-> << >>]
  /\ level = "IntOff"
  /\ machineStatus = "SystemMode"
  /\ yieldOnReturn = FALSE
  /\ timer \in TimerDelays

-----------------------------------------------------------------------------
(* Thread t is executing its own code, outside every kernel call.          *)
InOwnCode(t) == currentThread = t /\ pc[t] = "run"

InKernelCode(t) == InOwnCode(t) /\ mode[t] = "kernel"

(* Scheduler::Run has just returned to thread t, interrupts still off.     *)
Resumed(t, where) ==
  currentThread = t /\ pc[t] = where /\ status[t] = "RUNNING"

(* Thread t is in the loop of Thread::Sleep, outside Interrupt::Idle.      *)
InSleep(t) ==
  /\ currentThread = t
  /\ pc[t] \in {"inP", "finish"} /\ status[t] # "RUNNING"
  /\ machineStatus # "IdleMode"

(* CheckIfDue is calling handlers, for OneTick or for Idle.                *)
InHandlers == pc[currentThread] = "oneTick" \/ machineStatus = "IdleMode"

(* Interrupt::SetLevel(old) with interrupts off: if this enables them,     *)
(* OneTick advances the clock and turns them off again for its handlers.   *)
SetLevel(t, old) ==
  /\ level' = "IntOff"
  /\ IF old = "IntOn"
     THEN /\ pc' = [pc EXCEPT ![t] = "oneTick"]
          /\ timer' = timer - (IF machineStatus = "SystemMode" THEN SystemTick
                                                              ELSE UserTick)
     ELSE /\ pc' = [pc EXCEPT ![t] = "run"]
          /\ UNCHANGED timer

(* Scheduler::CheckToBeDestroyed                                           *)
CheckToBeDestroyed ==
  /\ alive' = alive \ {toBeDestroyed}
  /\ toBeDestroyed' = NULL

-----------------------------------------------------------------------------
(* Interrupt::Enable, called last by Kernel::Initialize.                   *)
Enable(t) ==
  /\ InKernelCode(t) /\ level = "IntOff"
  /\ SetLevel(t, "IntOn")
  /\ UNCHANGED <<alive, status, mode, oldLevel, oldStatus, waitingOn,
                 schedVars, semVars, machineStatus, yieldOnReturn>>

(* new Thread, then Thread::Fork with its Scheduler::ReadyToRun.           *)
Fork(t, u) ==
  /\ InKernelCode(t) /\ level = "IntOn"
  /\ u \notin alive
  /\ alive' = alive \cup {u}
  /\ status' = [status EXCEPT ![u] = "READY"]
  /\ pc' = [pc EXCEPT ![u] = "begin", ![t] = "oneTick"]
  /\ readyList' = Append(readyList, u)
  /\ level' = "IntOff"
  /\ timer' = timer - SystemTick
  /\ UNCHANGED <<mode, oldLevel, oldStatus, waitingOn, currentThread,
                 toBeDestroyed, semVars, machineStatus, yieldOnReturn>>

(* Mutant of Begin: without the call of CheckToBeDestroyed.                *)
BeginWithoutCheck(t) ==
  /\ Resumed(t, "begin")
  /\ SetLevel(t, "IntOn")
  /\ UNCHANGED <<alive, status, mode, oldLevel, oldStatus, waitingOn,
                 schedVars, semVars, machineStatus, yieldOnReturn>>

(* Thread::Begin, the first thing a forked thread runs.                    *)
Begin(t) ==
  /\ Resumed(t, "begin")
  /\ CheckToBeDestroyed
  /\ SetLevel(t, "IntOn")
  /\ UNCHANGED <<status, mode, oldLevel, oldStatus, waitingOn, currentThread,
                 readyList, semVars, machineStatus, yieldOnReturn>>

(* Thread::Finish, up to the loop of Thread::Sleep.                        *)
Finish(t) ==
  /\ InKernelCode(t) /\ level = "IntOn"
  /\ level' = "IntOff"
  /\ status' = [status EXCEPT ![t] = "BLOCKED"]
  /\ pc' = [pc EXCEPT ![t] = "finish"]
  /\ UNCHANGED <<alive, mode, oldLevel, oldStatus, waitingOn, schedVars,
                 semVars, machineStatus, yieldOnReturn, timer>>

(* Mutant of SwitchInYield: ReadyToRun does not set the status to READY.   *)
SwitchLeavingStatus(t) ==
  /\ readyList # << >>
  /\ currentThread' = Head(readyList)
  /\ readyList' = Append(Tail(readyList), t)
  /\ status' = [status EXCEPT ![Head(readyList)] = "RUNNING"]
  /\ pc' = [pc EXCEPT ![t] = "inYield"]
  /\ level' = "IntOff"
  /\ UNCHANGED timer

(* FindNextToRun found a thread: Scheduler::Run, called by Yield.          *)
SwitchInYield(t) ==
  /\ readyList # << >>
  /\ currentThread' = Head(readyList)
  /\ readyList' = Append(Tail(readyList), t)
  /\ status' = [status EXCEPT ![t] = "READY", ![Head(readyList)] = "RUNNING"]
  /\ pc' = [pc EXCEPT ![t] = "inYield"]
  /\ level' = "IntOff"
  /\ UNCHANGED timer

(* Thread::Yield, called by the thread itself with interrupts on or off.   *)
Yield(t) ==
  /\ InKernelCode(t)
  /\ oldLevel' = [oldLevel EXCEPT ![t] = level]
  /\ \/ SwitchInYield(t)
     \/ /\ readyList = << >>
        /\ SetLevel(t, level)
        /\ UNCHANGED <<status, currentThread, readyList>>
  /\ UNCHANGED <<alive, mode, oldStatus, waitingOn, toBeDestroyed, semVars,
                 machineStatus, yieldOnReturn>>

(* Mutant of ReturnFromYield: without the last SetLevel(oldLevel).         *)
ReturnFromYieldDisabled(t) ==
  /\ Resumed(t, "inYield")
  /\ CheckToBeDestroyed
  /\ SetLevel(t, "IntOff")
  /\ UNCHANGED <<status, mode, oldLevel, oldStatus, waitingOn, currentThread,
                 readyList, semVars, machineStatus, yieldOnReturn>>

(* Scheduler::Run returns to Yield, which restores the interrupt level.    *)
ReturnFromYield(t) ==
  /\ Resumed(t, "inYield")
  /\ CheckToBeDestroyed
  /\ SetLevel(t, oldLevel[t])
  /\ UNCHANGED <<status, mode, oldLevel, oldStatus, waitingOn, currentThread,
                 readyList, semVars, machineStatus, yieldOnReturn>>

(* Thread::Sleep finds a thread to run.  If the sleeper is finishing, the  *)
(* next thread is to delete it.                                            *)
Dispatch(t) ==
  /\ InSleep(t) /\ readyList # << >>
  /\ toBeDestroyed' = IF pc[t] = "finish" THEN t ELSE toBeDestroyed
  /\ currentThread' = Head(readyList)
  /\ readyList' = Tail(readyList)
  /\ status' = [status EXCEPT ![Head(readyList)] = "RUNNING"]
  /\ UNCHANGED <<alive, pc, mode, oldLevel, oldStatus, waitingOn, semVars,
                 intVars>>

-----------------------------------------------------------------------------
(* Mutant of TryP: P returns without decrementing the value.               *)
TryPKeepingValue(t, s, old) ==
  \/ /\ value[s] = 0
     /\ queue' = [queue EXCEPT ![s] = Append(@, t)]
     /\ status' = [status EXCEPT ![t] = "BLOCKED"]
     /\ pc' = [pc EXCEPT ![t] = "inP"]
     /\ waitingOn' = [waitingOn EXCEPT ![t] = s]
     /\ level' = "IntOff"
     /\ UNCHANGED <<value, timer>>
  \/ /\ value[s] > 0
     /\ waitingOn' = [waitingOn EXCEPT ![t] = NULL]
     /\ SetLevel(t, old)
     /\ UNCHANGED <<value, queue, status>>

(* One round of the loop in Semaphore::P, up to the call of Sleep or, if   *)
(* the value can be taken, to the end of P.                                *)
TryP(t, s, old) ==
  \/ /\ value[s] = 0
     /\ queue' = [queue EXCEPT ![s] = Append(@, t)]
     /\ status' = [status EXCEPT ![t] = "BLOCKED"]
     /\ pc' = [pc EXCEPT ![t] = "inP"]
     /\ waitingOn' = [waitingOn EXCEPT ![t] = s]
     /\ level' = "IntOff"
     /\ UNCHANGED <<value, timer>>
  \/ /\ value[s] > 0
     /\ value' = [value EXCEPT ![s] = @ - 1]
     /\ waitingOn' = [waitingOn EXCEPT ![t] = NULL]
     /\ SetLevel(t, old)
     /\ UNCHANGED <<queue, status>>

(* Semaphore::P                                                            *)
P(t, s) ==
  /\ InKernelCode(t)
  /\ oldLevel' = [oldLevel EXCEPT ![t] = level]
  /\ TryP(t, s, level)
  /\ UNCHANGED <<alive, mode, oldStatus, schedVars, machineStatus,
                 yieldOnReturn>>

(* Mutant of ReturnFromSleep: P tests the value with if, not with while.   *)
ReturnFromSleepWithoutTest(t) ==
  /\ Resumed(t, "inP")
  /\ CheckToBeDestroyed
  /\ value' = [value EXCEPT ![waitingOn[t]] = @ - 1]
  /\ waitingOn' = [waitingOn EXCEPT ![t] = NULL]
  /\ SetLevel(t, oldLevel[t])
  /\ UNCHANGED <<queue, status, mode, oldLevel, oldStatus, currentThread,
                 readyList, machineStatus, yieldOnReturn>>

(* Sleep returns to the loop of Semaphore::P, which tests the value again. *)
ReturnFromSleep(t) ==
  /\ Resumed(t, "inP")
  /\ CheckToBeDestroyed
  /\ TryP(t, waitingOn[t], oldLevel[t])
  /\ UNCHANGED <<mode, oldLevel, oldStatus, currentThread, readyList,
                 machineStatus, yieldOnReturn>>

(* Mutant of DoV: the first waiter is made ready but left on the queue.    *)
DoVKeepingQueue(s) ==
  /\ value[s] < MaxValue
  /\ value' = [value EXCEPT ![s] = @ + 1]
  /\ UNCHANGED queue
  /\ \/ /\ queue[s] = << >>
        /\ UNCHANGED <<status, readyList>>
     \/ /\ queue[s] # << >>
        /\ status' = [status EXCEPT ![Head(queue[s])] = "READY"]
        /\ readyList' = Append(readyList, Head(queue[s]))

(* Mutant of DoV: a waiter is made ready only when the value was zero.     *)
DoVFromZero(s) ==
  /\ value[s] < MaxValue
  /\ value' = [value EXCEPT ![s] = @ + 1]
  /\ \/ /\ queue[s] = << >> \/ value[s] > 0
        /\ UNCHANGED <<queue, status, readyList>>
     \/ /\ queue[s] # << >> /\ value[s] = 0
        /\ queue' = [queue EXCEPT ![s] = Tail(@)]
        /\ status' = [status EXCEPT ![Head(queue[s])] = "READY"]
        /\ readyList' = Append(readyList, Head(queue[s]))

(* Mutant of DoV: no waiter is made ready.                                 *)
DoVWithoutWakeup(s) ==
  /\ value[s] < MaxValue
  /\ value' = [value EXCEPT ![s] = @ + 1]
  /\ UNCHANGED <<queue, status, readyList>>

(* The body of Semaphore::V: wake the first waiter, increment the value.   *)
DoV(s) ==
  /\ value[s] < MaxValue
  /\ value' = [value EXCEPT ![s] = @ + 1]
  /\ \/ /\ queue[s] = << >>
        /\ UNCHANGED <<queue, status, readyList>>
     \/ /\ queue[s] # << >>
        /\ queue' = [queue EXCEPT ![s] = Tail(@)]
        /\ status' = [status EXCEPT ![Head(queue[s])] = "READY"]
        /\ readyList' = Append(readyList, Head(queue[s]))

(* Semaphore::V, called by a thread.                                       *)
V(t, s) ==
  /\ InKernelCode(t)
  /\ DoV(s)
  /\ SetLevel(t, level)
  /\ UNCHANGED <<alive, mode, oldLevel, oldStatus, waitingOn, currentThread,
                 toBeDestroyed, machineStatus, yieldOnReturn>>

-----------------------------------------------------------------------------
(* CheckIfDue calls a device's handler, which ends in a V; interrupts are  *)
(* off and stay off.                                                       *)
DeviceInterrupt(s) ==
  /\ InHandlers
  /\ DoV(s)
  /\ UNCHANGED <<alive, pc, mode, oldLevel, oldStatus, waitingOn,
                 currentThread, toBeDestroyed, intVars>>

(* Mutant of TimerInterrupt: Alarm::CallBack does not ask for the status.  *)
TimerInterruptAlways ==
  /\ InHandlers /\ timer <= 0
  /\ yieldOnReturn' = TRUE
  /\ timer' \in TimerDelays
  /\ UNCHANGED <<threadVars, schedVars, semVars, level, machineStatus>>

(* Mutant of TimerInterrupt: Alarm::CallBack never asks for a switch.      *)
TimerInterruptNever ==
  /\ InHandlers /\ timer <= 0
  /\ timer' \in TimerDelays
  /\ UNCHANGED <<threadVars, schedVars, semVars, level, machineStatus,
                 yieldOnReturn>>

(* CheckIfDue calls Timer::CallBack: Alarm::CallBack, then SetInterrupt.   *)
TimerInterrupt ==
  /\ InHandlers /\ timer <= 0
  /\ yieldOnReturn' = (yieldOnReturn \/ machineStatus # "IdleMode")
  /\ timer' \in TimerDelays
  /\ UNCHANGED <<threadVars, schedVars, semVars, level, machineStatus>>

(* Mutant of ReturnFromOneTick: the machine status is not put back.        *)
ReturnFromOneTickInSystem(t) ==
  /\ currentThread = t /\ pc[t] = "oneTick" /\ timer > 0 /\ ~yieldOnReturn
  /\ level' = "IntOn"
  /\ pc' = [pc EXCEPT ![t] = "run"]
  /\ oldStatus' = [oldStatus EXCEPT ![t] = NULL]
  /\ UNCHANGED <<alive, status, mode, oldLevel, waitingOn, schedVars,
                 semVars, machineStatus, yieldOnReturn, timer>>

(* No handler is due any more and none asked for a context switch: OneTick *)
(* returns, and with it every Yield and OneTick stacked below it.  The     *)
(* outermost one puts back the machine status it had found.                *)
ReturnFromOneTick(t) ==
  /\ currentThread = t /\ pc[t] = "oneTick" /\ timer > 0 /\ ~yieldOnReturn
  /\ level' = "IntOn"
  /\ pc' = [pc EXCEPT ![t] = "run"]
  /\ machineStatus' = IF oldStatus[t] = NULL THEN machineStatus
                                             ELSE oldStatus[t]
  /\ oldStatus' = [oldStatus EXCEPT ![t] = NULL]
  /\ UNCHANGED <<alive, status, mode, oldLevel, waitingOn, schedVars,
                 semVars, yieldOnReturn, timer>>

(* The timer's handler asked for a context switch: OneTick calls Yield,    *)
(* with interrupts on, in system mode.                                     *)
YieldInOneTick(t) ==
  /\ currentThread = t /\ pc[t] = "oneTick" /\ timer > 0 /\ yieldOnReturn
  /\ yieldOnReturn' = FALSE
  /\ machineStatus' = "SystemMode"
  /\ oldStatus' = [oldStatus EXCEPT ![t] = IF @ = NULL THEN machineStatus
                                                       ELSE @]
  /\ oldLevel' = [oldLevel EXCEPT ![t] = "IntOn"]
  /\ \/ SwitchInYield(t)
     \/ /\ readyList = << >>
        /\ timer' = timer - SystemTick
        /\ UNCHANGED <<level, pc, status, currentThread, readyList>>
  /\ UNCHANGED <<alive, mode, waitingOn, toBeDestroyed, semVars>>

(* Interrupt::Idle with nothing on the ready list: the clock jumps to the  *)
(* first pending interrupt, the timer's or an earlier one of a device.     *)
Idle(t) ==
  /\ InSleep(t) /\ readyList = << >>
  /\ machineStatus' = "IdleMode"
  /\ timer' \in 0 .. timer - 1
  /\ UNCHANGED <<threadVars, schedVars, semVars, level, yieldOnReturn>>

(* CheckIfDue has called every handler that was due: Idle returns to Sleep. *)
ReturnFromIdle ==
  /\ machineStatus = "IdleMode" /\ timer > 0
  /\ machineStatus' = "SystemMode"
  /\ UNCHANGED <<threadVars, schedVars, semVars, level, yieldOnReturn, timer>>

-----------------------------------------------------------------------------
(* Machine::Run, called by AddrSpace::Execute; it never returns.           *)
RunUserProgram(t) ==
  /\ InKernelCode(t) /\ level = "IntOn"
  /\ mode' = [mode EXCEPT ![t] = "user"]
  /\ machineStatus' = "UserMode"
  /\ UNCHANGED <<alive, status, pc, oldLevel, oldStatus, waitingOn, schedVars,
                 semVars, level, yieldOnReturn, timer>>

(* One round of Machine::Run's loop.  A system call leaves user mode and   *)
(* comes back to it within the instruction.                                *)
OneInstruction(t) ==
  /\ InOwnCode(t) /\ mode[t] = "user"
  /\ SetLevel(t, "IntOn")
  /\ UNCHANGED <<alive, status, mode, oldLevel, oldStatus, waitingOn,
                 schedVars, semVars, machineStatus, yieldOnReturn>>

-----------------------------------------------------------------------------
ThreadStep(t) ==
  \/ Enable(t) \/ Begin(t) \/ Finish(t) \/ Yield(t) \/ ReturnFromYield(t)
  \/ Dispatch(t) \/ ReturnFromSleep(t) \/ Idle(t)
  \/ ReturnFromOneTick(t) \/ YieldInOneTick(t)
  \/ RunUserProgram(t) \/ OneInstruction(t)
  \/ \E u \in Thread : Fork(t, u)
  \/ \E s \in Sem : P(t, s) \/ V(t, s)

Next ==
  \/ \E t \in Thread : ThreadStep(t)
  \/ \E s \in DeviceSem : DeviceInterrupt(s)
  \/ TimerInterrupt
  \/ ReturnFromIdle

Spec == Init /\ [][Next]_vars

(* The simulated machine never stops executing.                            *)
FairSpec == Spec /\ WF_vars(Next)

-----------------------------------------------------------------------------
InSeq(x, seq) == \E i \in 1 .. Len(seq) : seq[i] = x
Distinct(seq) == \A i, j \in 1 .. Len(seq) : seq[i] = seq[j] => i = j

(* The ready list holds exactly the READY threads, each once, whatever     *)
(* wakes, yields and forks came before: Scheduler::ReadyToRun never puts a *)
(* thread there twice and no thread is marked READY without being there.   *)
ReadyListExact ==
  /\ Distinct(readyList)
  /\ \A t \in Thread :
       InSeq(t, readyList) <=> t \in alive /\ status[t] = "READY"

(* A semaphore's queue holds exactly the threads blocked in its P, each    *)
(* once.  A thread that V has moved to the ready list is in no queue, and  *)
(* no blocked thread is forgotten by every queue.                          *)
QueuesExact ==
  /\ \A s \in Sem : Distinct(queue[s])
  /\ \A s \in Sem, t \in Thread :
       InSeq(t, queue[s]) <=> /\ t \in alive /\ status[t] = "BLOCKED"
                              /\ waitingOn[t] = s

(* A finished thread is deleted by the next thread that runs, once, and    *)
(* never while it is on the CPU: the ASSERTs of Scheduler::Run             *)
(* (toBeDestroyed == NULL) and Thread::~Thread (this != currentThread)     *)
(* hold, and no finished thread is left undeleted.                         *)
CarcassDeletedByNext ==
  /\ currentThread \in alive
  /\ pc[currentThread] = "finish" => toBeDestroyed = NULL
  /\ toBeDestroyed # NULL =>
       /\ toBeDestroyed \in alive \ {currentThread}
       /\ pc[toBeDestroyed] = "finish"
       /\ status[currentThread] = "RUNNING"
       /\ pc[currentThread] \in {"begin", "inYield", "inP"}
  /\ \A t \in alive :
       pc[t] = "finish" <=> status[t] = "BLOCKED" /\ waitingOn[t] = NULL
  /\ \A t \in alive :
       pc[t] = "finish" => t \in {currentThread, toBeDestroyed}

(* Threads that V has woken from P on s and that have not tested the value *)
(* again yet.                                                              *)
Woken(s) == {t \in alive : waitingOn[t] = s /\ status[t] # "BLOCKED"}

(* Semaphore::V wakes one thread per increment and the woken thread takes  *)
(* the value only when it runs, so another thread may take it first.  Even *)
(* so no wakeup is lost: while threads are queued on s, every unit of its  *)
(* value has a woken thread on its way to take it.                         *)
NoLostWakeup ==
  \A s \in Sem : queue[s] # << >> => value[s] <= Cardinality(Woken(s))

(* Interrupts are on only while a thread executes its own code: the switch *)
(* in Run, the loops of Sleep and P and every handler find them off, which *)
(* is what the ASSERTs in ReadyToRun, FindNextToRun, Run, Sleep and        *)
(* CheckIfDue ask for.  Once a second thread exists, a thread in its own   *)
(* code always has them on again, whatever path led it back there.         *)
InterruptLevelRight ==
  /\ level = "IntOn" => InOwnCode(currentThread)
  /\ InOwnCode(currentThread) /\ alive # {Main} => level = "IntOn"

(* A time-slice request is consumed by the OneTick that ran the timer's    *)
(* handler; it never survives to interrupt another thread or an idle CPU.  *)
YieldRequestConsumed == yieldOnReturn => pc[currentThread] = "oneTick"

(* Interrupt::status is global, OneTick saves and restores it around the   *)
(* context switch: a thread back in its own code finds the mode it left.   *)
StatusFollowsThread ==
  InOwnCode(currentThread) =>
    machineStatus = IF mode[currentThread] = "user" THEN "UserMode"
                                                    ELSE "SystemMode"

-----------------------------------------------------------------------------
(* The scheduled, queueing semaphore implements the abstract one, safety   *)
(* and the promise that a positive value is not withheld from a waiter.    *)
AbstractSemaphore == INSTANCE Semaphore WITH waiting <- waitingOn
ImplementsSemaphore == AbstractSemaphore!Spec
ImplementsFairSemaphore == AbstractSemaphore!FairSpec

(* Time slicing with a first-in first-out ready list: every READY thread   *)
(* gets the CPU.                                                           *)
ReadyThreadsRun ==
  \A t \in Thread : (t \in alive /\ status[t] = "READY") ~>
                    (status[t] = "RUNNING")

(* The comment at Thread::Yield: it "returns when the thread eventually    *)
(* works its way to the front of the ready list and gets re-scheduled".    *)
YieldReturns ==
  \A t \in Thread : (t \in alive /\ pc[t] = "inYield") ~> (pc[t] = "run")
=============================================================================

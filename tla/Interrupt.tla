----------------------------- MODULE Interrupt -----------------------------
(***************************************************************************)
(* Interrupt (machine/interrupt.cc): simulated time and the sorted list of *)
(* pending interrupts, with the devices that put interrupts there.  Time   *)
(* advances when a thread enables interrupts, when it executes a user      *)
(* instruction, and when there is nothing to run.                          *)
(*                                                                         *)
(* Only the difference between a pending interrupt's time and totalTicks   *)
(* matters to the code, so an entry of the list holds that difference.     *)
(* Which thread runs is the subject of module Threads; here "the thread"   *)
(* is whatever code runs outside Interrupt.  The load pending in the       *)
(* machine, which CheckIfDue completes before the handlers, is in module   *)
(* UserProgram.                                                            *)
(***************************************************************************)
EXTENDS Integers, Sequences

CONSTANTS Device,      \* the devices (CallBackObj) that call Schedule
          Timer,       \* the timer
          Poller,      \* the devices whose handlers poll: console, network input
          TimerDelay,  \* how far from now the timer schedules, which may be random,
          PollDelay,   \* the pollers,
          RequestDelay,  \* and the other devices (for the disk, the latency)
          SystemTick, UserTick,
          Nil

ASSUME InterruptAssumption ==
  /\ Timer \in Device /\ Poller \subseteq Device \ {Timer}
  /\ \A D \in {TimerDelay, PollDelay, RequestDelay} : D \subseteq Nat \ {0} /\ D # {}
  /\ UserTick \in Nat \ {0} /\ SystemTick \in Nat /\ SystemTick >= UserTick
  /\ Nil \notin Int

(* What device d passes to Schedule as fromNow                             *)
Delay(d) ==
  IF d = Timer THEN TimerDelay ELSE IF d \in Poller THEN PollDelay ELSE RequestDelay

VARIABLES
  at,             \* where the CPU is
  pending,        \* Interrupt::pending, entries [device, left]
  level,          \* Interrupt::level
  status,         \* Interrupt::status
  inHandler,      \* Interrupt::inHandler
  yieldOnReturn,  \* Interrupt::yieldOnReturn
  disable         \* Timer::disable

interruptVars == <<at, pending, level, status, inHandler, yieldOnReturn, disable>>

(***************************************************************************)
(* thread  outside Interrupt                                               *)
(* check   in OneTick, in CheckIfDue before its first test                 *)
(* loop    in CheckIfDue, in its loop                                      *)
(* return  CheckIfDue has returned                                         *)
(* halted  in Halt                                                         *)
(***************************************************************************)
CpuLocation == {"thread", "check", "loop", "return", "halted"}

Entry == [device : Device, left : Int]

InterruptTypeOK ==
  /\ at \in CpuLocation
  /\ pending \in Seq(Entry)
  /\ level \in {"IntOff", "IntOn"}
  /\ status \in {"IdleMode", "SystemMode", "UserMode"}
  /\ inHandler \in BOOLEAN
  /\ yieldOnReturn \in BOOLEAN
  /\ disable \in BOOLEAN

Scheduled == {pending[i].device : i \in 1 .. Len(pending)}

(* Kernel::Initialize: the timer is set, interrupts are off.               *)
InterruptInit ==
  /\ at = "thread"
  /\ \E n \in Delay(Timer) : pending = <<[device |-> Timer, left |-> n]>>
  /\ level = "IntOff"
  /\ status = "SystemMode"
  /\ inHandler = FALSE
  /\ yieldOnReturn = FALSE
  /\ disable = FALSE

-----------------------------------------------------------------------------
(* SortedList::Insert with PendingCompare: the new entry goes before the   *)
(* first one that is due later, after those that are due at the same time. *)
Insert(list, e) ==
  LET before == {i \in 1 .. Len(list) : \A j \in 1 .. i : list[j].left <= e.left}
      p      == IF before = {} THEN 0
                ELSE CHOOSE i \in before : \A j \in before : j <= i
  IN  SubSeq(list, 1, p) \o <<e>> \o SubSeq(list, p + 1, Len(list))

(* Mutant of Schedule: callOnInterrupt is not set in the new entry.        *)
ScheduleNoOne(list, d, fromNow) == Insert(list, [device |-> Nil, left |-> fromNow])

(* Interrupt::Schedule, called by device d.                                *)
Schedule(list, d, fromNow) == Insert(list, [device |-> d, left |-> fromNow])

(* Simulated time moves on.                                                *)
Advance(list, ticks) ==
  [i \in 1 .. Len(list) |-> [list[i] EXCEPT !.left = @ - ticks]]

(* Mutant of IsDue: an interrupt counts as due one tick early.             *)
IsAlmostDue(list) == list # << >> /\ Head(list).left <= 1

(* The test of CheckIfDue's loop.                                          *)
IsDue(list) == list # << >> /\ Head(list).left <= 0

-----------------------------------------------------------------------------
(* A thread hands a device a request, or takes the character it has read.  *)
DeviceRequest(d) ==
  /\ at = "thread" /\ d # Timer /\ d \notin Scheduled
  /\ \E n \in Delay(d) : pending' = Schedule(pending, d, n)
  /\ UNCHANGED <<at, level, status, inHandler, yieldOnReturn, disable>>

(* A thread turns interrupts off.                                          *)
Disable ==
  /\ at = "thread" /\ level = "IntOn" /\ status = "SystemMode"
  /\ level' = "IntOff"
  /\ UNCHANGED <<at, pending, status, inHandler, yieldOnReturn, disable>>

(* OneTick up to its call of CheckIfDue.                                   *)
OneTick ==
  /\ pending' = Advance(pending, IF status = "SystemMode" THEN SystemTick
                                                          ELSE UserTick)
  /\ level' = "IntOff"
  /\ at' = "check"
  /\ UNCHANGED <<status, inHandler, yieldOnReturn, disable>>

(* Mutant of Enable: SetLevel does not call OneTick.                       *)
EnableWithoutTick ==
  /\ at = "thread" /\ level = "IntOff"
  /\ level' = "IntOn"
  /\ UNCHANGED <<at, pending, status, inHandler, yieldOnReturn, disable>>

(* SetLevel(IntOn) with interrupts off.                                    *)
Enable == at = "thread" /\ level = "IntOff" /\ OneTick

(* Machine::Run executes user instructions, each followed by OneTick.      *)
RunUser ==
  /\ at = "thread" /\ level = "IntOn" /\ status = "SystemMode"
  /\ status' = "UserMode"
  /\ UNCHANGED <<at, pending, level, inHandler, yieldOnReturn, disable>>

OneInstruction == at = "thread" /\ status = "UserMode" /\ OneTick

(* CheckIfDue(FALSE), up to its loop.                                      *)
CheckIfDue ==
  /\ at = "check"
  /\ \/ IsDue(pending) /\ at' = "loop" /\ inHandler' = TRUE
     \/ ~IsDue(pending) /\ at' = "return" /\ UNCHANGED inHandler
  /\ UNCHANGED <<pending, level, status, yieldOnReturn, disable>>

(* The ready list is empty: Idle, with CheckIfDue(TRUE) up to its loop.    *)
Idle ==
  /\ at = "thread" /\ level = "IntOff"
  /\ status' = "IdleMode"
  /\ \/ /\ pending # << >>
        /\ pending' = IF IsDue(pending) THEN pending
                      ELSE Advance(pending, Head(pending).left)
        /\ inHandler' = TRUE
        /\ at' = "loop"
     \/ /\ pending = << >>
        /\ at' = "halted"
        /\ UNCHANGED <<pending, inHandler>>
  /\ UNCHANGED <<level, yieldOnReturn, disable>>

(* Mutant of AfterHandler: Timer::CallBack does not set the timer again.   *)
AfterHandlerOnce(d, rest) ==
  IF d \in Poller THEN {rest} \cup {Schedule(rest, d, n) : n \in Delay(d)}
                  ELSE {rest}

(* What the handler of device d leaves of the pending interrupts: the      *)
(* timer is set again unless it is disabled, a poller may look again       *)
(* later, a device that has done its work waits for the next request.      *)
AfterHandler(d, rest) ==
  LET again == {Schedule(rest, d, n) : n \in Delay(d)}
  IN  CASE d = Timer   -> IF disable THEN {rest} ELSE again
        [] d \in Poller -> {rest} \cup again
        [] OTHER        -> {rest}

(* Mutant of CallOnInterrupt: CheckIfDue calls one handler and returns.    *)
CallOnInterruptOnce ==
  /\ at = "loop"
  /\ LET d == Head(pending).device
     IN  /\ pending' \in AfterHandler(d, Tail(pending))
         /\ yieldOnReturn' = (yieldOnReturn \/ (d = Timer /\ status # "IdleMode"))
  /\ inHandler' = FALSE
  /\ at' = "return"
  /\ UNCHANGED <<level, status, disable>>

(* One round of CheckIfDue's loop, the test at its end included.           *)
CallOnInterrupt ==
  /\ at = "loop"
  /\ LET d == Head(pending).device
     IN  /\ pending' \in AfterHandler(d, Tail(pending))
         /\ yieldOnReturn' = (yieldOnReturn \/ (d = Timer /\ status # "IdleMode"))
  /\ inHandler' = IsDue(pending')
  /\ at' = IF IsDue(pending') THEN "loop" ELSE "return"
  /\ UNCHANGED <<level, status, disable>>

(* The end of OneTick; if the timer has asked for it, another thread runs. *)
ReturnFromOneTick ==
  /\ at = "return" /\ status # "IdleMode"
  /\ level' = "IntOn"
  /\ yieldOnReturn' = FALSE
  /\ status' \in IF yieldOnReturn THEN {"SystemMode", "UserMode"} ELSE {status}
  /\ at' = "thread"
  /\ UNCHANGED <<pending, inHandler, disable>>

(* The end of Idle.                                                        *)
ReturnFromIdle ==
  /\ at = "return" /\ status = "IdleMode"
  /\ status' = "SystemMode"
  /\ at' = "thread"
  /\ UNCHANGED <<pending, level, inHandler, yieldOnReturn, disable>>

(* Timer::Disable                                                          *)
DisableTimer ==
  /\ at = "thread" /\ ~disable
  /\ disable' = TRUE
  /\ UNCHANGED <<at, pending, level, status, inHandler, yieldOnReturn>>

InterruptNext ==
  \/ \E d \in Device : DeviceRequest(d)
  \/ Disable \/ Enable \/ RunUser \/ OneInstruction \/ CheckIfDue \/ Idle
  \/ CallOnInterrupt \/ ReturnFromOneTick \/ ReturnFromIdle \/ DisableTimer

InterruptSpec == InterruptInit /\ [][InterruptNext]_interruptVars

(* The machine keeps executing.                                            *)
InterruptFairness == WF_interruptVars(InterruptNext)

-----------------------------------------------------------------------------
(* While threads run, no interrupt is overdue, and one that is being taken *)
(* is late by less than the tick that made it due, not at all if the       *)
(* machine was idle: handlers always see device time to within one tick.   *)
OnTime ==
  \A i \in 1 .. Len(pending) :
    /\ at = "thread" => pending[i].left > 0
    /\ pending[i].left > -(IF status = "IdleMode" THEN 1 ELSE SystemTick)

(* Idle stops the machine only if the timer was disabled: as long as the   *)
(* kernel's Alarm is running, "Assuming the program completed" is never    *)
(* reached, whatever the threads wait for.                                 *)
HaltsOnlyWithoutTimer == at = "halted" => disable

(* The sorted list is an event clock: interrupts are taken in the order of *)
(* their times, never early, and time waits for those that are due.        *)
TicksLeft(list, d) ==
  IF \E i \in 1 .. Len(list) : list[i].device = d
  THEN list[CHOOSE i \in 1 .. Len(list) : list[i].device = d].left
  ELSE Nil
Left == [d \in Device |-> TicksLeft(pending, d)]

AbstractClock == INSTANCE EventClock WITH left <- Left, NULL <- Nil
ImplementsEventClock == AbstractClock!Spec

(* An interrupt is taken in its turn, never before its time, and at the    *)
(* first tick or the first idle moment after it.                           *)
ClockIsExact == [](InterruptTypeOK /\ OnTime) /\ ImplementsEventClock

(* CheckIfDue's loop ends although handlers schedule new interrupts in it, *)
(* and every interrupt a device asks for is taken in the end.              *)
EveryInterruptTaken ==
  \A d \in Device : (d \in Scheduled) ~> (at = "loop" /\ Head(pending).device = d)
=============================================================================

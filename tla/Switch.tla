------------------------------- MODULE Switch -------------------------------
(***************************************************************************)
(* The context switch on the x86: SWITCH and ThreadRoot (threads/switch.S, *)
(* switch.h) and Thread::StackAllocate, which prepares a stack so that the *)
(* first SWITCH to it starts ThreadRoot.                                   *)
(*                                                                         *)
(* A word of memory or of a register is <<kind, thread, number>>.  Stacks  *)
(* grow down from index StackSize - 1 and are followed by an unmapped page *)
(* (AllocBoundedArray).  Compiled code is modelled by the calling          *)
(* convention: a function saves ebp, ebx, esi and edi on the stack, uses   *)
(* them, and restores them when it returns; it may destroy eax, ecx, edx.  *)
(* Which thread runs next is the scheduler's choice (module Threads).      *)
(***************************************************************************)
EXTENDS Integers, Sequences

CONSTANTS
  Thread, Main, NoThread,
  StackSize   \* in words

SwitchAssumption ==
  Main \in Thread /\ NoThread \notin Thread /\ StackSize \in Nat /\ StackSize >= 16

VARIABLES
  regs, eaxSave,   \* the registers, and the word _eax_save
  stack,           \* the stack of each thread
  tcb,             \* stackTop and machineState of each thread
  currentThread,
  pc,              \* where the current thread is
  status,          \* of each thread: "new", "alive" or "finished"
  round,           \* 0 or 1, changed whenever a body puts new values in the registers
  called           \* the functions each thread has entered (history)

switchVars == <<regs, eaxSave, stack, tcb, currentThread, pc, status, round, called>>

Code(name) == <<name, NoThread, 0>>
Junk == Code("junk")
Argument(t) == <<"arg", t, 0>>

(* Words below and above address p, the word there, and storing one        *)
Up(p, n) == <<p[1], p[2], p[3] + n>>
Word(stk, p) == stk[p[2]][p[3]]
Store(stk, p, w) == [stk EXCEPT ![p[2]][p[3]] = w]
Top(t, i) == <<"stack", t, StackSize - i>>

(* Where the stack pointer of a body is: the return address, the argument  *)
(* and ThreadRoot's ebp are above its four saved registers                 *)
BodyTop(t) == Top(t, 11)

(* The registers of a body; n tells its values from its last ones          *)
BodyRegs(t, n) ==
  [eax |-> Junk, ecx |-> Junk, edx |-> Junk,
   ebx |-> <<"ebx", t, n>>, esi |-> <<"esi", t, n>>,
   edi |-> <<"edi", t, n>>, ebp |-> <<"ebp", t, n>>, esp |-> BodyTop(t)]

FreshStack == [i \in 0 .. StackSize + 3 |-> IF i < StackSize THEN Junk ELSE Code("unmapped")]

NoState == [eax |-> Junk, ebx |-> Junk, ecx |-> Junk, edx |-> Junk, esi |-> Junk,
            edi |-> Junk, ebp |-> Junk, esp |-> Junk, pc |-> Junk]

SwitchInit ==
  /\ currentThread = Main /\ pc = "Body"
  /\ round = [t \in Thread |-> 0]
  /\ regs = BodyRegs(Main, 0) /\ eaxSave = Junk
  /\ stack = [t \in Thread |-> FreshStack]
  /\ tcb = [t \in Thread |-> NoState]
  /\ status = [t \in Thread |-> IF t = Main THEN "alive" ELSE "new"]
  /\ called = [t \in Thread |-> IF t = Main THEN <<Code("main")>> ELSE << >>]

(* Mutant of StackAllocate: no words are left above the first frame.       *)
StackAllocateAtEnd(t) ==
  /\ stack' = [stack EXCEPT ![t] = [FreshStack EXCEPT ![StackSize - 1] = Code("ThreadRoot"),
                                                      ![0] = Code("STACK_FENCEPOST")]]
  /\ tcb' = [tcb EXCEPT ![t] =
       [@ EXCEPT !.esp = Top(t, 1), !.pc = Code("ThreadRoot"), !.ecx = Code("ThreadBegin"),
                 !.esi = Code("func"), !.edx = Argument(t), !.edi = Code("ThreadFinish")]]

(* Thread::StackAllocate with InitialArgState in edx, and so on (switch.h) *)
StackAllocate(t) ==
  /\ stack' = [stack EXCEPT ![t] = [FreshStack EXCEPT ![StackSize - 5] = Code("ThreadRoot"),
                                                      ![0] = Code("STACK_FENCEPOST")]]
  /\ tcb' = [tcb EXCEPT ![t] =
       [@ EXCEPT !.esp = Top(t, 5), !.pc = Code("ThreadRoot"), !.ecx = Code("ThreadBegin"),
                 !.esi = Code("func"), !.edx = Argument(t), !.edi = Code("ThreadFinish")]]

Fork(t) ==
  /\ pc = "Body" /\ status[t] = "new"
  /\ StackAllocate(t)
  /\ status' = [status EXCEPT ![t] = "alive"]
  /\ UNCHANGED <<regs, eaxSave, currentThread, pc, round, called>>

(* What SWITCH(t1, t2) saves in t1's object                                *)
Saved(ret, esp) ==
  [eax |-> regs.eax, ebx |-> regs.ebx, ecx |-> regs.ecx, edx |-> regs.edx, esi |-> regs.esi,
   edi |-> regs.edi, ebp |-> regs.ebp, esp |-> esp, pc |-> ret]

(* Mutant of SWITCH: edi is not saved.                                     *)
SWITCHWithoutEdi(t1, t2) ==
  LET esp    == Up(regs.esp, -3)
      pushed == Store(Store(stack, Up(esp, 2), <<"thread", t2, 0>>), Up(esp, 1), <<"thread", t1, 0>>)
      caller == Store(pushed, esp, Code("AfterSwitch"))
      save   == [tcb EXCEPT ![t1] = [Saved(Word(caller, esp), esp) EXCEPT !.edi = tcb[t1].edi]]
      next   == save[t2]
      stk    == Store(caller, Up(next.esp, 1), next.pc)
  IN /\ tcb' = save
     /\ eaxSave' = next.eax
     /\ stack' = stk
     /\ regs' = [r \in DOMAIN regs |-> IF r = "esp" THEN Up(next.esp, 1) ELSE next[r]]
     /\ pc' = Word(stk, next.esp)[1]

(* The call of SWITCH, which pushes t2, t1 and the return address, and     *)
(* SWITCH itself to its `ret' on the stack of t2.  It stores the saved pc  *)
(* above the return address, where t2 had pushed an argument, and `ret'    *)
(* takes the return address that is there already.                         *)
SWITCH(t1, t2) ==
  LET esp    == Up(regs.esp, -3)
      pushed == Store(Store(stack, Up(esp, 2), <<"thread", t2, 0>>), Up(esp, 1), <<"thread", t1, 0>>)
      caller == Store(pushed, esp, Code("AfterSwitch"))
      save   == [tcb EXCEPT ![t1] = Saved(Word(caller, esp), esp)]
      next   == save[t2]
      stk    == Store(caller, Up(next.esp, 1), next.pc)
  IN /\ tcb' = save
     /\ eaxSave' = next.eax
     /\ stack' = stk
     /\ regs' = [r \in DOMAIN regs |-> IF r = "esp" THEN Up(next.esp, 1) ELSE next[r]]
     /\ pc' = Word(stk, next.esp)[1]

(* The current thread is in ThreadFinish, which calls Thread::Finish       *)
InFinish == called[currentThread][Len(called[currentThread])] = Code("ThreadFinish")

(* Scheduler::Run in a body; a thread in Finish never runs again           *)
Run(t2) ==
  /\ pc = "Body" /\ t2 # currentThread /\ status[t2] = "alive"
  /\ SWITCH(currentThread, t2)
  /\ currentThread' = t2
  /\ status' = IF InFinish THEN [status EXCEPT ![currentThread] = "finished"] ELSE status
  /\ UNCHANGED <<round, called>>

(* Back in Scheduler::Run: the arguments are popped and the body goes on,  *)
(* with other values in the registers                                      *)
AfterSwitch ==
  /\ pc = "AfterSwitch"
  /\ pc' = "Body"
  /\ round' = [round EXCEPT ![currentThread] = 1 - @]
  /\ regs' = BodyRegs(currentThread, 1 - round[currentThread])
  /\ UNCHANGED <<eaxSave, stack, tcb, currentThread, status, called>>

(* `call' of function f with stack pointer esp and registers r, and the    *)
(* entry of f, which saves the registers it will use                       *)
Call(stk, esp, f, return, r) ==
  /\ stack' = Store(Store(Store(Store(Store(stk, Up(esp, -1), Code(return)),
                Up(esp, -2), r.ebp), Up(esp, -3), r.ebx), Up(esp, -4), r.esi), Up(esp, -5), r.edi)
  /\ regs' = [BodyRegs(currentThread, round[currentThread]) EXCEPT !.esp = Up(esp, -5)]
  /\ pc' = "Body"
  /\ called' = [called EXCEPT ![currentThread] =
                  @ \o (IF f = Code("func") THEN <<f, Word(stk, esp)>> ELSE <<f>>)]
  /\ UNCHANGED <<eaxSave, tcb, currentThread, status, round>>

(* Mutant of ThreadRoot: the argument is pushed in front of func.          *)
ThreadRootArgLate ==
  LET stk == Store(stack, Up(regs.esp, -1), regs.ebp)
      frame == [regs EXCEPT !.ebp = Up(regs.esp, -1)]
  IN /\ pc = "ThreadRoot"
     /\ Call(stk, Up(regs.esp, -2), regs.ecx, "AfterBegin", frame)

(* ThreadRoot to its first call, of StartupPC in ecx                       *)
ThreadRoot ==
  LET stk == Store(Store(stack, Up(regs.esp, -1), regs.ebp), Up(regs.esp, -2), regs.edx)
      frame == [regs EXCEPT !.ebp = Up(regs.esp, -1)]
  IN /\ pc = "ThreadRoot"
     /\ Call(stk, Up(regs.esp, -2), regs.ecx, "AfterBegin", frame)

(* The calls of InitialPC in esi and of WhenDonePC in edi                  *)
CallFunc   == pc = "AfterBegin" /\ Call(stack, regs.esp, regs.esi, "AfterFunc", regs)
CallFinish == pc = "AfterFunc" /\ Call(stack, regs.esp, regs.edi, "NotReached", regs)

(* A body restores the registers and returns                               *)
Return ==
  /\ pc = "Body" /\ currentThread # Main /\ ~InFinish
  /\ regs' = [BodyRegs(currentThread, round[currentThread]) EXCEPT
                !.edi = Word(stack, regs.esp), !.esi = Word(stack, Up(regs.esp, 1)),
                !.ebx = Word(stack, Up(regs.esp, 2)), !.ebp = Word(stack, Up(regs.esp, 3)),
                !.esp = Up(regs.esp, 5)]
  /\ pc' = Word(stack, Up(regs.esp, 4))[1]
  /\ UNCHANGED <<eaxSave, stack, tcb, currentThread, status, round, called>>

SwitchNext == AfterSwitch \/ ThreadRoot \/ CallFunc \/ CallFinish \/ Return
              \/ \E t \in Thread : Fork(t) \/ Run(t)

SwitchSpec == SwitchInit /\ [][SwitchNext]_switchVars

-----------------------------------------------------------------------------
(* When SWITCH returns to a thread, its stack pointer and the registers    *)
(* that survive a call are what they were when the thread called SWITCH,   *)
(* whatever the other threads have done in between.                        *)
RegistersKept ==
  pc = "AfterSwitch" =>
    LET t == currentThread IN
    /\ regs.esp = Up(BodyTop(t), -2)
    /\ \A r \in {"ebx", "esi", "edi", "ebp"} : regs[r] = BodyRegs(t, round[t])[r]

(* A forked thread enters ThreadBegin, then the function it was forked     *)
(* with and its argument, then ThreadFinish, and nothing else.             *)
RootCallsInOrder ==
  \A t \in Thread \ {Main} :
    LET calls == <<Code("ThreadBegin"), Code("func"), Argument(t), Code("ThreadFinish")>> IN
    Len(called[t]) <= Len(calls) /\ \A i \in 1 .. Len(called[t]) : called[t][i] = calls[i]

(* No thread ever writes outside of its stack, and CheckOverflow finds the *)
(* fencepost.                                                              *)
StacksInBounds ==
  \A t \in Thread :
    /\ \A i \in StackSize .. StackSize + 3 : stack[t][i] = Code("unmapped")
    /\ t # Main /\ status[t] # "new" => stack[t][0] = Code("STACK_FENCEPOST")

(* A thread finds its registers as they were when it was switched out, a   *)
(* new one is begun, run and finished by ThreadRoot in this order, and no  *)
(* code writes outside of its thread's stack.                              *)
SwitchIsTransparent == RegistersKept /\ RootCallsInOrder /\ StacksInBounds
=============================================================================

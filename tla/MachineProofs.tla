--------------------------- MODULE MachineProofs ----------------------------
(***************************************************************************)
(* Proofs about the context switch (module Switch), for every set of       *)
(* threads and every stack of at least 16 words, and about the page table  *)
(* as the machine and the kernel use it (module PageTable), for every page *)
(* size, memory and program.                                               *)
(***************************************************************************)
EXTENDS Switch, PageTable, SequenceTheorems, TLAPS

-----------------------------------------------------------------------------
(* The indices of a stack and of the unmapped page that follows it;        *)
(* position k of a stack is k words below the end of it.                   *)
Index == 0 .. StackSize + 3
Memory(stk) ==
  /\ stk = [t \in Thread |-> stk[t]]
  /\ \A t \in Thread : stk[t] = [i \in Index |-> stk[t][i]]
At(stk, t, k) == Word(stk, Top(t, k))
Position == -3 .. StackSize

(* Position k is at index StackSize - k.                                   *)
LEMMA PlaceOf ==
  ASSUME SwitchAssumption, NEW k \in Position
  PROVE  StackSize - k \in Index /\ \A stk, t : At(stk, t, k) = stk[t][StackSize - k]
BY DEF SwitchAssumption, Position, Index, At, Word, Top

(* Adding n to the address of position k gives that of position k - n.     *)
LEMMA UpFrom ==
  ASSUME SwitchAssumption, NEW k \in Int, NEW n \in Int, NEW t
  PROVE  Up(Top(t, k), n) = Top(t, k - n)
BY DEF SwitchAssumption, Top, Up

(* Memory new is memory stk, but for word w at position k of t's stack.    *)
Stored(stk, new, t, k, w) ==
  /\ Memory(new) /\ At(new, t, k) = w
  /\ \A u \in Thread, j \in Position : u # t \/ j # k => At(new, u, j) = At(stk, u, j)

(* Store changes the word it is meant to change and no other.              *)
LEMMA StoreAt ==
  ASSUME SwitchAssumption, NEW stk, Memory(stk), NEW t \in Thread, NEW k \in Position, NEW w
  PROVE  Stored(stk, Store(stk, Top(t, k), w), t, k, w)
<1>1. PICK i \in Index : i = StackSize - k
  BY PlaceOf, Zenon
<1>2. PICK new : new = [stk EXCEPT ![t][i] = w]
  BY Zenon
<1>3. Store(stk, Top(t, k), w) = new
  BY <1>1, <1>2 DEF Store, Top
<1>4. /\ Memory(new) /\ new[t][i] = w
      /\ \A u \in Thread, j \in Index : u # t \/ j # i => new[u][j] = stk[u][j]
  BY <1>2, Zenon DEF Memory
<1>5. At(new, t, k) = w
  BY <1>1, <1>4, PlaceOf, ZenonT(30)
<1>6. ASSUME NEW u \in Thread, NEW j \in Position, u # t \/ j # k
      PROVE  At(new, u, j) = At(stk, u, j)
  <2>1. /\ StackSize - j \in Index /\ At(new, u, j) = new[u][StackSize - j]
        /\ At(stk, u, j) = stk[u][StackSize - j]
    BY PlaceOf, Zenon
  <2>2. j # k => StackSize - j # i
    BY <1>1 DEF Position, SwitchAssumption
  <2>. QED  BY <1>4, <1>6, <2>1, <2>2, Zenon
<1>. QED  BY <1>3, <1>4, <1>5, <1>6, Zenon DEF Stored
-----------------------------------------------------------------------------
(* The registers, those which a function call preserves, and the functions *)
(* a forked thread has entered at each stage of its life.                  *)
Registers == {"eax", "ebx", "ecx", "edx", "esi", "edi", "ebp", "esp"}
CalleeSaved == {"ebx", "esi", "edi", "ebp"}

Began == <<Code("ThreadBegin")>>
Ran(t) == <<Code("ThreadBegin"), Code("func"), Argument(t)>>
Done(t) == <<Code("ThreadBegin"), Code("func"), Argument(t), Code("ThreadFinish")>>

(* What ThreadRoot's frame and the body it has called keep on the stack of *)
(* a thread that has begun: the argument for func, where to return to, and *)
(* the values of esi and edi that Return gives back to ThreadRoot.         *)
Frame(t) ==
  /\ At(stack, t, 6) = Argument(t)
  /\ called[t] = Began => At(stack, t, 7) = Code("AfterBegin")
  /\ called[t] = Ran(t) => At(stack, t, 7) = Code("AfterFunc")
  /\ At(stack, t, 10) = Code("func") /\ At(stack, t, 11) = Code("ThreadFinish")

(* A thread that StackAllocate has prepared, and one that SWITCH has       *)
(* suspended: what the next SWITCH to it finds.                            *)
Fresh(t) ==
  /\ tcb[t].esp = Top(t, 5) /\ tcb[t].ecx = Code("ThreadBegin") /\ tcb[t].esi = Code("func")
  /\ tcb[t].edx = Argument(t) /\ tcb[t].edi = Code("ThreadFinish")
  /\ At(stack, t, 5) = Code("ThreadRoot")
Suspended(t) ==
  /\ tcb[t].esp = Top(t, 14) /\ At(stack, t, 14) = Code("AfterSwitch")
  /\ \A r \in CalleeSaved : tcb[t][r] = BodyRegs(t, round[t])[r]
Waiting(t) ==
  \/ called[t] = << >> /\ Fresh(t)
  \/ called[t] # << >> /\ Suspended(t)

(* The words around the stack are as AllocBoundedArray and StackAllocate   *)
(* left them.                                                              *)
InBounds(t) ==
  /\ \A k \in -3 .. 0 : At(stack, t, k) = Code("unmapped")
  /\ t # Main /\ status[t] # "new" => At(stack, t, StackSize) = Code("STACK_FENCEPOST")

(* How far a forked thread is, and what holds of each thread there.        *)
Stage(t) == called[t] \in {<< >>, Began, Ran(t), Done(t)}
ThreadInv(t) ==
  /\ InBounds(t)
  /\ status[t] = "new" => tcb[t] = NoState /\ called[t] = << >>
  /\ t # Main => Stage(t) /\ (called[t] # << >> => Frame(t))
  /\ status[t] = "alive" /\ t # currentThread => Waiting(t)

(* Where the current thread is, and what its registers then hold.          *)
CurrentInv(t) ==
  \/ pc = "Body" /\ called[t] # << >> /\ regs = BodyRegs(t, round[t])
  \/ /\ pc = "AfterSwitch" /\ called[t] # << >> /\ regs.esp = Top(t, 13)
     /\ \A r \in CalleeSaved : regs[r] = BodyRegs(t, round[t])[r]
  \/ /\ pc = "ThreadRoot" /\ called[t] = << >> /\ regs.esp = Top(t, 4)
     /\ regs.ecx = Code("ThreadBegin") /\ regs.esi = Code("func")
     /\ regs.edx = Argument(t) /\ regs.edi = Code("ThreadFinish")
  \/ /\ (pc = "AfterBegin" /\ called[t] = Began) \/ (pc = "AfterFunc" /\ called[t] = Ran(t))
     /\ t # Main /\ regs.esp = Top(t, 6)
     /\ regs.esi = Code("func") /\ regs.edi = Code("ThreadFinish")

(* The inductive invariant of the context switch.                          *)
SwitchTypeOK ==
  /\ Memory(stack) /\ tcb = [t \in Thread |-> tcb[t]] /\ called = [t \in Thread |-> called[t]]
  /\ regs = [r \in Registers |-> regs[r]]
  /\ status \in [Thread -> {"new", "alive", "finished"}] /\ round \in [Thread -> 0 .. 1]
  /\ currentThread \in Thread
SwitchInv ==
  /\ SwitchTypeOK /\ status[currentThread] = "alive"
  /\ called[Main] = <<Code("main")>> /\ status[Main] # "new"
  /\ \A t \in Thread : ThreadInv(t)
  /\ CurrentInv(currentThread)

-----------------------------------------------------------------------------
(* What the call of SWITCH does when t2's saved stack pointer is at        *)
(* position k: it writes below t1's body, and on t2's stack only the word  *)
(* above the return address, which nobody reads again.                     *)
Switched(t1, t2, k) ==
  /\ Memory(stack') /\ At(stack', t1, 14) = Code("AfterSwitch")
  /\ \A u \in Thread, j \in Position :
       (u = t1 => j \notin {12, 13, 14}) /\ (u = t2 => j # k - 1) =>
         At(stack', u, j) = At(stack, u, j)
  /\ tcb' = [tcb EXCEPT ![t1] = Saved(Code("AfterSwitch"), Top(t1, 14))]
  /\ regs' = [r \in DOMAIN regs |-> IF r = "esp" THEN Top(t2, k - 1) ELSE tcb[t2][r]]
  /\ pc' = At(stack, t2, k)[1]

(* Memory new is memory stk after t has pushed three words, c last.        *)
Written(stk, new, t, c) ==
  /\ Memory(new) /\ At(new, t, 14) = c
  /\ \A u \in Thread, j \in Position :
       (u = t => j \notin {12, 13, 14}) => At(new, u, j) = At(stk, u, j)

(* The pushes of the arguments and of the return address of SWITCH.        *)
LEMMA ThreeStores ==
  ASSUME SwitchAssumption, NEW stk, Memory(stk), NEW t \in Thread, NEW a, NEW b, NEW c,
         NEW new, new = Store(Store(Store(stk, Top(t, 12), a), Top(t, 13), b), Top(t, 14), c)
  PROVE  Written(stk, new, t, c)
<1>1. 12 \in Position /\ 13 \in Position /\ 14 \in Position
  BY DEF SwitchAssumption, Position
<1>2. PICK one : one = Store(stk, Top(t, 12), a)
  BY Zenon
<1>3. PICK two : two = Store(one, Top(t, 13), b)
  BY Zenon
<1>4. Stored(stk, one, t, 12, a)
  BY <1>1, <1>2, StoreAt, Zenon
<1>5. Stored(one, two, t, 13, b)
  <2>1. Memory(one)
    BY <1>4, Zenon DEF Stored
  <2>. QED  BY <1>1, <1>3, <2>1, StoreAt, Zenon
<1>6. Stored(two, new, t, 14, c)
  <2>1. Memory(two)
    BY <1>5, Zenon DEF Stored
  <2>2. new = Store(two, Top(t, 14), c)
    BY <1>2, <1>3, Zenon
  <2>. QED  BY <1>1, <2>1, <2>2, StoreAt, Zenon
<1>. QED  BY <1>4, <1>5, <1>6, ZenonT(30) DEF Stored, Written

(* A thread is switched to at position 5 (a fresh one) or 14.              *)
LEMMA BothTops ==
  ASSUME SwitchAssumption, NEW k \in {5, 14}
  PROVE  14 \in Position /\ k \in Position /\ k - 1 \in Position /\ k # k - 1 /\ k \in Int
<1>1. CASE k = 5
  BY <1>1 DEF SwitchAssumption, Position
<1>2. CASE k = 14
  BY <1>2 DEF SwitchAssumption, Position
<1>. QED  BY <1>1, <1>2, Zenon

(* The addresses SWITCH and its call use, as positions.                    *)
LEMMA Pushes ==
  ASSUME SwitchAssumption, NEW t
  PROVE  /\ Up(Top(t, 11), -3) = Top(t, 14) /\ Up(Top(t, 14), 2) = Top(t, 12)
         /\ Up(Top(t, 14), 1) = Top(t, 13)
BY DEF SwitchAssumption, Top, Up

(* SWITCH does what Switched says.                                         *)
LEMMA SwitchStep ==
  ASSUME SwitchAssumption, Memory(stack), tcb = [t \in Thread |-> tcb[t]],
         NEW t1 \in Thread, NEW t2 \in Thread, t1 # t2, regs.esp = BodyTop(t1),
         NEW k \in {5, 14}, tcb[t2].esp = Top(t2, k), SWITCH(t1, t2)
  PROVE  Switched(t1, t2, k)
<1>1. /\ 14 \in Position /\ k \in Position /\ k - 1 \in Position /\ k # k - 1 /\ k \in Int
  BY BothTops, Zenon
<1>2. /\ Up(Top(t1, 11), -3) = Top(t1, 14) /\ Up(Top(t1, 14), 2) = Top(t1, 12)
      /\ Up(Top(t1, 14), 1) = Top(t1, 13)
  BY Pushes, Zenon
<1>3. Up(Top(t2, k), 1) = Top(t2, k - 1)
  BY <1>1, UpFrom
<1>4. PICK caller : caller = Store(Store(Store(stack, Top(t1, 12), <<"thread", t2, 0>>),
                         Top(t1, 13), <<"thread", t1, 0>>), Top(t1, 14), Code("AfterSwitch"))
  BY Zenon
<1>5. Written(stack, caller, t1, Code("AfterSwitch"))
  BY <1>4, ThreeStores, Zenon
<1>6. PICK save : save = [tcb EXCEPT ![t1] = Saved(At(caller, t1, 14), Top(t1, 14))]
  BY Zenon
<1>7. save[t2] = tcb[t2]
  BY <1>6
<1>8. PICK stk : stk = Store(caller, Top(t2, k - 1), tcb[t2].pc)
  BY Zenon
<1>9. /\ tcb' = save /\ stack' = stk /\ pc' = At(stk, t2, k)[1]
      /\ regs' = [r \in DOMAIN regs |-> IF r = "esp" THEN Top(t2, k - 1) ELSE tcb[t2][r]]
  BY <1>2, <1>3, <1>4, <1>6, <1>7, <1>8, Zenon DEF SWITCH, BodyTop, At
<1>10. Stored(caller, stk, t2, k - 1, tcb[t2].pc)
  <2>1. Memory(caller)
    BY <1>5, Zenon DEF Written
  <2>. QED  BY <1>1, <1>8, <2>1, StoreAt, Zenon
<1>11. /\ At(caller, t1, 14) = Code("AfterSwitch") /\ At(stk, t1, 14) = Code("AfterSwitch")
       /\ At(stk, t2, k) = At(stack, t2, k) /\ Memory(stk)
  BY <1>1, <1>5, <1>10, Zenon DEF Stored, Written
<1>12. \A u \in Thread, j \in Position :
         (u = t1 => j \notin {12, 13, 14}) /\ (u = t2 => j # k - 1) =>
            At(stk, u, j) = At(stack, u, j)
  BY <1>5, <1>10, ZenonT(30) DEF Stored, Written
<1>. QED  BY <1>6, <1>9, <1>11, <1>12, Zenon DEF Switched

-----------------------------------------------------------------------------
(* Memory new is memory stk after t has called a function from ThreadRoot  *)
(* and the function has saved the registers.                               *)
Entered(stk, new, t, ret, esi, edi) ==
  /\ Memory(new) /\ At(new, t, 7) = ret /\ At(new, t, 10) = esi /\ At(new, t, 11) = edi
  /\ \A u \in Thread, j \in Position :
       (u = t => j \notin 7 .. 11) => At(new, u, j) = At(stk, u, j)

(* The pushes of a call and of the entry of a function.                    *)
LEMMA FiveStores ==
  ASSUME SwitchAssumption, NEW stk, Memory(stk), NEW t \in Thread,
         NEW ret, NEW ebp, NEW ebx, NEW esi, NEW edi, NEW new,
         new = Store(Store(Store(Store(Store(stk, Top(t, 7), ret), Top(t, 8), ebp),
                 Top(t, 9), ebx), Top(t, 10), esi), Top(t, 11), edi)
  PROVE  Entered(stk, new, t, ret, esi, edi)
<1>1. /\ 7 \in Position /\ 8 \in Position /\ 9 \in Position /\ 10 \in Position /\ 11 \in Position
      /\ 7 .. 11 = {7, 8, 9, 10, 11}
  BY DEF SwitchAssumption, Position
<1>2. PICK a : a = Store(stk, Top(t, 7), ret)
  BY Zenon
<1>3. Stored(stk, a, t, 7, ret)
  BY <1>1, <1>2, StoreAt, Zenon
<1>4. PICK b : b = Store(a, Top(t, 8), ebp)
  BY Zenon
<1>5. Stored(a, b, t, 8, ebp)
  <2>1. Memory(a)
    BY <1>3, Zenon DEF Stored
  <2>. QED  BY <1>1, <1>4, <2>1, StoreAt, Zenon
<1>6. PICK c : c = Store(b, Top(t, 9), ebx)
  BY Zenon
<1>7. Stored(b, c, t, 9, ebx)
  <2>1. Memory(b)
    BY <1>5, Zenon DEF Stored
  <2>. QED  BY <1>1, <1>6, <2>1, StoreAt, Zenon
<1>8. PICK d : d = Store(c, Top(t, 10), esi)
  BY Zenon
<1>9. Stored(c, d, t, 10, esi)
  <2>1. Memory(c)
    BY <1>7, Zenon DEF Stored
  <2>. QED  BY <1>1, <1>8, <2>1, StoreAt, Zenon
<1>10. Stored(d, new, t, 11, edi)
  <2>1. Memory(d)
    BY <1>9, Zenon DEF Stored
  <2>2. new = Store(d, Top(t, 11), edi)
    BY <1>2, <1>4, <1>6, <1>8, Zenon
  <2>. QED  BY <1>1, <2>1, <2>2, StoreAt, Zenon
<1>11. ASSUME NEW u \in Thread, NEW j \in Position, u = t => j \notin 7 .. 11
       PROVE  At(new, u, j) = At(stk, u, j)
  <2>1. u # t \/ (j # 7 /\ j # 8 /\ j # 9 /\ j # 10 /\ j # 11)
    BY <1>1, <1>11, Zenon
  <2>2. At(a, u, j) = At(stk, u, j) /\ At(b, u, j) = At(a, u, j)
    BY <1>3, <1>5, <2>1, Zenon DEF Stored
  <2>3. At(c, u, j) = At(b, u, j) /\ At(d, u, j) = At(c, u, j)
    BY <1>7, <1>9, <2>1, Zenon DEF Stored
  <2>4. At(new, u, j) = At(d, u, j)
    BY <1>10, <2>1, Zenon DEF Stored
  <2>. QED  BY <2>2, <2>3, <2>4, Zenon
<1>12. 7 # 8 /\ 7 # 9 /\ 7 # 10 /\ 7 # 11 /\ 10 # 11
  OBVIOUS
<1>13. At(new, t, 7) = ret
  <2>1. At(a, t, 7) = ret /\ At(b, t, 7) = At(a, t, 7)
    BY <1>1, <1>3, <1>5, <1>12, Zenon DEF Stored
  <2>2. At(c, t, 7) = At(b, t, 7) /\ At(d, t, 7) = At(c, t, 7)
    BY <1>1, <1>7, <1>9, <1>12, Zenon DEF Stored
  <2>3. At(new, t, 7) = At(d, t, 7)
    BY <1>1, <1>10, <1>12, Zenon DEF Stored
  <2>. QED  BY <2>1, <2>2, <2>3, Zenon
<1>14. At(new, t, 10) = esi
  BY <1>1, <1>9, <1>10, <1>12, Zenon DEF Stored
<1>. QED  BY <1>10, <1>11, <1>13, <1>14, Zenon DEF Entered, Stored

(* Call does what Entered says and leaves the registers to the body.       *)
LEMMA CallStep ==
  ASSUME SwitchAssumption, NEW stk, Memory(stk), currentThread \in Thread,
         NEW f, NEW return, NEW r, Call(stk, Top(currentThread, 6), f, return, r)
  PROVE  /\ Entered(stk, stack', currentThread, Code(return), r.esi, r.edi)
         /\ regs' = BodyRegs(currentThread, round[currentThread])
<1> DEFINE t == currentThread
<1>1. /\ Up(Top(t, 6), -1) = Top(t, 7) /\ Up(Top(t, 6), -2) = Top(t, 8)
      /\ Up(Top(t, 6), -3) = Top(t, 9) /\ Up(Top(t, 6), -4) = Top(t, 10)
      /\ Up(Top(t, 6), -5) = Top(t, 11)
  BY DEF SwitchAssumption, Top, Up
<1>2. stack' = Store(Store(Store(Store(Store(stk, Top(t, 7), Code(return)), Top(t, 8), r.ebp),
                 Top(t, 9), r.ebx), Top(t, 10), r.esi), Top(t, 11), r.edi)
  BY <1>1, Zenon DEF Call
<1>3. regs' = [BodyRegs(t, round[t]) EXCEPT !.esp = BodyTop(t)]
  BY <1>1, Zenon DEF Call, BodyTop
<1>4. regs' = BodyRegs(t, round[t])
  BY <1>3 DEF BodyRegs
<1>. QED  BY <1>2, <1>4, FiveStores, Zenon

-----------------------------------------------------------------------------
(* Appending to the short histories of calls.                              *)
LEMMA ConcatOne ==
  ASSUME NEW a
  PROVE  << >> \o <<a>> = <<a>> /\ Len(<<a>>) = 1
<1>1. << >> \o <<a>> \in Seq({a}) /\ Len(<< >> \o <<a>>) = 1
  OBVIOUS
<1>2. <<a>> \in Seq({a}) /\ Len(<<a>>) = 1
  OBVIOUS
<1>3. \A i \in 1 .. 1 : (<< >> \o <<a>>)[i] = <<a>>[i]
  OBVIOUS
<1>. QED  BY <1>1, <1>2, <1>3, SeqEqual, Zenon

LEMMA ConcatThree ==
  ASSUME NEW a, NEW b, NEW c
  PROVE  <<a>> \o <<b, c>> = <<a, b, c>> /\ Len(<<a, b, c>>) = 3
<1>1. <<a>> \o <<b, c>> \in Seq({a, b, c}) /\ Len(<<a>> \o <<b, c>>) = 3
  OBVIOUS
<1>2. <<a, b, c>> \in Seq({a, b, c}) /\ Len(<<a, b, c>>) = 3
  OBVIOUS
<1>3. \A i \in 1 .. 3 : (<<a>> \o <<b, c>>)[i] = <<a, b, c>>[i]
  OBVIOUS
<1>. QED  BY <1>1, <1>2, <1>3, SeqEqual, Zenon

LEMMA ConcatFour ==
  ASSUME NEW a, NEW b, NEW c, NEW d
  PROVE  <<a, b, c>> \o <<d>> = <<a, b, c, d>> /\ Len(<<a, b, c, d>>) = 4
<1>1. <<a, b, c>> \o <<d>> \in Seq({a, b, c, d}) /\ Len(<<a, b, c>> \o <<d>>) = 4
  OBVIOUS
<1>2. <<a, b, c, d>> \in Seq({a, b, c, d}) /\ Len(<<a, b, c, d>>) = 4
  OBVIOUS
<1>3. \A i \in 1 .. 4 : (<<a, b, c>> \o <<d>>)[i] = <<a, b, c, d>>[i]
  OBVIOUS
<1>. QED  BY <1>1, <1>2, <1>3, SeqEqual, Zenon

(* Each call takes a forked thread to its next stage, and the stages       *)
(* differ.                                                                 *)
LEMMA Stages ==
  ASSUME NEW t
  PROVE  /\ << >> \o <<Code("ThreadBegin")>> = Began
         /\ Began \o <<Code("func"), Argument(t)>> = Ran(t)
         /\ Ran(t) \o <<Code("ThreadFinish")>> = Done(t)
         /\ Began # << >> /\ Ran(t) # << >> /\ Done(t) # << >> /\ <<Code("main")>> # << >>
         /\ Began # Ran(t) /\ Began # Done(t) /\ Ran(t) # Done(t)
<1>1. /\ << >> \o <<Code("ThreadBegin")>> = Began
      /\ Began \o <<Code("func"), Argument(t)>> = Ran(t)
      /\ Ran(t) \o <<Code("ThreadFinish")>> = Done(t)
  BY ConcatOne, ConcatThree, ConcatFour, Zenon DEF Began, Ran, Done
<1>2. Len(<< >>) = 0
  OBVIOUS
<1>3. Len(Began) = 1 /\ Len(Ran(t)) = 3 /\ Len(Done(t)) = 4 /\ Len(<<Code("main")>>) = 1
  BY ConcatOne, ConcatThree, ConcatFour, Zenon DEF Began, Ran, Done
<1>4. /\ Began # << >> /\ Ran(t) # << >> /\ Done(t) # << >> /\ <<Code("main")>> # << >>
      /\ Began # Ran(t) /\ Began # Done(t) /\ Ran(t) # Done(t)
  <2>1. 1 # 0 /\ 3 # 0 /\ 4 # 0 /\ 1 # 3 /\ 1 # 4 /\ 3 # 4
    OBVIOUS
  <2>. QED  BY <1>2, <1>3, <2>1, Zenon
<1>. QED  BY <1>1, <1>4, Zenon

(* Only a thread at the last stage is in ThreadFinish.                     *)
LEMMA LastCall ==
  ASSUME NEW t
  PROVE  /\ Began[Len(Began)] # Code("ThreadFinish") /\ Ran(t)[Len(Ran(t))] # Code("ThreadFinish")
         /\ Done(t)[Len(Done(t))] = Code("ThreadFinish")
         /\ <<Code("main")>>[Len(<<Code("main")>>)] # Code("ThreadFinish")
BY DEF Began, Ran, Done, Code, Argument

(* The positions the model uses are in the stack or next to it, and no     *)
(* push reaches the ends of the stack, because it has at least 16 words.   *)
LEMMA UsedPositions ==
  ASSUME SwitchAssumption
  PROVE  /\ 5 \in Position /\ 6 \in Position /\ 7 \in Position /\ 10 \in Position
         /\ 11 \in Position /\ 14 \in Position /\ StackSize \in Position
         /\ \A k \in -3 .. 0 : k \in Position /\ k \notin 4 .. 14
         /\ StackSize \notin 4 .. 14
BY DEF SwitchAssumption, Position

(* The stack of thread t does not change.                                  *)
SameStack(t) == \A k \in Position : At(stack', t, k) = At(stack, t, k)

(* A thread whose stack and object do not change keeps its invariant.      *)
LEMMA OtherThread ==
  ASSUME SwitchAssumption, NEW t \in Thread, ThreadInv(t), SameStack(t), tcb'[t] = tcb[t],
         called'[t] = called[t], status'[t] = status[t], round'[t] = round[t],
         t # currentThread' => t # currentThread
  PROVE  ThreadInv(t)'
<1>1. /\ At(stack', t, 5) = At(stack, t, 5) /\ At(stack', t, 6) = At(stack, t, 6)
      /\ At(stack', t, 7) = At(stack, t, 7) /\ At(stack', t, 10) = At(stack, t, 10)
      /\ At(stack', t, 11) = At(stack, t, 11) /\ At(stack', t, 14) = At(stack, t, 14)
      /\ At(stack', t, StackSize) = At(stack, t, StackSize)
      /\ \A k \in -3 .. 0 : At(stack', t, k) = At(stack, t, k)
  BY UsedPositions, Zenon DEF SameStack
<1>2. InBounds(t)'
  BY <1>1, Zenon DEF ThreadInv, InBounds
<1>3. called[t] # << >> /\ Frame(t) => Frame(t)'
  BY <1>1, Zenon DEF Frame
<1>4. Waiting(t) => Waiting(t)'
  BY <1>1, Zenon DEF Waiting, Fresh, Suspended
<1>. QED  BY <1>2, <1>3, <1>4, Zenon DEF ThreadInv, Stage

(* Writing only at positions 4 to 14 keeps a stack in bounds.              *)
LEMMA StillInBounds ==
  ASSUME SwitchAssumption, NEW t \in Thread, InBounds(t), status'[t] # "new" => status[t] # "new",
         \A k \in Position : k \notin 4 .. 14 => At(stack', t, k) = At(stack, t, k)
  PROVE  InBounds(t)'
<1>1. /\ At(stack', t, StackSize) = At(stack, t, StackSize)
      /\ \A k \in -3 .. 0 : At(stack', t, k) = At(stack, t, k)
  BY UsedPositions, Zenon
<1>. QED  BY <1>1, Zenon DEF InBounds

(* A thread object holds stack pointer esp and what t's body had in the    *)
(* registers.                                                              *)
Keeps(object, esp, t, n) ==
  object.esp = esp /\ \A r \in CalleeSaved : object[r] = BodyRegs(t, n)[r]

(* What SWITCH saves in the object of a thread that is in its body.        *)
LEMMA SavedRegisters ==
  ASSUME NEW t, NEW n, regs = BodyRegs(t, n), NEW ret, NEW esp
  PROVE  regs.esp = BodyTop(t) /\ Keeps(Saved(ret, esp), esp, t, n)
BY DEF Keeps, Saved, BodyRegs, CalleeSaved

(* Run: the old thread is suspended with its registers in its object, the  *)
(* new one finds what its object holds, and no other thread is touched.    *)
LEMMA RunInv ==
  ASSUME SwitchAssumption, SwitchInv, NEW t2 \in Thread, Run(t2)
  PROVE  SwitchInv'
<1>1. PICK t1 \in Thread : t1 = currentThread
  BY Zenon DEF SwitchInv, SwitchTypeOK
<1>2. /\ called[t1] # << >> /\ regs = BodyRegs(t1, round[t1])
  BY <1>1, Zenon DEF SwitchInv, CurrentInv, Run
<1>3. /\ t1 # t2 /\ status[t2] = "alive" /\ SWITCH(t1, t2) /\ currentThread' = t2
      /\ round' = round /\ called' = called
  BY <1>1, Zenon DEF Run
<1>4. /\ status' \in [Thread -> {"new", "alive", "finished"}] /\ status'[t2] = "alive"
      /\ \A u \in Thread : u # t1 => status'[u] = status[u]
      /\ status[t1] = "alive" /\ status'[t1] # "new"
  BY <1>1, <1>3 DEF Run, SwitchInv, SwitchTypeOK
<1>5. ThreadInv(t1) /\ ThreadInv(t2) /\ Waiting(t2)
  BY <1>1, <1>3, Zenon DEF SwitchInv, ThreadInv
<1>6. PICK k \in {5, 14} : \/ k = 5 /\ called[t2] = << >> /\ Fresh(t2)
                           \/ k = 14 /\ called[t2] # << >> /\ Suspended(t2)
  BY <1>5, Zenon DEF Waiting
<1>7. Switched(t1, t2, k)
  <2>1. tcb[t2].esp = Top(t2, k)
    BY <1>6, Zenon DEF Fresh, Suspended
  <2>2. regs.esp = BodyTop(t1)
    BY <1>2, SavedRegisters, Zenon
  <2>3. Memory(stack) /\ tcb = [t \in Thread |-> tcb[t]]
    BY Zenon DEF SwitchInv, SwitchTypeOK
  <2>. QED  BY <1>3, <2>1, <2>2, <2>3, SwitchStep, Zenon
<1>8. SwitchTypeOK'
  <2>1. regs = [r \in Registers |-> regs[r]]
    BY Zenon DEF SwitchInv, SwitchTypeOK
  <2>2. regs' = [r \in Registers |-> regs'[r]]
    BY <1>7, <2>1, Zenon DEF Switched
  <2>3. tcb' = [t \in Thread |-> tcb'[t]]
    BY <1>7, Zenon DEF SwitchInv, SwitchTypeOK, Switched
  <2>. QED  BY <1>3, <1>4, <1>7, <2>2, <2>3, Zenon DEF SwitchInv, SwitchTypeOK, Switched
<1>9. /\ tcb'[t1] = Saved(Code("AfterSwitch"), Top(t1, 14))
      /\ \A u \in Thread : u # t1 => tcb'[u] = tcb[u]
  BY <1>7, Zenon DEF Switched, SwitchInv, SwitchTypeOK
<1>10. ThreadInv(t1)'
  <2>1. \A j \in Position : j \notin {12, 13, 14} => At(stack', t1, j) = At(stack, t1, j)
    BY <1>3, <1>7, Zenon DEF Switched
  <2>2. InBounds(t1)'
    <3>1. {12, 13, 14} \subseteq 4 .. 14
      OBVIOUS
    <3>2. \A j \in Position : j \notin 4 .. 14 => At(stack', t1, j) = At(stack, t1, j)
      BY <2>1, <3>1, Zenon
    <3>. QED  BY <1>4, <1>5, <3>2, StillInBounds, Zenon DEF ThreadInv
  <2>3. Frame(t1) => Frame(t1)'
    <3>1. \A j \in {6, 7, 10, 11} : j \notin {12, 13, 14}
      OBVIOUS
    <3>2. /\ At(stack', t1, 6) = At(stack, t1, 6) /\ At(stack', t1, 7) = At(stack, t1, 7)
          /\ At(stack', t1, 10) = At(stack, t1, 10) /\ At(stack', t1, 11) = At(stack, t1, 11)
      BY <2>1, <3>1, UsedPositions, Zenon
    <3>. QED  BY <1>3, <3>2, Zenon DEF Frame
  <2>4. Suspended(t1)'
    <3>1. Keeps(Saved(Code("AfterSwitch"), Top(t1, 14)), Top(t1, 14), t1, round[t1])
      BY <1>2, SavedRegisters, Zenon
    <3>2. At(stack', t1, 14) = Code("AfterSwitch")
      BY <1>7, Zenon DEF Switched
    <3>3. round'[t1] = round[t1]
      BY <1>3, Zenon
    <3>. QED  BY <1>9, <3>1, <3>2, <3>3, Zenon DEF Suspended, Keeps
  <2>. QED  BY <1>2, <1>3, <1>4, <1>5, <2>2, <2>3, <2>4, Zenon DEF ThreadInv, Stage, Waiting
<1>11. ThreadInv(t2)'
  <2>1. \A j \in Position : j # k - 1 => At(stack', t2, j) = At(stack, t2, j)
    BY <1>3, <1>7, Zenon DEF Switched
  <2>2. k - 1 \in 4 .. 14 /\ (k = 14 => k - 1 \notin {6, 7, 10, 11})
    OBVIOUS
  <2>3. InBounds(t2)'
    <3>1. \A j \in Position : j \notin 4 .. 14 => At(stack', t2, j) = At(stack, t2, j)
      BY <2>1, <2>2, Zenon
    <3>. QED  BY <1>3, <1>4, <1>5, <3>1, StillInBounds, Zenon DEF ThreadInv
  <2>4. called[t2] # << >> /\ Frame(t2) => Frame(t2)'
    <3>1. SUFFICES ASSUME called[t2] # << >>, Frame(t2)  PROVE  Frame(t2)'
      BY Zenon
    <3>2. /\ At(stack', t2, 6) = At(stack, t2, 6) /\ At(stack', t2, 7) = At(stack, t2, 7)
          /\ At(stack', t2, 10) = At(stack, t2, 10) /\ At(stack', t2, 11) = At(stack, t2, 11)
      BY <1>6, <2>1, <2>2, <3>1, UsedPositions, Zenon
    <3>. QED  BY <1>3, <3>1, <3>2, Zenon DEF Frame
  <2>. QED  BY <1>3, <1>4, <1>5, <2>3, <2>4, Zenon DEF ThreadInv, Stage
<1>12. ASSUME NEW u \in Thread, u # t1, u # t2
       PROVE  ThreadInv(u)'
  <2>1. SameStack(u)
    BY <1>7, <1>12, Zenon DEF SameStack, Switched
  <2>2. ThreadInv(u) /\ u # currentThread /\ tcb'[u] = tcb[u] /\ status'[u] = status[u]
    BY <1>1, <1>4, <1>9, <1>12, Zenon DEF SwitchInv
  <2>. QED  BY <1>3, <2>1, <2>2, OtherThread, Zenon
<1>13. CurrentInv(currentThread)'
  <2>1. /\ pc' = At(stack, t2, k)[1] /\ regs'.esp = Top(t2, k - 1)
        /\ \A r \in Registers : r # "esp" => regs'[r] = tcb[t2][r]
    BY <1>7 DEF Switched, SwitchInv, SwitchTypeOK, Registers
  <2>2. CASE k = 5 /\ called[t2] = << >> /\ Fresh(t2)
    BY <1>3, <2>1, <2>2 DEF Fresh, CurrentInv, Registers, Code
  <2>3. CASE k = 14 /\ called[t2] # << >> /\ Suspended(t2)
    BY <1>3, <2>1, <2>3 DEF Suspended, CurrentInv, Registers, CalleeSaved, Code
  <2>. QED  BY <1>6, <2>2, <2>3, Zenon
<1>14. \A u \in Thread : ThreadInv(u)'
  BY <1>10, <1>11, <1>12, Zenon
<1>15. called'[Main] = <<Code("main")>> /\ status'[Main] # "new"
  BY <1>3, <1>4, Zenon DEF SwitchInv, SwitchAssumption
<1>. QED  BY <1>3, <1>4, <1>8, <1>13, <1>14, <1>15, Zenon DEF SwitchInv

-----------------------------------------------------------------------------
(* A call from ThreadRoot, on stack stk with the argument at position 6.   *)
LEMMA CallInv ==
  ASSUME SwitchAssumption, SwitchInv, NEW t \in Thread, t = currentThread, t # Main,
         NEW stk, Memory(stk), At(stk, t, 6) = Argument(t),
         \A u \in Thread, j \in Position :
           (u = t => j \notin {5, 6}) => At(stk, u, j) = At(stack, u, j),
         NEW f, NEW return, NEW r, r.esi = Code("func"), r.edi = Code("ThreadFinish"),
         Call(stk, Top(t, 6), f, return, r),
         called'[t] \in {Began, Ran(t), Done(t)},
         called'[t] = Began => return = "AfterBegin", called'[t] = Ran(t) => return = "AfterFunc"
  PROVE  SwitchInv'
<1>1. /\ Entered(stk, stack', t, Code(return), Code("func"), Code("ThreadFinish"))
      /\ regs' = BodyRegs(t, round[t])
  BY CallStep, ZenonT(30)
<1>2. /\ pc' = "Body" /\ tcb' = tcb /\ currentThread' = t /\ status' = status /\ round' = round
      /\ called' = [called EXCEPT ![t] = called'[t]]
  BY DEF Call, SwitchInv, SwitchTypeOK
<1>3. /\ \A u \in Thread : u # t => called'[u] = called[u]
      /\ called' = [u \in Thread |-> called'[u]]
  BY <1>2, Zenon DEF SwitchInv, SwitchTypeOK
<1>4. called'[t] # << >>
  BY Stages, Zenon
<1>5. \A u \in Thread, j \in Position :
        (u = t => j \notin {5, 6} /\ j \notin 7 .. 11) => At(stack', u, j) = At(stack, u, j)
  BY <1>1, ZenonT(30) DEF Entered
<1>6. SwitchTypeOK'
  <2>1. regs' = [q \in Registers |-> regs'[q]]
    BY <1>1 DEF BodyRegs, Registers
  <2>. QED  BY <1>1, <1>2, <1>3, <2>1, Zenon DEF SwitchInv, SwitchTypeOK, Entered
<1>7. ThreadInv(t)'
  <2>1. InBounds(t)'
    <3>1. {5, 6} \subseteq 4 .. 14 /\ 7 .. 11 \subseteq 4 .. 14
      OBVIOUS
    <3>2. \A j \in Position : j \notin 4 .. 14 => At(stack', t, j) = At(stack, t, j)
      BY <1>5, <3>1, Zenon
    <3>3. InBounds(t)
      BY Zenon DEF SwitchInv, ThreadInv
    <3>. QED  BY <1>2, <3>2, <3>3, StillInBounds, Zenon
  <2>2. Frame(t)'
    <3>1. At(stack', t, 6) = At(stk, t, 6)
      <4>1. 6 \notin 7 .. 11
        OBVIOUS
      <4>. QED  BY <1>1, <4>1, UsedPositions, Zenon DEF Entered
    <3>. QED  BY <1>1, <3>1, Zenon DEF Entered, Frame
  <2>3. Stage(t)' /\ status'[t] # "new"
    <3>1. status[t] = "alive"
      BY Zenon DEF SwitchInv
    <3>2. status[t] # "new"
      BY <3>1
    <3>. QED  BY <1>2, <3>2, Zenon DEF Stage
  <2>. QED  BY <1>2, <2>1, <2>2, <2>3, Zenon DEF ThreadInv
<1>8. ASSUME NEW u \in Thread, u # t
      PROVE  ThreadInv(u)'
  <2>1. SameStack(u)
    BY <1>5, <1>8, Zenon DEF SameStack
  <2>2. /\ ThreadInv(u) /\ tcb'[u] = tcb[u] /\ status'[u] = status[u]
        /\ called'[u] = called[u] /\ round'[u] = round[u] /\ u # currentThread
    BY <1>2, <1>3, <1>8, Zenon DEF SwitchInv
  <2>. QED  BY <2>1, <2>2, OtherThread, Zenon
<1>9. CurrentInv(currentThread)'
  BY <1>1, <1>2, <1>4, Zenon DEF CurrentInv
<1>10. \A u \in Thread : ThreadInv(u)'
  BY <1>7, <1>8, Zenon
<1>11. called'[Main] = <<Code("main")>> /\ status'[Main] # "new" /\ status'[t] = "alive"
  BY <1>2, <1>3, Zenon DEF SwitchInv, SwitchAssumption
<1>. QED  BY <1>2, <1>6, <1>9, <1>10, <1>11, Zenon DEF SwitchInv

(* ThreadRoot enters ThreadBegin: ecx, edx, esi and edi are still what     *)
(* StackAllocate put in the object.                                        *)
LEMMA ThreadRootInv ==
  ASSUME SwitchAssumption, SwitchInv, ThreadRoot
  PROVE  SwitchInv'
<1>1. PICK t \in Thread : t = currentThread
  BY Zenon DEF SwitchInv, SwitchTypeOK
<1>2. /\ pc = "ThreadRoot" /\ pc # "Body" /\ pc # "AfterSwitch"
      /\ pc # "AfterBegin" /\ pc # "AfterFunc"
  BY DEF ThreadRoot
<1>3. /\ called[t] = << >> /\ regs.esp = Top(t, 4)
      /\ regs.ecx = Code("ThreadBegin") /\ regs.esi = Code("func")
      /\ regs.edx = Argument(t) /\ regs.edi = Code("ThreadFinish")
  BY <1>1, <1>2, Zenon DEF SwitchInv, CurrentInv
<1>4. t # Main
  BY <1>3, Stages, Zenon DEF SwitchInv
<1>5. Up(Top(t, 4), -1) = Top(t, 5) /\ Up(Top(t, 4), -2) = Top(t, 6)
  BY DEF SwitchAssumption, Top, Up
<1>6. PICK one : one = Store(stack, Top(t, 5), regs.ebp)
  BY Zenon
<1>7. Memory(stack)
  BY Zenon DEF SwitchInv, SwitchTypeOK
<1>8. Stored(stack, one, t, 5, regs.ebp)
  BY <1>6, <1>7, StoreAt, UsedPositions, Zenon
<1>9. PICK stk : stk = Store(one, Top(t, 6), Argument(t))
  BY Zenon
<1>10. Stored(one, stk, t, 6, Argument(t))
  <2>1. Memory(one)
    BY <1>8, Zenon DEF Stored
  <2>. QED  BY <1>9, <2>1, StoreAt, UsedPositions, Zenon
<1>11. /\ Memory(stk) /\ At(stk, t, 6) = Argument(t)
       /\ \A u \in Thread, j \in Position :
            (u = t => j \notin {5, 6}) => At(stk, u, j) = At(stack, u, j)
  BY <1>8, <1>10, Zenon DEF Stored
<1>12. PICK r : r = [regs EXCEPT !.ebp = Top(t, 5)]
  BY Zenon
<1>13. Call(stk, Top(t, 6), Code("ThreadBegin"), "AfterBegin", r)
  BY <1>3, <1>5, <1>6, <1>9, <1>12, Zenon DEF ThreadRoot
<1>14. r.esi = Code("func") /\ r.edi = Code("ThreadFinish")
  <2>1. regs = [q \in Registers |-> regs[q]]
    BY Zenon DEF SwitchInv, SwitchTypeOK
  <2>. QED  BY <1>3, <1>12, <2>1 DEF Registers
<1>15. called'[t] = Began
  <2>1. Code("ThreadBegin") # Code("func")
    BY DEF Code
  <2>2. called' = [called EXCEPT ![t] = called[t] \o <<Code("ThreadBegin")>>]
    BY <1>1, <1>13, <2>1, Zenon DEF Call
  <2>3. called'[t] = called[t] \o <<Code("ThreadBegin")>>
    BY <2>2, Zenon DEF SwitchInv, SwitchTypeOK
  <2>. QED  BY <1>3, <2>3, Stages, Zenon
<1>16. called'[t] # Ran(t) /\ called'[t] \in {Began, Ran(t), Done(t)}
  BY <1>15, Stages, Zenon
<1>. QED  BY <1>1, <1>4, <1>11, <1>13, <1>14, <1>15, <1>16, CallInv, Zenon

(* Back from ThreadBegin, esi is the function and the argument is pushed.  *)
LEMMA CallFuncInv ==
  ASSUME SwitchAssumption, SwitchInv, CallFunc
  PROVE  SwitchInv'
<1>1. PICK t \in Thread : t = currentThread
  BY Zenon DEF SwitchInv, SwitchTypeOK
<1>2. /\ pc = "AfterBegin" /\ pc # "Body" /\ pc # "AfterSwitch"
      /\ pc # "ThreadRoot" /\ pc # "AfterFunc"
  BY DEF CallFunc
<1>3. /\ called[t] = Began /\ t # Main /\ regs.esp = Top(t, 6)
      /\ regs.esi = Code("func") /\ regs.edi = Code("ThreadFinish")
  BY <1>1, <1>2, Zenon DEF SwitchInv, CurrentInv
<1>4. Call(stack, Top(t, 6), Code("func"), "AfterFunc", regs)
  BY <1>3, Zenon DEF CallFunc
<1>5. Memory(stack) /\ At(stack, t, 6) = Argument(t)
  BY <1>3, Stages, Zenon DEF SwitchInv, SwitchTypeOK, ThreadInv, Frame
<1>6. called'[t] = Ran(t)
  <2>1. called' = [called EXCEPT ![t] = called[t] \o <<Code("func"), Argument(t)>>]
    BY <1>1, <1>4, <1>5, Zenon DEF Call, At
  <2>2. called'[t] = called[t] \o <<Code("func"), Argument(t)>>
    BY <2>1, Zenon DEF SwitchInv, SwitchTypeOK
  <2>. QED  BY <1>3, <2>2, Stages, Zenon
<1>7. called'[t] # Began /\ called'[t] \in {Began, Ran(t), Done(t)}
  BY <1>6, Stages, Zenon
<1>. QED  BY <1>1, <1>3, <1>4, <1>5, <1>6, <1>7, CallInv, Zenon

(* Back from the function, edi is ThreadFinish.                            *)
LEMMA CallFinishInv ==
  ASSUME SwitchAssumption, SwitchInv, CallFinish
  PROVE  SwitchInv'
<1>1. PICK t \in Thread : t = currentThread
  BY Zenon DEF SwitchInv, SwitchTypeOK
<1>2. /\ pc = "AfterFunc" /\ pc # "Body" /\ pc # "AfterSwitch"
      /\ pc # "ThreadRoot" /\ pc # "AfterBegin"
  BY DEF CallFinish
<1>3. /\ called[t] = Ran(t) /\ t # Main /\ regs.esp = Top(t, 6)
      /\ regs.esi = Code("func") /\ regs.edi = Code("ThreadFinish")
  BY <1>1, <1>2, Zenon DEF SwitchInv, CurrentInv
<1>4. Call(stack, Top(t, 6), Code("ThreadFinish"), "NotReached", regs)
  BY <1>3, Zenon DEF CallFinish
<1>5. Memory(stack) /\ At(stack, t, 6) = Argument(t)
  BY <1>3, Stages, Zenon DEF SwitchInv, SwitchTypeOK, ThreadInv, Frame
<1>6. called'[t] = Done(t)
  <2>1. Code("ThreadFinish") # Code("func")
    BY DEF Code
  <2>2. called' = [called EXCEPT ![t] = called[t] \o <<Code("ThreadFinish")>>]
    BY <1>1, <1>4, <2>1, Zenon DEF Call
  <2>3. called'[t] = called[t] \o <<Code("ThreadFinish")>>
    BY <2>2, Zenon DEF SwitchInv, SwitchTypeOK
  <2>. QED  BY <1>3, <2>3, Stages, Zenon
<1>7. called'[t] # Began /\ called'[t] # Ran(t) /\ called'[t] \in {Began, Ran(t), Done(t)}
  BY <1>6, Stages, Zenon
<1>. QED  BY <1>1, <1>3, <1>4, <1>5, <1>7, CallInv, Zenon

-----------------------------------------------------------------------------
(* A step of the current thread that only changes its registers.           *)
LEMMA RunningInv ==
  ASSUME SwitchAssumption, SwitchInv, NEW t \in Thread, t = currentThread,
         regs' = [q \in Registers |-> regs'[q]],
         \A u \in Thread : u # t => round'[u] = round[u], round' \in [Thread -> 0 .. 1],
         UNCHANGED <<stack, tcb, currentThread, status, called>>, CurrentInv(currentThread)'
  PROVE  SwitchInv'
<1>1. ThreadInv(t)'
  <2>1. ThreadInv(t)
    BY Zenon DEF SwitchInv
  <2>. QED  BY <2>1, Zenon DEF ThreadInv, InBounds, Stage, Frame
<1>2. ASSUME NEW u \in Thread, u # t
      PROVE  ThreadInv(u)'
  <2>1. ThreadInv(u)
    BY Zenon DEF SwitchInv
  <2>. QED  BY <1>2, <2>1, OtherThread, Zenon DEF SameStack
<1>3. \A u \in Thread : ThreadInv(u)'
  BY <1>1, <1>2, Zenon
<1>4. SwitchTypeOK'
  BY Zenon DEF SwitchInv, SwitchTypeOK, Memory
<1>. QED  BY <1>3, <1>4, Zenon DEF SwitchInv

(* Back in Scheduler::Run, the body goes on.                               *)
LEMMA AfterSwitchInv ==
  ASSUME SwitchAssumption, SwitchInv, AfterSwitch
  PROVE  SwitchInv'
<1>1. PICK t \in Thread : t = currentThread
  BY Zenon DEF SwitchInv, SwitchTypeOK
<1>2. /\ pc = "AfterSwitch" /\ pc # "Body" /\ pc # "ThreadRoot"
      /\ pc # "AfterBegin" /\ pc # "AfterFunc"
  BY DEF AfterSwitch
<1>3. called[t] # << >>
  BY <1>1, <1>2, Zenon DEF SwitchInv, CurrentInv
<1>4. /\ \A u \in Thread : u # t => round'[u] = round[u]
      /\ round' \in [Thread -> 0 .. 1] /\ round'[t] = 1 - round[t]
  BY <1>1 DEF AfterSwitch, SwitchInv, SwitchTypeOK
<1>5. regs' = BodyRegs(t, round'[t]) /\ pc' = "Body"
  BY <1>1, <1>4, Zenon DEF AfterSwitch
<1>6. regs' = [q \in Registers |-> regs'[q]]
  BY <1>5 DEF BodyRegs, Registers
<1>7. UNCHANGED <<stack, tcb, currentThread, status, called>>
  BY Zenon DEF AfterSwitch
<1>8. CurrentInv(currentThread)'
  BY <1>1, <1>3, <1>5, <1>7, Zenon DEF CurrentInv
<1>. QED  BY <1>1, <1>4, <1>6, <1>7, <1>8, RunningInv, Zenon

(* A body returns to where its frame says, with ThreadRoot's esi and edi.  *)
LEMMA ReturnInv ==
  ASSUME SwitchAssumption, SwitchInv, Return
  PROVE  SwitchInv'
<1>1. PICK t \in Thread : t = currentThread
  BY Zenon DEF SwitchInv, SwitchTypeOK
<1>2. /\ pc = "Body" /\ t # Main /\ ~InFinish
      /\ UNCHANGED <<stack, tcb, currentThread, status, round, called>>
  BY <1>1, Zenon DEF Return
<1>3. called[t] # << >> /\ regs = BodyRegs(t, round[t])
  BY <1>1, <1>2 DEF SwitchInv, CurrentInv
<1>4. called[t] \in {Began, Ran(t)} /\ Frame(t)
  <2>1. Stage(t) /\ Frame(t)
    BY <1>2, <1>3, Zenon DEF SwitchInv, ThreadInv
  <2>2. called[t] # Done(t)
    BY <1>1, <1>2, LastCall, ZenonT(30) DEF InFinish
  <2>. QED  BY <1>3, <2>1, <2>2, Zenon DEF Stage
<1>5. /\ regs.esp = Top(t, 11) /\ Up(Top(t, 11), 1) = Top(t, 10)
      /\ Up(Top(t, 11), 4) = Top(t, 7) /\ Up(Top(t, 11), 5) = Top(t, 6)
  BY <1>3 DEF SwitchAssumption, Top, Up, BodyRegs, BodyTop
<1>6. /\ regs'.edi = At(stack, t, 11) /\ regs'.esi = At(stack, t, 10) /\ regs'.esp = Top(t, 6)
      /\ regs' = [q \in Registers |-> regs'[q]]
  BY <1>1, <1>5, Zenon DEF Return, BodyRegs, Registers, At
<1>7. pc' = At(stack, t, 7)[1]
  BY <1>5, Zenon DEF Return, At
<1>8. \/ called[t] = Began /\ pc' = "AfterBegin"
      \/ called[t] = Ran(t) /\ pc' = "AfterFunc"
  BY <1>4, <1>7 DEF Frame, Code
<1>9. CurrentInv(currentThread)'
  BY <1>1, <1>2, <1>4, <1>6, <1>8, Zenon DEF CurrentInv, Frame
<1>10. round' \in [Thread -> 0 .. 1]
  BY <1>2, Zenon DEF SwitchInv, SwitchTypeOK
<1>. QED  BY <1>1, <1>2, <1>6, <1>9, <1>10, RunningInv, Zenon

-----------------------------------------------------------------------------
(* A stack in new memory, with the unmapped page next to it.               *)
Prepared(new, t) ==
  /\ new[t] = [i \in Index |-> new[t][i]]
  /\ \A k \in -3 .. 0 : At(new, t, k) = Code("unmapped")

(* The stack AllocBoundedArray returns, and what StackAllocate writes to   *)
(* it.                                                                     *)
LEMMA FreshBounds ==
  ASSUME SwitchAssumption, NEW stk, NEW t, stk[t] = FreshStack
  PROVE  Prepared(stk, t)
<1>1. stk[t] = [i \in Index |-> stk[t][i]]
  BY DEF FreshStack, Index
<1>2. ASSUME NEW k \in -3 .. 0
      PROVE  At(stk, t, k) = Code("unmapped")
  <2>1. At(stk, t, k) = stk[t][StackSize - k] /\ StackSize - k \in Index
    <3>1. k \in Position
      BY UsedPositions, Zenon
    <3>. QED  BY <3>1, PlaceOf, Zenon
  <2>2. ~(StackSize - k < StackSize)
    BY DEF SwitchAssumption
  <2>. QED  BY <2>1, <2>2 DEF FreshStack, Index
<1>. QED  BY <1>1, <1>2, Zenon DEF Prepared

LEMMA Allocated ==
  ASSUME SwitchAssumption, SwitchTypeOK, NEW t \in Thread, StackAllocate(t)
  PROVE  /\ Prepared(stack', t) /\ At(stack', t, 5) = Code("ThreadRoot")
         /\ At(stack', t, StackSize) = Code("STACK_FENCEPOST")
<1>1. stack'[t] = [FreshStack EXCEPT ![StackSize - 5] = Code("ThreadRoot"),
                                     ![0] = Code("STACK_FENCEPOST")]
  BY Zenon DEF StackAllocate, SwitchTypeOK, Memory
<1>2. /\ StackSize - 5 \in Index /\ 0 \in Index /\ StackSize - 5 # 0 /\ StackSize - 5 < StackSize
      /\ 0 < StackSize
  BY DEF SwitchAssumption, Index
<1>3. FreshStack = [i \in Index |-> FreshStack[i]]
  BY DEF FreshStack, Index
<1>4. /\ stack'[t] = [i \in Index |-> stack'[t][i]]
      /\ stack'[t][StackSize - 5] = Code("ThreadRoot") /\ stack'[t][0] = Code("STACK_FENCEPOST")
      /\ \A i \in Index : i # 0 /\ i # StackSize - 5 => stack'[t][i] = FreshStack[i]
  BY <1>1, <1>2, <1>3, Zenon
<1>5. ASSUME NEW k \in -3 .. 0
      PROVE  At(stack', t, k) = Code("unmapped")
  <2>1. At(stack', t, k) = stack'[t][StackSize - k] /\ StackSize - k \in Index
    <3>1. k \in Position
      BY UsedPositions, Zenon
    <3>. QED  BY <3>1, PlaceOf, Zenon
  <2>2. StackSize - k # 0 /\ StackSize - k # StackSize - 5 /\ ~(StackSize - k < StackSize)
    BY DEF SwitchAssumption
  <2>3. stack'[t][StackSize - k] = FreshStack[StackSize - k]
    BY <1>4, <2>1, <2>2, Zenon
  <2>. QED  BY <2>1, <2>2, <2>3 DEF FreshStack, Index
<1>6. At(stack', t, 5) = stack'[t][StackSize - 5] /\ At(stack', t, StackSize) = stack'[t][0]
  <2>1. StackSize - StackSize = 0
    BY DEF SwitchAssumption
  <2>. 5 \in Position /\ StackSize \in Position
    BY UsedPositions, Zenon
  <2>2. At(stack', t, StackSize) = stack'[t][StackSize - StackSize]
    BY PlaceOf, Zenon
  <2>3. At(stack', t, 5) = stack'[t][StackSize - 5]
    BY PlaceOf, Zenon
  <2>. QED  BY <2>1, <2>2, <2>3, Zenon
<1>. QED  BY <1>4, <1>5, <1>6, Zenon DEF Prepared

(* Fork prepares a stack nobody runs on and an object nobody has saved to. *)
LEMMA ForkInv ==
  ASSUME SwitchAssumption, SwitchInv, NEW t \in Thread, Fork(t)
  PROVE  SwitchInv'
<1>1. /\ StackAllocate(t) /\ status[t] = "new" /\ status' = [status EXCEPT ![t] = "alive"]
      /\ UNCHANGED <<regs, currentThread, pc, round, called>>
  BY Zenon DEF Fork
<1>2. t # currentThread /\ t # Main
  BY <1>1 DEF SwitchInv
<1>3. /\ Prepared(stack', t) /\ At(stack', t, 5) = Code("ThreadRoot")
      /\ At(stack', t, StackSize) = Code("STACK_FENCEPOST")
  BY <1>1, Allocated, Zenon DEF SwitchInv
<1>4. /\ stack' = [u \in Thread |-> stack'[u]] /\ tcb' = [u \in Thread |-> tcb'[u]]
      /\ \A u \in Thread : u # t => stack'[u] = stack[u] /\ tcb'[u] = tcb[u]
  BY <1>1, Zenon DEF StackAllocate, SwitchInv, SwitchTypeOK, Memory
<1>5. Memory(stack')
  <2>1. \A u \in Thread : stack'[u] = [i \in Index |-> stack'[u][i]]
    BY <1>3, <1>4, ZenonT(30) DEF Prepared, SwitchInv, SwitchTypeOK, Memory
  <2>. QED  BY <1>4, <2>1, Zenon DEF Memory
<1>6. /\ status' \in [Thread -> {"new", "alive", "finished"}] /\ status'[t] = "alive"
      /\ \A u \in Thread : u # t => status'[u] = status[u]
  BY <1>1 DEF SwitchInv, SwitchTypeOK
<1>7. SwitchTypeOK'
  BY <1>1, <1>4, <1>5, <1>6, Zenon DEF SwitchInv, SwitchTypeOK
<1>8. ThreadInv(t)'
  <2>1. called'[t] = << >> /\ tcb[t] = NoState
    BY <1>1, Zenon DEF SwitchInv, ThreadInv
  <2>2. tcb'[t] = [tcb[t] EXCEPT !.esp = Top(t, 5), !.pc = Code("ThreadRoot"),
                     !.ecx = Code("ThreadBegin"), !.esi = Code("func"), !.edx = Argument(t),
                     !.edi = Code("ThreadFinish")]
    BY <1>1, Zenon DEF StackAllocate, SwitchInv, SwitchTypeOK
  <2>3. /\ tcb'[t].esp = Top(t, 5) /\ tcb'[t].ecx = Code("ThreadBegin")
        /\ tcb'[t].esi = Code("func") /\ tcb'[t].edx = Argument(t)
        /\ tcb'[t].edi = Code("ThreadFinish")
    BY <2>1, <2>2 DEF NoState
  <2>4. Waiting(t)'
    BY <1>3, <2>1, <2>3, Zenon DEF Waiting, Fresh
  <2>5. InBounds(t)'
    BY <1>3, Zenon DEF InBounds, Prepared
  <2>6. status'[t] # "new"
    BY <1>6
  <2>. QED  BY <2>1, <2>4, <2>5, <2>6, Zenon DEF ThreadInv, Stage
<1>9. ASSUME NEW u \in Thread, u # t
      PROVE  ThreadInv(u)'
  <2>1. SameStack(u)
    <3>1. stack'[u] = stack[u]
      BY <1>4, <1>9, Zenon
    <3>. QED  BY <3>1, PlaceOf, Zenon DEF SameStack
  <2>2. /\ ThreadInv(u) /\ tcb'[u] = tcb[u] /\ status'[u] = status[u]
        /\ called'[u] = called[u] /\ round'[u] = round[u]
    BY <1>1, <1>4, <1>6, <1>9, Zenon DEF SwitchInv
  <2>. QED  BY <1>1, <2>1, <2>2, OtherThread, Zenon
<1>10. \A u \in Thread : ThreadInv(u)'
  BY <1>8, <1>9, Zenon
<1>11. /\ called'[Main] = <<Code("main")>> /\ status'[Main] # "new"
       /\ status'[currentThread'] = "alive"
  BY <1>1, <1>2, <1>6, Zenon DEF SwitchInv, SwitchTypeOK, SwitchAssumption
<1>12. CurrentInv(currentThread)'
  BY <1>1, Zenon DEF SwitchInv, CurrentInv
<1>. QED  BY <1>7, <1>10, <1>11, <1>12, Zenon DEF SwitchInv

(* The invariant holds at the start, is preserved, and implies the         *)
(* property.                                                               *)
LEMMA SwitchInitInv ==
  ASSUME SwitchAssumption, SwitchInit
  PROVE  SwitchInv
<1>1. /\ Main \in Thread /\ currentThread = Main /\ called[Main] = <<Code("main")>>
      /\ status[Main] = "alive" /\ called[Main] # << >>
  BY Stages, Zenon DEF SwitchAssumption, SwitchInit
<1>2. "alive" # "new"
  OBVIOUS
<1>3. \A t \in Thread : stack[t] = FreshStack
  BY Zenon DEF SwitchInit
<1>4. \A t \in Thread : Prepared(stack, t)
  BY <1>3, FreshBounds, Zenon
<1>5. SwitchTypeOK
  <2>1. regs = [r \in Registers |-> regs[r]]
    BY DEF SwitchInit, BodyRegs, Registers
  <2>2. Memory(stack)
    BY <1>4, Zenon DEF SwitchInit, Memory, Prepared
  <2>3. /\ status \in [Thread -> {"new", "alive", "finished"}] /\ round \in [Thread -> 0 .. 1]
        /\ tcb = [t \in Thread |-> tcb[t]] /\ called = [t \in Thread |-> called[t]]
    BY DEF SwitchInit
  <2>. QED  BY <1>1, <2>1, <2>2, <2>3, Zenon DEF SwitchTypeOK
<1>6. ASSUME NEW t \in Thread
      PROVE  ThreadInv(t)
  <2>1. CASE t = Main
    BY <1>1, <1>2, <1>4, <2>1, Zenon DEF ThreadInv, InBounds, Prepared
  <2>2. CASE t # Main
    <3>1. status[t] = "new" /\ called[t] = << >> /\ tcb[t] = NoState
      BY <2>2, Zenon DEF SwitchInit
    <3>2. InBounds(t)
      BY <1>4, <3>1, Zenon DEF InBounds, Prepared
    <3>. QED  BY <1>2, <3>1, <3>2, Zenon DEF ThreadInv, Stage
  <2>. QED  BY <2>1, <2>2, Zenon
<1>7. CurrentInv(currentThread)
  <2>1. pc = "Body" /\ regs = BodyRegs(Main, round[Main])
    BY <1>1, Zenon DEF SwitchInit
  <2>. QED  BY <1>1, <2>1, Zenon DEF CurrentInv
<1>. QED  BY <1>1, <1>2, <1>5, <1>6, <1>7, Zenon DEF SwitchInv

LEMMA SwitchStutter ==
  ASSUME SwitchAssumption, SwitchInv, UNCHANGED switchVars
  PROVE  SwitchInv'
<1>1. UNCHANGED <<regs, stack, tcb, currentThread, pc, status, round, called>>
  BY Zenon DEF switchVars
<1>2. /\ currentThread \in Thread /\ round' \in [Thread -> 0 .. 1]
      /\ regs' = [q \in Registers |-> regs'[q]]
  BY <1>1, Zenon DEF SwitchInv, SwitchTypeOK
<1>3. CurrentInv(currentThread)'
  BY <1>1, Zenon DEF SwitchInv, CurrentInv
<1>. QED  BY <1>1, <1>2, <1>3, RunningInv, Zenon

LEMMA SwitchStepInv ==
  ASSUME SwitchAssumption, SwitchInv, [SwitchNext]_switchVars
  PROVE  SwitchInv'
BY AfterSwitchInv, ThreadRootInv, CallFuncInv, CallFinishInv, ReturnInv, ForkInv, RunInv,
   SwitchStutter, Zenon DEF SwitchNext

LEMMA SwitchInvSuffices ==
  ASSUME SwitchAssumption, SwitchInv
  PROVE  SwitchIsTransparent
<1>1. RegistersKept
  <2>1. SUFFICES ASSUME pc = "AfterSwitch"
                 PROVE  /\ regs.esp = Up(BodyTop(currentThread), -2)
                        /\ \A r \in CalleeSaved :
                             regs[r] = BodyRegs(currentThread, round[currentThread])[r]
    BY Zenon DEF RegistersKept, CalleeSaved
  <2>2. /\ regs.esp = Top(currentThread, 13)
        /\ \A r \in CalleeSaved : regs[r] = BodyRegs(currentThread, round[currentThread])[r]
    <3>1. pc # "Body" /\ pc # "ThreadRoot" /\ pc # "AfterBegin" /\ pc # "AfterFunc"
      BY <2>1
    <3>. QED  BY <2>1, <3>1, Zenon DEF SwitchInv, CurrentInv
  <2>3. Up(BodyTop(currentThread), -2) = Top(currentThread, 13)
    BY DEF SwitchAssumption, BodyTop, Top, Up
  <2>. QED  BY <2>2, <2>3, Zenon
<1>2. RootCallsInOrder
  <2>1. SUFFICES ASSUME NEW t \in Thread \ {Main}
                 PROVE  Len(called[t]) <= Len(Done(t))
                        /\ \A i \in 1 .. Len(called[t]) : called[t][i] = Done(t)[i]
    BY Zenon DEF RootCallsInOrder, Done
  <2>2. called[t] \in {<< >>, Began, Ran(t), Done(t)}
    BY Zenon DEF SwitchInv, ThreadInv, Stage
  <2>3. CASE called[t] = << >>
    BY <2>3 DEF Done
  <2>4. CASE called[t] = Began
    BY <2>4 DEF Began, Done
  <2>5. CASE called[t] = Ran(t)
    BY <2>5 DEF Ran, Done
  <2>6. CASE called[t] = Done(t)
    BY <2>6, SMTT(20) DEF Done
  <2>. QED  BY <2>2, <2>3, <2>4, <2>5, <2>6, Zenon
<1>3. StacksInBounds
  <2>1. ASSUME NEW t \in Thread, NEW i \in StackSize .. StackSize + 3
        PROVE  stack[t][i] = Code("unmapped")
    <3>1. PICK k \in -3 .. 0 : i = StackSize - k
      <4>1. StackSize - i \in -3 .. 0 /\ i = StackSize - (StackSize - i)
        BY DEF SwitchAssumption
      <4>. QED  BY <4>1, Zenon
    <3>2. At(stack, t, k) = Code("unmapped")
      BY Zenon DEF SwitchInv, ThreadInv, InBounds
    <3>3. k \in Position
      BY UsedPositions, Zenon
    <3>. QED  BY <3>1, <3>2, <3>3, PlaceOf, Zenon
  <2>2. ASSUME NEW t \in Thread, t # Main, status[t] # "new"
        PROVE  stack[t][0] = Code("STACK_FENCEPOST")
    <3>1. At(stack, t, StackSize) = Code("STACK_FENCEPOST")
      BY <2>2, Zenon DEF SwitchInv, ThreadInv, InBounds
    <3>2. StackSize - StackSize = 0
      BY DEF SwitchAssumption
    <3>. QED  BY <3>1, <3>2, PlaceOf, UsedPositions, Zenon
  <2>. QED  BY <2>1, <2>2, Zenon DEF StacksInBounds
<1>. QED  BY <1>1, <1>2, <1>3, Zenon DEF SwitchIsTransparent

(* However the threads are forked and switched, a thread finds its stack   *)
(* pointer and registers as they were when SWITCH took the processor from  *)
(* it; a forked thread goes from ThreadBegin to its function with its      *)
(* argument and to ThreadFinish; and no thread writes outside of its stack *)
(* (SWITCH, ThreadRoot, Thread::StackAllocate).                            *)
THEOREM SwitchCorrect ==
  ASSUME SwitchAssumption
  PROVE  SwitchSpec => []SwitchIsTransparent
<1>1. SwitchInit => SwitchInv
  BY SwitchInitInv, Zenon
<1>2. SwitchInv /\ [SwitchNext]_switchVars => SwitchInv'
  BY SwitchStepInv, Zenon
<1>3. SwitchInv => SwitchIsTransparent
  BY SwitchInvSuffices, Zenon
<1>. QED  BY <1>1, <1>2, <1>3, PTL DEF SwitchSpec

-----------------------------------------------------------------------------
(* The inductive invariant of the page table.                              *)
TableInv ==
  /\ pageTable \in Seq(TableEntry) /\ \A i \in DOMAIN pageTable : pageTable[i].valid
  /\ BitsAreExact

(* Division by the page size.                                              *)
LEMMA PageOf ==
  ASSUME NEW v \in Nat
  PROVE  v \div PageSize \in Nat /\ v % PageSize \in 0 .. PageSize - 1
BY TranslationAssumption

LEMMA Division ==
  ASSUME NEW n \in Int, n > 0, NEW v \in Int,
         NEW q \in Int, q = v \div n, NEW r \in Int, r = v % n
  PROVE  v = q * n + r
OBVIOUS

(* An address below the end of the page table has an entry.                *)
LEMMA EntryOf ==
  ASSUME NEW pt \in Seq(TableEntry), NEW v \in Nat, ~(v \div PageSize >= Len(pt))
  PROVE  v \div PageSize + 1 \in DOMAIN pt /\ Entry(pt, v) \in TableEntry
<1>1. v \div PageSize \in Nat
  BY PageOf, Zenon
<1>. QED  BY <1>1 DEF Entry

(* An access that is allowed sets the bits of its page and no others.      *)
LEMMA AccessInv ==
  ASSUME TableInv, NEW v \in Nat, ~(v \div PageSize >= Len(pageTable)), NEW w \in BOOLEAN,
         pageTable' = Touched(pageTable, v, w), Log(v, w)
  PROVE  TableInv'
<1>1. PICK i \in DOMAIN pageTable : i = v \div PageSize + 1
  BY EntryOf, Zenon DEF TableInv
<1>2. pageTable' = [pageTable EXCEPT ![i] = [pageTable[i] EXCEPT !.use = TRUE, !.dirty = @ \/ w]]
  BY <1>1, Zenon DEF Touched, Entry
<1>3. pageTable \in Seq(TableEntry) /\ pageTable[i] \in TableEntry
  BY DEF TableInv
<1>4. PICK e \in TableEntry : e = [pageTable[i] EXCEPT !.use = TRUE, !.dirty = @ \/ w]
  <2>1. [pageTable[i] EXCEPT !.use = TRUE, !.dirty = @ \/ w] \in TableEntry
    BY <1>3, Zenon DEF TableEntry
  <2>. QED  BY <2>1, Zenon
<1>11. pageTable' = [pageTable EXCEPT ![i] = e]
  BY <1>2, <1>4, Zenon
<1>5. pageTable' \in Seq(TableEntry) /\ DOMAIN pageTable' = DOMAIN pageTable
  BY <1>3, <1>11
<1>6. /\ \A j \in DOMAIN pageTable : j # i => pageTable'[j] = pageTable[j]
      /\ pageTable'[i] = e
  BY <1>3, <1>11
<1>7. /\ pageTable'[i].valid = pageTable[i].valid /\ pageTable'[i].use
      /\ pageTable'[i].dirty <=> (pageTable[i].dirty \/ w)
  BY <1>3, <1>4, <1>6 DEF TableEntry
<1>8. used' = used \cup {i} /\ written' = IF w THEN written \cup {i} ELSE written
  BY <1>1, Zenon DEF Log
<1>9. \A j \in DOMAIN pageTable' : pageTable'[j].valid
  BY <1>5, <1>6, <1>7, Zenon DEF TableInv
<1>10. BitsAreExact'
  <2>1. ASSUME NEW j \in DOMAIN pageTable
        PROVE  (pageTable'[j].use <=> j \in used') /\ (pageTable'[j].dirty <=> j \in written')
    <3>1. (pageTable[j].use <=> j \in used) /\ (pageTable[j].dirty <=> j \in written)
      BY Zenon DEF TableInv, BitsAreExact
    <3>2. CASE j = i
      <4>1. j \in used'
        BY <1>8, <3>2, Zenon
      <4>2. j \in written' <=> (j \in written \/ w)
        BY <1>8, <3>2, Zenon
      <4>. QED  BY <1>7, <3>1, <3>2, <4>1, <4>2, Zenon
    <3>3. CASE j # i
      BY <1>6, <1>8, <3>1, <3>3, Zenon
    <3>. QED  BY <3>2, <3>3, Zenon
  <2>. QED  BY <1>5, <2>1, Zenon DEF BitsAreExact
<1>. QED  BY <1>5, <1>9, <1>10, Zenon DEF TableInv

(* Both sides keep the invariant, and refused accesses change nothing.     *)
LEMMA TableStep ==
  ASSUME PageTableAssumption, TableInv, [TableNext]_tableVars
  PROVE  TableInv'
<1>1. CASE UNCHANGED tableVars
  BY <1>1, Zenon DEF tableVars, TableInv, BitsAreExact
<1>2. ASSUME NEW v \in Address, NEW w \in BOOLEAN, NEW size \in {1, 2, 4},
             MachineAccess(v, size, w)
      PROVE  TableInv'
  <2>1. v \in Nat
    BY DEF PageTableAssumption
  <2>2. CASE Fault(pageTable, v, size, w) = "NoException"
    <3>1. ~(v \div PageSize >= Len(pageTable))
      BY <2>2 DEF Fault
    <3>. QED  BY <1>2, <2>1, <2>2, <3>1, AccessInv, Zenon DEF MachineAccess
  <2>. QED  BY <1>1, <1>2, <2>2, Zenon DEF MachineAccess
<1>3. ASSUME NEW v \in Address, NEW w \in BOOLEAN, KernelAccess(v, w)
      PROVE  TableInv'
  <2>1. v \in Nat
    BY DEF PageTableAssumption
  <2>2. CASE SpaceFault(pageTable, v, w) = "NoException"
    <3>1. ~(v \div PageSize >= Len(pageTable))
      BY <2>2 DEF SpaceFault
    <3>. QED  BY <1>3, <2>1, <2>2, <3>1, AccessInv, Zenon DEF KernelAccess
  <2>. QED  BY <1>1, <1>3, <2>2, Zenon DEF KernelAccess
<1>. QED  BY <1>1, <1>2, <1>3, Zenon DEF TableNext

(* An aligned access does not cross the end of its page, because sizes 1,  *)
(* 2 and 4 divide the page size.                                           *)
LEMMA InPage ==
  ASSUME NEW v \in Nat, NEW size \in {1, 2, 4}, v % size = 0
  PROVE  (v % PageSize) + size <= PageSize
<1>1. PICK p \in Nat : p = v \div PageSize
  BY PageOf, Zenon
<1>2. PICK o \in 0 .. PageSize - 1 : o = v % PageSize
  BY PageOf, Zenon
<1>3. PICK n \in Nat : PageSize = 4 * n
  BY TranslationAssumption
<1>4. PICK q \in Nat : v = 4 * q + o
  <2>1. v = p * PageSize + o
    BY <1>1, <1>2, Division, TranslationAssumption
  <2>2. p * PageSize = 4 * (n * p) /\ n * p \in Nat
    BY <1>3
  <2>. QED  BY <2>1, <2>2
<1>5. o % size = 0
  BY <1>4
<1>. QED  BY <1>2, <1>3, <1>5

(* With all pages valid, the two translations refuse the same bytes.       *)
LEMMA TableInvSuffices ==
  ASSUME PageTableAssumption, TableInv
  PROVE  TranslationsAgree
<1>1. ASSUME NEW v \in Address, NEW w \in BOOLEAN
      PROVE  Fault(pageTable, v, 1, w) = SpaceFault(pageTable, v, w)
  <2>1. v \in Nat /\ v % 1 = 0
    BY DEF PageTableAssumption
  <2>2. ~(v \div PageSize >= Len(pageTable)) => Entry(pageTable, v).valid
    BY <2>1, EntryOf, Zenon DEF TableInv, Entry
  <2>. QED  BY <2>1, <2>2, Zenon DEF Fault, SpaceFault
<1>2. ASSUME NEW v \in Address, NEW w \in BOOLEAN, NEW size \in {1, 2, 4},
             Fault(pageTable, v, size, w) = "NoException"
      PROVE  Physical(pageTable, v) >= 0 /\ Physical(pageTable, v) + size <= MemorySize
  <2>1. v \in Nat
    BY DEF PageTableAssumption
  <2>2. /\ ~(v \div PageSize >= Len(pageTable)) /\ v % size = 0
        /\ ~(Entry(pageTable, v).physicalPage >= NumPhysPages)
    BY <1>2 DEF Fault
  <2>3. PICK p \in Nat : p = Entry(pageTable, v).physicalPage
    <3>1. Entry(pageTable, v) \in TableEntry
      BY <2>1, <2>2, EntryOf, Zenon DEF TableInv
    <3>. QED  BY <3>1 DEF TableEntry
  <2>4. PICK o \in 0 .. PageSize - 1 : o = v % PageSize /\ o + size <= PageSize
    BY <2>1, <2>2, PageOf, InPage, Zenon
  <2>5. p + 1 <= NumPhysPages
    BY <2>2, <2>3, TranslationAssumption
  <2>6. p * PageSize + PageSize <= NumPhysPages * PageSize /\ p * PageSize \in Nat
    BY <2>5, TranslationAssumption
  <2>. QED  BY <2>3, <2>4, <2>6, TranslationAssumption DEF Physical, MemorySize
<1>. QED  BY <1>1, <1>2, Zenon DEF TranslationsAgree, KernelSeesTheSame, TableInv

(* Whatever the user program and the kernel access, AddrSpace::Translate   *)
(* allows what Machine::Translate does, an access that is allowed is       *)
(* inside of physical memory, and the use and dirty bits say which pages   *)
(* were accessed and written.                                              *)
THEOREM TranslationsCorrect ==
  ASSUME PageTableAssumption
  PROVE  TableSpec => []TranslationsAgree
<1>1. TableInit => TableInv
  <2>1. SUFFICES ASSUME TableInit  PROVE  TableInv
    BY Zenon
  <2>2. /\ pageTable \in Table /\ used = {} /\ written = {}
        /\ \A i \in DOMAIN pageTable : ~pageTable[i].use /\ ~pageTable[i].dirty
    BY <2>1, Zenon DEF TableInit
  <2>. QED  BY <2>2, Zenon DEF TableInv, BitsAreExact, PageTableAssumption
<1>2. TableInv /\ [TableNext]_tableVars => TableInv'
  BY TableStep, Zenon
<1>3. TableInv => TranslationsAgree
  BY TableInvSuffices, Zenon
<1>. QED  BY <1>1, <1>2, <1>3, PTL DEF TableSpec
=============================================================================

---------------------------- MODULE UserProgram -----------------------------
(***************************************************************************)
(* User programs: AddrSpace's constructor, Execute, InitRegisters and      *)
(* RestoreState (userprog/addrspace.cc), and what Scheduler::Run does for  *)
(* a thread with an address space (SaveUserState, RestoreUserState of      *)
(* threads/thread.cc), after an interrupt (CheckIfDue of                   *)
(* machine/interrupt.cc), on the processor of module MipsSim.              *)
(* test/start.S is the first part of every program.                        *)
(***************************************************************************)
EXTENDS MipsSim

CONSTANTS
  Thread,
  Program   \* the programs: instruction words, what Load has put in memory, the
            \* numPages of each thread's address space (0: it has none), and what
            \* registers hold when the program has come to its end

ASSUME UserProgramAssumption == \A p \in Program : p.numPages \in [Thread -> Nat]

StackReg == 29

VARIABLES
  current,        \* kernel->currentThread
  space,          \* the page table of the address space of each thread
  userRegisters,  \* the registers saved for each thread
  started         \* the threads that have called Execute

threadVars == <<current, space, userRegisters, started>>
userVars == <<vars, threadVars>>

(* AddrSpace::AddrSpace and the numPages set by Load                       *)
NewSpace(n) ==
  [i \in 1 .. n |-> [valid |-> TRUE, readOnly |-> FALSE, physicalPage |-> i - 1,
                     use |-> FALSE, dirty |-> FALSE]]

UserInit ==
  /\ \E p \in Program :
       /\ code = [pc \in {4 * i : i \in 0 .. Len(p.text) - 1} |-> p.text[pc \div 4 + 1]]
       /\ mainMemory = p.memory
       /\ space = [t \in Thread |-> NewSpace(p.numPages[t])]
  /\ registers = [r \in AllRegs |-> 0]
  /\ pageTable = << >> /\ status = "kernel"
  /\ current \in {t \in Thread : space[t] # << >>}
  /\ userRegisters = [t \in Thread |-> [r \in AllRegs |-> 0]]
  /\ started = {}

(* RunUserProg, AddrSpace::Execute, InitRegisters and RestoreState, by the *)
(* current thread                                                          *)
RunUserProg ==
  /\ current \notin started /\ space[current] # << >>
  /\ registers' = [r \in AllRegs |-> CASE r = NextPCReg -> 4
                                       [] r = StackReg -> Len(space[current]) * PageSize - 16
                                       [] OTHER -> 0]
  /\ pageTable' = space[current]
  /\ status' = "user"
  /\ started' = started \cup {current}
  /\ UNCHANGED <<code, mainMemory, current, space, userRegisters>>

(* An instruction of the current thread, if it is in a user program        *)
Instruction ==
  /\ current \in started
  /\ OneInstruction \/ FetchFault \/ EndOfCode
  /\ UNCHANGED <<threadVars>>

(* Interrupt::CheckIfDue, once it has found an interrupt that is due: the  *)
(* pending load is completed before any handler is called.                 *)
BeforeHandlers(regs) == DelayedLoad(regs, 0, 0)

(* An interrupt after which the same thread goes on: a device's, or the    *)
(* timer's with no other thread ready.  The value of a load is then in its *)
(* register for the instruction in the delay slot already.  (In the kernel *)
(* no load is pending.)                                                    *)
TakeInterrupt ==
  /\ status \in {"user", "kernel"}
  /\ registers' = BeforeHandlers(registers)
  /\ UNCHANGED <<code, mainMemory, pageTable, status, threadVars>>

(* Mutant of SaveUserState: NumGPRegs instead of NumTotalRegs registers.   *)
SaveGeneralRegisters(t, regs) ==
  [r \in AllRegs |-> IF r < HiReg THEN regs[r] ELSE userRegisters[t][r]]

(* Thread::SaveUserState: all NumTotalRegs registers                       *)
SaveUserState(t, regs) == [r \in AllRegs |-> regs[r]]

(* The timer's interrupt at the end of an instruction, and Scheduler::Run  *)
(* from the current thread to next: the registers of a user thread are     *)
(* saved, and if next is one too, it restores its own ones and its page    *)
(* table when SWITCH returns in it.                                        *)
Switch(next) ==
  /\ next # current /\ status \in {"user", "kernel"}
  /\ LET regs == BeforeHandlers(registers) IN
     /\ IF current \in started
        THEN /\ userRegisters' = [userRegisters EXCEPT ![current] = SaveUserState(current, regs)]
             /\ space' = [space EXCEPT ![current] = pageTable]
        ELSE UNCHANGED <<userRegisters, space>>
     /\ IF next \in started
        THEN registers' = userRegisters[next] /\ pageTable' = space[next] /\ status' = "user"
        ELSE registers' = regs /\ UNCHANGED pageTable /\ status' = "kernel"
  /\ current' = next
  /\ UNCHANGED <<code, mainMemory, started>>

(* The machine has stopped: a step for TLC, which no code corresponds to   *)
End == status \notin {"user", "kernel"} /\ UNCHANGED userVars

UserNext ==
  RunUserProg \/ Instruction \/ TakeInterrupt \/ (\E t \in Thread : Switch(t)) \/ End

UserSpec == UserInit /\ [][UserNext]_userVars

-----------------------------------------------------------------------------
(* test/start.S.  The assembler puts a nop in every delay slot.            *)
SystemCalls ==
  <<SC_Halt, SC_Add, 1, 2, 13, 3, 4, 5, 6, 7, 8, 10, 9, 11, 12, 14, 15>>
Stub(n) ==
  <<Immediate("ADDIU", 2, 0, n), Special("SYSCALL", 0, 0, 0), Special("JR", 0, 31, 0), Nop>>
StubAt(k) == 20 + 16 * (k - 1)
Halt == StubAt(1)
Add == StubAt(2)
Exit == StubAt(3)
Main == StubAt(Len(SystemCalls) + 1)
StartS ==
  <<JumpTo("JAL", Main), Nop, Special("ADDU", 4, 0, 0), JumpTo("JAL", Exit), Nop>>
    \o [i \in 1 .. 4 * Len(SystemCalls) |->
          Stub(SystemCalls[(i - 1) \div 4 + 1])[((i - 1) % 4) + 1]]

(* test/add.c for two numbers, with the result kept on the stack           *)
AddC(x, y) ==
  StartS \o
  <<Immediate("ADDIU", 29, 29, -8), Immediate("SW", 31, 29, 4),
    Immediate("ADDIU", 4, 0, x), Immediate("ADDIU", 5, 0, y), JumpTo("JAL", Add), Nop,
    Immediate("SW", 2, 29, 0), JumpTo("JAL", Halt), Nop,
    Immediate("LW", 31, 29, 4), Nop, Special("JR", 0, 31, 0), Immediate("ADDIU", 29, 29, 8)>>

-----------------------------------------------------------------------------
(* test/add.c halts the machine, with the sum of its two numbers on its    *)
(* stack: the system call keeps what it should keep, and continues behind  *)
(* the syscall instruction in the stub, from where it returns to main.     *)
AddProgramWorks ==
  (Main \in DOMAIN code /\ status \in {"halted", "aborted", "ended"}) =>
    /\ status = "halted"
    /\ LET x == SignExtended(code[Main + 8].imm)
           y == SignExtended(code[Main + 12].imm)
       IN  ValueAt(mainMemory, Len(space[current]) * PageSize - 24, 4) = ToWord(x + y)

(* mipssim.cc: Machine::Run "can be called multiple times concurrently --  *)
(* one for each thread executing user code".  Wherever a thread is         *)
(* interrupted or switched out, also between a load, a branch or a         *)
(* multiplication and the instruction that needs it, it computes what it   *)
(* does alone: here a program that ends in a loop at `last' with `result'  *)
(* in its registers.  It does not use the register of a load in the delay  *)
(* slot, where the value depends on whether an interrupt comes.            *)
RegistersOf(t) == IF t = current THEN registers ELSE userRegisters[t]
WithResult == {p \in Program : p.result # << >>}
SwitchesAreInvisible ==
  \A p \in WithResult : (DOMAIN code = {4 * i : i \in 0 .. Len(p.text) - 1}) =>
    /\ status # "aborted"
    /\ \A t \in started : RegistersOf(t)[PCReg] = p.last =>
         \A r \in DOMAIN p.result : RegistersOf(t)[r] = p.result[r]

(* User programs end with their results in place, whether they run alone   *)
(* and call the kernel or are interrupted and switched after any           *)
(* instruction.                                                            *)
ProgramsComputeTheirResults == AddProgramWorks /\ SwitchesAreInvisible
=============================================================================

------------------------------ MODULE MipsSim -------------------------------
(***************************************************************************)
(* The simulated MIPS processor: Machine::OneInstruction and DelayedLoad   *)
(* (machine/mipssim.cc), ReadMem, WriteMem and Translate with a page table *)
(* (machine/translate.cc), RaiseException (machine/machine.cc) and the     *)
(* kernel's ExceptionHandler (userprog/exception.cc, ksyscall.h).          *)
(*                                                                         *)
(* The program is kept beside the memory, as instruction words by address: *)
(* it does not change itself.                                              *)
(***************************************************************************)
EXTENDS MipsOps, Translation

CONSTANT
  Reg            \* the general registers in use, among them 0 and R31

ASSUME MipsSimAssumption == 0 \in Reg

HiReg == 32
LoReg == 33
PCReg == 34
NextPCReg == 35
PrevPCReg == 36
LoadReg == 37
LoadValueReg == 38
BadVAddrReg == 39
R31 == 31
AllRegs == Reg \cup (32 .. 39)

VARIABLES
  code,        \* the program: instruction words by address
  registers,
  mainMemory,  \* bytes by physical address
  pageTable,   \* a sequence of entries
  status       \* user, halted, aborted, or ended: no instruction at PC

vars == <<code, registers, mainMemory, pageTable, status>>

-----------------------------------------------------------------------------
(* The little-endian value of size bytes, and the bytes of a value         *)
ValueAt(mem, p, size) ==
  LET f[i \in 0 .. size] == IF i = 0 THEN 0 ELSE mem[p + size - i] + Byte * f[i - 1]
  IN  f[size]
Stored(mem, p, size, value) ==
  [q \in DOMAIN mem |-> IF q >= p /\ q < p + size THEN (value \div Byte ^ (q - p)) % Byte
                        ELSE mem[q]]

(* The outcome of an instruction up to DelayedLoad: an exception, or new   *)
(* registers, memory and page table, the next PC and a load to be delayed. *)
Start ==
  [exc |-> "NoException", bad |-> 0, regs |-> registers, mem |-> mainMemory,
   pt |-> pageTable, pcAfter |-> ToWord(registers[NextPCReg] + 4),
   value |-> 0, loadReg |-> 0, loadValue |-> 0]

Raise(e, exc, bad) == [e EXCEPT !.exc = exc, !.bad = bad]
Set(e, r, value) == [e EXCEPT !.regs = [@ EXCEPT ![r] = ToWord(value)]]
Goto(e, pc) == [e EXCEPT !.pcAfter = ToWord(pc)]
GotoIf(e, test, pc) == IF test THEN Goto(e, pc) ELSE e

(* ReadMem and WriteMem as part of an instruction.  After a fault the      *)
(* instruction returns: what would come next leaves its outcome alone.     *)
ReadMem(e, addr, size) ==
  IF Fault(e.pt, addr, size, FALSE) # "NoException"
  THEN Raise(e, Fault(e.pt, addr, size, FALSE), addr)
  ELSE [e EXCEPT !.pt = Touched(@, addr, FALSE),
                 !.value = ValueAt(e.mem, Physical(e.pt, addr), size)]
WriteMem(e, addr, size, value) ==
  IF Fault(e.pt, addr, size, TRUE) # "NoException"
  THEN Raise(e, Fault(e.pt, addr, size, TRUE), addr)
  ELSE [e EXCEPT !.pt = Touched(@, addr, TRUE),
                 !.mem = Stored(@, Physical(e.pt, addr), size, value)]

-----------------------------------------------------------------------------
(* The cases of OneInstruction, in groups.  a and b are the operands       *)
(* registers[rs] and registers[rt].                                        *)
Addition(e, ins, a, b) ==
  CASE ins.opCode = "ADD" -> IF AddOverflows(a, b) THEN Raise(e, "OverflowException", 0)
                             ELSE Set(e, ins.rd, a + b)
    [] ins.opCode = "ADDI" ->
         IF AddOverflows(ins.extra, a) THEN Raise(e, "OverflowException", 0)
         ELSE Set(e, ins.rt, a + ins.extra)
    [] ins.opCode = "ADDIU" -> Set(e, ins.rt, a + ins.extra)
    [] ins.opCode = "ADDU" -> Set(e, ins.rd, a + b)

Subtract(e, ins, a, b) ==
  IF ins.opCode = "SUB" /\ SubOverflows(a, b) THEN Raise(e, "OverflowException", 0)
  ELSE Set(e, ins.rd, a - b)

Compare(e, ins, a, b) ==
  LET Bit(test) == IF test THEN 1 ELSE 0 IN
  CASE ins.opCode = "SLT" -> Set(e, ins.rd, Bit(Signed(a) < Signed(b)))
    [] ins.opCode = "SLTI" -> Set(e, ins.rt, Bit(Signed(a) < Signed(ins.extra)))
    [] ins.opCode = "SLTIU" -> Set(e, ins.rt, Bit(a < ins.extra))
    [] ins.opCode = "SLTU" -> Set(e, ins.rd, Bit(a < b))

BitwiseAnd(e, ins, a, b) ==
  IF ins.opCode = "AND" THEN Set(e, ins.rd, a & b)
  ELSE Set(e, ins.rt, a & (ins.extra % Half))

OrNor(e, ins, a, b) ==
  CASE ins.opCode = "NOR" -> Set(e, ins.rd, NorOf(a, b))
    [] ins.opCode = "OR" -> Set(e, ins.rd, a | b)
    [] ins.opCode = "ORI" -> Set(e, ins.rt, a | (ins.extra % Half))

ExclusiveOr(e, ins, a, b) ==
  IF ins.opCode = "XOR" THEN Set(e, ins.rd, a ^^ b)
  ELSE Set(e, ins.rt, a ^^ (ins.extra % Half))

(* SRL and SRLV shift an int, and so in copies of the sign                 *)
Shifts(e, ins, a, b) ==
  LET n == IF ins.opCode \in {"SLL", "SRA", "SRL"} THEN ins.extra ELSE ShiftAmount(a)
  IN  Set(e, ins.rd, IF ins.opCode \in {"SLL", "SLLV"} THEN ShiftLeft(b, n) ELSE ShiftRight(b, n))

(* Mult leaves the product in hi:lo (module Mult).                         *)
HiLo(e, hi, lo) == Set(Set(e, HiReg, hi), LoReg, lo)

Multiply(e, ins, a, b) ==
  LET p == IF ins.opCode = "MULT" THEN Signed(a) * Signed(b) ELSE a * b
  IN  HiLo(e, p \div Size, p)

(* DIV of the least int by -1 has no int result: the host's division traps *)
Divide(e, ins, a, b) ==
  CASE b = 0 -> HiLo(e, 0, 0)
    [] b # 0 /\ ins.opCode = "DIVU" -> HiLo(e, a % b, a \div b)
    [] b # 0 /\ ins.opCode = "DIV" ->
         IF a = SIGN_BIT /\ b = Size - 1 THEN Raise(e, "HostTrap", 0)
         ELSE HiLo(e, Remainder(Signed(a), Signed(b)), Quotient(Signed(a), Signed(b)))

MoveHiLo(e, ins, a) ==
  CASE ins.opCode = "MFHI" -> Set(e, ins.rd, registers[HiReg])
    [] ins.opCode = "MFLO" -> Set(e, ins.rd, registers[LoReg])
    [] ins.opCode = "MTHI" -> Set(e, HiReg, a)
    [] ins.opCode = "MTLO" -> Set(e, LoReg, a)

(* Branches test the operands after R31 has been written.                  *)
Link(e, r) == Set(e, r, registers[NextPCReg] + 4)
Branch(e, ins, a, b) ==
  LET target == registers[NextPCReg] + IndexToAddr(ins.extra)
      linked == Link(e, R31)
  IN
  CASE ins.opCode = "BEQ" -> GotoIf(e, a = b, target)
    [] ins.opCode = "BNE" -> GotoIf(e, a # b, target)
    [] ins.opCode = "BGTZ" -> GotoIf(e, Signed(a) > 0, target)
    [] ins.opCode = "BLEZ" -> GotoIf(e, Signed(a) <= 0, target)
    [] ins.opCode = "BGEZ" -> GotoIf(e, ~IsNegative(a), target)
    [] ins.opCode = "BLTZ" -> GotoIf(e, IsNegative(a), target)
    [] ins.opCode = "BGEZAL" -> GotoIf(linked, ~IsNegative(linked.regs[ins.rs]), target)
    [] ins.opCode = "BLTZAL" -> GotoIf(linked, IsNegative(linked.regs[ins.rs]), target)

Jump(e, ins) ==
  LET region == e.pcAfter - (e.pcAfter % (Size \div 16))   \* pcAfter & 0xf0000000
  IN
  CASE ins.opCode = "J" -> Goto(e, region | IndexToAddr(ins.extra))
    [] ins.opCode = "JAL" -> Goto(Link(e, R31), region | IndexToAddr(ins.extra))
    [] ins.opCode = "JR" -> Goto(e, registers[ins.rs])
    [] ins.opCode = "JALR" -> Goto(Link(e, ins.rd), Link(e, ins.rd).regs[ins.rs])

Delay(e, r, value) ==
  IF e.exc # "NoException" THEN e ELSE [e EXCEPT !.loadReg = r, !.loadValue = value]
Load(e, ins, a) ==
  LET addr == ToWord(a + ins.extra)
      byte == ReadMem(e, addr, 1)
      half == ReadMem(e, addr, 2)
      word == ReadMem(e, addr, 4)
  IN
  CASE ins.opCode = "LB" ->
         Delay(byte, ins.rt, IF byte.value >= Byte \div 2 THEN ToWord(byte.value - Byte)
                             ELSE byte.value)
    [] ins.opCode = "LBU" -> Delay(byte, ins.rt, byte.value)
    [] ins.opCode = "LH" -> Delay(half, ins.rt, SignExtended(half.value))
    [] ins.opCode = "LHU" -> Delay(half, ins.rt, half.value)
    [] ins.opCode = "LW" -> Delay(word, ins.rt, word.value)
    [] ins.opCode = "LUI" -> Set(e, ins.rt, ins.extra * Half)

Store(e, ins, a, b) ==
  WriteMem(e, ToWord(a + ins.extra),
           CASE ins.opCode = "SB" -> 1 [] ins.opCode = "SH" -> 2 [] ins.opCode = "SW" -> 4, b)

(* Mutant of LoadUnaligned: the pending load is not looked at.             *)
LoadUnalignedStale(e, ins, a) ==
  LET addr == ToWord(a + ins.extra)
      byte == addr % 4
      old  == registers[ins.rt]
      f    == ReadMem(e, addr - byte, 4)
  IN  Delay(f, ins.rt,
            IF ins.opCode = "LWL"
            THEN Low(old, 3 - byte) | ShiftLeft(f.value, (3 - byte) * ByteBits)
            ELSE High(old, 4 - byte) | (f.value \div Byte ^ byte))

(* LWL and LWR, with SIM_FIX: the word around the address is read, and a   *)
(* part of it merged into the register, or into the load that is pending   *)
(* for that register.                                                      *)
LoadUnaligned(e, ins, a) ==
  LET addr == ToWord(a + ins.extra)
      byte == addr % 4
      old  == IF registers[LoadReg] = ins.rt THEN registers[LoadValueReg] ELSE registers[ins.rt]
      f    == ReadMem(e, addr - byte, 4)
  IN  Delay(f, ins.rt,
            IF ins.opCode = "LWL"
            THEN Low(old, 3 - byte) | ShiftLeft(f.value, (3 - byte) * ByteBits)
            ELSE High(old, 4 - byte) | (f.value \div Byte ^ byte))

(* Mutant of StoreUnaligned: SWR shifts by one byte too few.               *)
StoreUnalignedShort(e, ins, a, b) ==
  LET addr == ToWord(a + ins.extra)
      byte == addr % 4
      f    == ReadMem(e, addr - byte, 4)
  IN  IF f.exc # "NoException" THEN f
      ELSE WriteMem(f, addr - byte, 4,
             IF ins.opCode = "SWL" THEN High(f.value, byte + 1) | (b \div Byte ^ (3 - byte))
             ELSE Low(f.value, byte) | ShiftLeft(b, (IF byte = 0 THEN 0 ELSE byte - 1) * ByteBits))

(* SWL and SWR, with SIM_FIX                                               *)
StoreUnaligned(e, ins, a, b) ==
  LET addr == ToWord(a + ins.extra)
      byte == addr % 4
      f    == ReadMem(e, addr - byte, 4)
  IN  IF f.exc # "NoException" THEN f
      ELSE WriteMem(f, addr - byte, 4,
             IF ins.opCode = "SWL" THEN High(f.value, byte + 1) | (b \div Byte ^ (3 - byte))
             ELSE Low(f.value, byte) | ShiftLeft(b, byte * ByteBits))

Execute(ins) ==
  LET e == Start
      a == registers[ins.rs]
      b == registers[ins.rt]
      op == ins.opCode
  IN
  CASE op \in {"ADD", "ADDI", "ADDIU", "ADDU"} -> Addition(e, ins, a, b)
    [] op \in {"SUB", "SUBU"} -> Subtract(e, ins, a, b)
    [] op \in {"SLT", "SLTI", "SLTIU", "SLTU"} -> Compare(e, ins, a, b)
    [] op \in {"AND", "ANDI"} -> BitwiseAnd(e, ins, a, b)
    [] op \in {"NOR", "OR", "ORI"} -> OrNor(e, ins, a, b)
    [] op \in {"XOR", "XORI"} -> ExclusiveOr(e, ins, a, b)
    [] op \in {"SLL", "SLLV", "SRA", "SRAV", "SRL", "SRLV"} -> Shifts(e, ins, a, b)
    [] op \in {"MULT", "MULTU"} -> Multiply(e, ins, a, b)
    [] op \in {"DIV", "DIVU"} -> Divide(e, ins, a, b)
    [] op \in {"MFHI", "MFLO", "MTHI", "MTLO"} -> MoveHiLo(e, ins, a)
    [] op \in {"BEQ", "BNE", "BGTZ", "BLEZ", "BGEZ", "BLTZ", "BGEZAL", "BLTZAL"} ->
         Branch(e, ins, a, b)
    [] op \in {"J", "JAL", "JR", "JALR"} -> Jump(e, ins)
    [] op \in {"LB", "LBU", "LH", "LHU", "LW", "LUI"} -> Load(e, ins, a)
    [] op \in {"SB", "SH", "SW"} -> Store(e, ins, a, b)
    [] op \in {"LWL", "LWR"} -> LoadUnaligned(e, ins, a)
    [] op \in {"SWL", "SWR"} -> StoreUnaligned(e, ins, a, b)
    [] op = "SYSCALL" -> Raise(e, "SyscallException", 0)
    [] op \in {"RES", "UNIMP"} -> Raise(e, "IllegalInstrException", 0)

-----------------------------------------------------------------------------
(* Machine::DelayedLoad                                                    *)
DelayedLoad(regs, nextReg, nextValue) ==
  LET loaded == [regs EXCEPT ![regs[LoadReg]] = regs[LoadValueReg]]
  IN  [loaded EXCEPT ![LoadReg] = nextReg, ![LoadValueReg] = nextValue, ![0] = 0]

SC_Halt == 0
SC_Add == 42

(* Mutant of ExceptionHandler: the PC stays at the system call.            *)
ExceptionHandlerStuck(which, regs) ==
  IF which = "SyscallException" /\ regs[2] = SC_Add
  THEN [regs |-> [regs EXCEPT ![2] = ToWord(regs[4] + regs[5])], status |-> "user"]
  ELSE [regs |-> regs,
        status |-> IF which = "SyscallException" /\ regs[2] = SC_Halt THEN "halted"
                   ELSE "aborted"]

(* ExceptionHandler with SysHalt and SysAdd: what it leaves in the         *)
(* registers, and the status.  Whatever else is raised ends in             *)
(* ASSERTNOTREACHED.                                                       *)
ExceptionHandler(which, regs) ==
  IF which = "SyscallException" /\ regs[2] = SC_Add
  THEN [regs |-> [regs EXCEPT ![2] = ToWord(regs[4] + regs[5]),
                              ![PrevPCReg] = regs[PCReg],
                              ![PCReg] = ToWord(regs[PCReg] + 4),
                              ![NextPCReg] = ToWord(regs[PCReg] + 8)],
        status |-> "user"]
  ELSE [regs |-> regs,
        status |-> IF which = "SyscallException" /\ regs[2] = SC_Halt THEN "halted"
                   ELSE "aborted"]

(* Mutant of RaiseException: the pending load stays pending.               *)
RaiseExceptionPending(regs, which, badVAddr) ==
  LET handled == ExceptionHandler(which, [regs EXCEPT ![BadVAddrReg] = badVAddr])
  IN  registers' = handled.regs /\ status' = handled.status

(* Machine::RaiseException                                                 *)
RaiseException(regs, which, badVAddr) ==
  LET handled == ExceptionHandler(which,
                   DelayedLoad([regs EXCEPT ![BadVAddrReg] = badVAddr], 0, 0))
  IN  registers' = handled.regs /\ status' = handled.status

(* Machine::OneInstruction                                                 *)
Fetches == Fault(pageTable, registers[PCReg], 4, FALSE) = "NoException"
OneInstruction ==
  /\ status = "user" /\ Fetches /\ registers[PCReg] \in DOMAIN code
  /\ LET e == Execute(Decode(code[registers[PCReg]])) IN
     /\ \/ /\ e.exc = "NoException"
           /\ registers' = [DelayedLoad(e.regs, e.loadReg, e.loadValue) EXCEPT
                              ![PrevPCReg] = registers[PCReg],
                              ![PCReg] = registers[NextPCReg],
                              ![NextPCReg] = e.pcAfter]
           /\ UNCHANGED status
        \/ /\ e.exc # "NoException"
           /\ RaiseException(e.regs, e.exc, e.bad)
     /\ mainMemory' = e.mem
     /\ pageTable' = Touched(e.pt, registers[PCReg], FALSE)
  /\ UNCHANGED code

(* The fetch faults.                                                       *)
FetchFault ==
  /\ status = "user" /\ ~Fetches
  /\ RaiseException(registers, Fault(pageTable, registers[PCReg], 4, FALSE), registers[PCReg])
  /\ UNCHANGED <<code, mainMemory, pageTable>>

EndOfCode ==
  /\ status = "user" /\ Fetches /\ registers[PCReg] \notin DOMAIN code
  /\ status' = "ended"
  /\ UNCHANGED <<code, registers, mainMemory, pageTable>>

Stopped == status # "user" /\ UNCHANGED vars

Next == OneInstruction \/ FetchFault \/ EndOfCode \/ Stopped
=============================================================================

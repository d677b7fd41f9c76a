----------------------------- MODULE MCMachine ------------------------------
(***************************************************************************)
(* The simulated machine and user programs for TLC: words of 16 bits and   *)
(* pages of 64 bytes.  A behaviour is a short program of MipsCheck, or a   *)
(* user program.                                                           *)
(***************************************************************************)
EXTENDS MipsCheck, UserProgram

NoCheck == [regs |-> << >>, mem |-> << >>]

Init ==
  \/ /\ CheckInit
     /\ current = "k" /\ started = {}
     /\ space = [t \in Thread |-> << >>]
     /\ userRegisters = [t \in Thread |-> [r \in AllRegs |-> 0]]
  \/ UserInit /\ first = NoCheck

MachineNext ==
  \/ first # NoCheck /\ CheckNext /\ UNCHANGED threadVars
  \/ first = NoCheck /\ UserNext /\ UNCHANGED first

Spec == Init /\ [][MachineNext]_<<userVars, first>>

-----------------------------------------------------------------------------
Test(text, r1, r2, bytes, readOnly) ==
  [text |-> text, r1 |-> r1, r2 |-> r2, bytes |-> bytes, readOnly |-> readOnly]

(* Any address for which the four bytes are in the first eight             *)
Lwr == Immediate("LWR", 1, 2, 0)
Lwl == Immediate("LWL", 1, 2, 3)
Swr == Immediate("SWR", 1, 2, 0)
Swl == Immediate("SWL", 1, 2, 3)
UnalignedTests ==
  {Test(text, r1, r2, bytes, {}) :
     text \in {<<Lwr, Lwl, Nop>>, <<Lwl, Lwr, Nop>>, <<Lwr, Nop, Lwl, Nop>>,
               <<Swr, Swl>>, <<Swl, Swr>>},
     r1 \in {0, 65244}, r2 \in 0 .. 4, bytes \in [1 .. 8 -> {1, 14}]}

(* Operands around zero and around the least and the greatest int          *)
Operands == {0, 1, 2, 3, 7, 255, 32766, 32767, 32768, 32769, 65533, 65534, 65535}
ArithmeticTexts ==
  {<<Special(name, 3, 1, 2)>> :
     name \in {"ADD", "SUB", "SLT", "SLTU", "DIV", "NOR", "ADDU", "SUBU", "AND", "OR", "XOR",
               "MULT", "DIVU", "SRAV", "MTHI", "MTLO"}}
    \cup {<<Immediate(name, 3, 1, 1)>> :
            name \in {"ADDI", "ADDIU", "SLTI", "SLTIU", "ANDI", "ORI", "XORI", "LUI"}}
    \cup {<<Shift(name, 3, 1, 1)>> : name \in {"SLL", "SRA"}}
ArithmeticTests ==
  {Test(text, r1, r2, << >>, {}) : text \in ArithmeticTexts, r1, r2 \in Operands}
    \cup {Test(<<Special(name, 3, r, 2)>>, v, 255, << >>, {}) :
            name \in {"MULTU", "SLLV"}, r \in {1, 2}, v \in {0, 2, 255}}

(* Instructions that may trap, in the delay slot of a load or of a branch; *)
(* memory and jumps.  The second page is read-only, and addresses from 128 *)
(* on are in no page.                                                      *)
MayTrap ==
  {Special("SUB", 3, 1, 2), Special("ADD", 2, 1, 2), Immediate("ADDI", 1, 1, -1),
   Immediate("SW", 2, 1, 0), Immediate("SH", 2, 1, 0), Immediate("SB", 2, 1, 0),
   Immediate("SWL", 2, 1, 0), Immediate("LW", 2, 1, 0), Special("JR", 0, 1, 0),
   Special("JALR", 3, 1, 0), Immediate("BEQ", 1, 2, 0), Immediate("BNE", 1, 2, 0),
   Immediate("BLEZ", 0, 1, 0), Immediate("BGTZ", 0, 1, 0), Immediate("BCOND", 0, 1, 0),
   Immediate("BCOND", 1, 1, 0), Immediate("BCOND", 16, 1, 0),
   Immediate("BCOND", 17, 1, 0), Special("MFHI", 3, 0, 0), Special("MFLO", 3, 0, 0),
   Special("SYSCALL", 0, 0, 0), Special("RES", 0, 0, 0)}
TrapTexts ==
  {<<Immediate(load, 3, 2, 0), trap, Nop>> :
     load \in {"LW", "LH", "LHU", "LB", "LBU"}, trap \in MayTrap}
    \cup {<<Special("MTLO", 0, 2, 0), Immediate("BEQ", 2, 0, 1), trap, Nop, Nop>> : trap \in MayTrap}
TrapTests ==
  {Test(text, r1, r2, bytes, {1}) :
     text \in TrapTexts, r1 \in {0, 1, 4, 65, 68, 128, 32767, 32768, 65535},
     r2 \in {0, 2, 68, 128, 32767, 32768}, bytes \in {<<0, 0, 0, 0>>, <<3, 0, 15, 8>>}}

AllTests == UnalignedTests \cup ArithmeticTests \cup TrapTests
ShiftTests == {Test(<<Shift("SRL", 3, 1, 1)>>, r, 0, << >>, {}) : r \in Operands}

-----------------------------------------------------------------------------
Zeros == [p \in 0 .. MemorySize - 1 |-> 0]

(* test/add.c in one thread, with two others in the kernel                 *)
AddPrograms ==
  {[text |-> AddC(x, y), memory |-> Zeros, last |-> 0, result |-> << >>,
    numPages |-> [t \in Thread |-> IF t = "t1" THEN NumPhysPages ELSE 0]] :
     x \in {0, 42, -1, 127}, y \in {23, -128, 127}}

(* An addition to what a register holds, a load, a multiplication, another *)
(* addition and a branch, and then a loop, in two threads.  The data is in *)
(* the last page of one address space and the other is a page longer.      *)
SwitchProgram ==
  [text |-> <<Immediate("ADDIU", 1, 1, 5), Immediate("LW", 2, 0, 100), Special("MULT", 0, 1, 1),
              Special("ADDU", 4, 2, 1), Special("MFLO", 5, 0, 0), Immediate("BEQ", 0, 0, 1),
              Immediate("ADDIU", 31, 4, 1), Immediate("BEQ", 0, 0, -1), Nop>>,
   memory |-> Stored(Zeros, 100, 4, 900),
   numPages |-> [t \in Thread |-> CASE t = "t1" -> 3 [] t = "t2" -> 2 [] OTHER -> 0],
   last |-> 28,
   result |-> [r \in {1, 2, 4, 5, 31} |->
     CASE r = 1 -> 5 [] r = 2 -> 900 [] r = 4 -> 905 [] r = 5 -> 25 [] r = 31 -> 906]]

AllPrograms == {SwitchProgram} \cup AddPrograms
NoPrograms == {}
=============================================================================

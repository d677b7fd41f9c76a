----------------------------- MODULE MipsCheck ------------------------------
(***************************************************************************)
(* Short programs on the simulated processor of module MipsSim, started    *)
(* with any registers and memory, against what the instructions should do. *)
(***************************************************************************)
EXTENDS MipsSim

CONSTANT
  Tests    \* programs with the values of registers 1 and 2, the first bytes of
           \* memory, and the virtual pages that are read-only

VARIABLE first   \* registers and memory at the start (history)

checkVars == <<vars, first>>

CodeOf(text) == [pc \in {4 * i : i \in 0 .. Len(text) - 1} |-> text[pc \div 4 + 1]]

(* Two pages are mapped, each to the frame of its number; the rest of the  *)
(* memory is left out.                                                     *)
CheckInit ==
  \E t \in Tests :
    /\ code = CodeOf(t.text)
    /\ registers = [r \in AllRegs |-> CASE r = 1 -> t.r1 [] r = 2 -> t.r2
                                         [] r = NextPCReg -> 4 [] OTHER -> 0]
    /\ mainMemory = [p \in 0 .. 2 * PageSize - 1 |->
                       IF p < Len(t.bytes) THEN t.bytes[p + 1] ELSE 0]
    /\ pageTable = [i \in 1 .. 2 |->
         [valid |-> TRUE, readOnly |-> (i - 1) \in t.readOnly, physicalPage |-> i - 1,
          use |-> FALSE, dirty |-> FALSE]]
    /\ status = "user"
    /\ first = [regs |-> registers, mem |-> mainMemory]

CheckNext == Next /\ UNCHANGED first

-----------------------------------------------------------------------------
Names == {Decode(code[pc]).opCode : pc \in DOMAIN code}

(* The pair LWL, LWR, in either order and with or without an instruction   *)
(* in between, reads the word at an unaligned address, although the first  *)
(* of the two is still a pending load when the second one executes.        *)
UnalignedLoad ==
  (status = "ended" /\ {"LWL", "LWR"} \subseteq Names) =>
    registers[1] = ValueAt(first.mem, first.regs[2], 4)

(* The pair SWL, SWR writes the word at an unaligned address and no other  *)
(* byte of memory.                                                         *)
UnalignedStore ==
  (status = "ended" /\ {"SWL", "SWR"} \subseteq Names) =>
    mainMemory = Stored(first.mem, first.regs[2], 4, first.regs[1])

(* What the add, subtract, compare and divide instructions compute, on     *)
(* integers: registers 1 and 2, the result in register 3.                  *)
X == Signed(first.regs[1])
Y == Signed(first.regs[2])
InRange(n) == n \in -SIGN_BIT .. SIGN_BIT - 1
Exact(op) ==
  CASE op = "ADD" -> IF InRange(X + Y) THEN Signed(registers[3]) = X + Y ELSE status = "aborted"
    [] op = "SUB" -> IF InRange(X - Y) THEN Signed(registers[3]) = X - Y ELSE status = "aborted"
    [] op = "SLT" -> (registers[3] = 1) = (X < Y)
    [] op = "SLTU" -> (registers[3] = 1) = (first.regs[1] < first.regs[2])
    [] op = "DIV" ->
         IF Y = 0 THEN registers[LoReg] = 0
         ELSE IF X = -SIGN_BIT /\ Y = -1 THEN status = "aborted"
         ELSE LET q == Signed(registers[LoReg]) r == Signed(registers[HiReg])
              IN  q * Y + r = X /\ Abs(r) < Abs(Y) /\ (r = 0 \/ (r < 0) = (X < 0))
    [] op = "NOR" -> registers[3] + (first.regs[1] | first.regs[2]) = Size - 1
    [] OTHER -> TRUE

(* The overflow tests of ADD and SUB, which only look at signs, trap       *)
(* exactly when the result does not fit; the results of ADD, SUB, SLT,     *)
(* SLTU, DIV and NOR are exact.  (In programs of one instruction.)         *)
ArithmeticIsExact ==
  (DOMAIN code = {0} /\ status # "user") => \A op \in Names : Exact(op)

(* Where the simulator does by hand what the MIPS manual says, it does it  *)
(* right: overflow, signed and unsigned comparison and division on all     *)
(* sign combinations, and words at unaligned addresses by a pair of        *)
(* instructions that merge with a load still pending.                      *)
InstructionsAreExact == UnalignedLoad /\ UnalignedStore /\ ArithmeticIsExact

(* An instruction that traps leaves memory, the registers, Hi and Lo as    *)
(* they were before it, except that the load pending from the instruction  *)
(* before is done, and both program counters are its own, in the delay     *)
(* slot of a branch too: the kernel can restart it.                        *)
TrapsArePrecise ==
  [][(status = "user" /\ status' = "aborted") =>
       /\ mainMemory' = mainMemory
       /\ registers'[LoadReg] = 0
       /\ \A r \in (Reg \ {0}) \cup {HiReg, LoReg, PCReg, NextPCReg} :
            registers'[r] = IF r = registers[LoadReg] THEN registers[LoadValueReg]
                            ELSE registers[r]]_checkVars

(* mipssim.h: "The names are straight from the MIPS manual", where SRL     *)
(* shifts zeros in from the left, as opposed to SRA.                       *)
SrlIsLogical ==
  (status = "ended" /\ "SRL" \in Names) => registers[3] = first.regs[1] \div 2
=============================================================================

------------------------------ MODULE MipsOps -------------------------------
(***************************************************************************)
(* The instruction set of machine/mipssim.h and mipssim.cc: the decoding   *)
(* tables and the arithmetic on machine words.                             *)
(*                                                                         *)
(* A byte has ByteBits bits instead of eight, a word four bytes.  Words    *)
(* are numbers from 0 to Size - 1; Signed is the int with the same bits.   *)
(* An instruction word is the record of its fields.                        *)
(***************************************************************************)
EXTENDS Integers, Sequences, Bitwise

CONSTANT ByteBits

ASSUME MipsOpsAssumption == ByteBits \in Nat \ {0}

Byte == 2 ^ ByteBits
Half == Byte * Byte
Size == Half * Half
SIGN_BIT == Size \div 2

ToWord(n) == n % Size
Signed(w) == IF w >= SIGN_BIT THEN w - Size ELSE w
IsNegative(w) == w >= SIGN_BIT            \* w & SIGN_BIT
SignExtended(h) == IF h >= Half \div 2 THEN ToWord(h - Half) ELSE h
IndexToAddr(x) == ToWord(4 * x)
NorOf(a, b) == Size - 1 - (a | b)

(* The n lower bytes of a word, and the others in place                    *)
Low(w, n) == w % Byte ^ n
High(w, n) == w - Low(w, n)

(* /, % of C: towards zero                                                 *)
Abs(n) == IF n < 0 THEN -n ELSE n
Quotient(a, b) == IF (a < 0) = (b < 0) THEN Abs(a) \div Abs(b) ELSE -(Abs(a) \div Abs(b))
Remainder(a, b) == a - b * Quotient(a, b)

(* << and the >> of int                                                    *)
ShiftLeft(w, n) == ToWord(w * 2 ^ n)
ShiftRight(w, n) == ToWord(Signed(w) \div 2 ^ n)
(* registers[r] & 0x1f, for words of 4 * ByteBits bits                     *)
ShiftAmount(w) == w % (4 * ByteBits)

(* Mutant of AddOverflows: any change of sign is an overflow.              *)
AddChangesSign(a, b) == IsNegative(a) # IsNegative(ToWord(a + b))

(* The test of OP_ADD, OP_ADDI and of OP_SUB for overflow, by signs        *)
AddOverflows(a, b) ==
  IsNegative(a) = IsNegative(b) /\ IsNegative(a) # IsNegative(ToWord(a + b))
SubOverflows(a, b) ==
  IsNegative(a) # IsNegative(b) /\ IsNegative(a) # IsNegative(ToWord(a - b))

-----------------------------------------------------------------------------
opTable ==
  <<"SPECIAL", "BCOND", "J", "JAL", "BEQ", "BNE", "BLEZ", "BGTZ",
    "ADDI", "ADDIU", "SLTI", "SLTIU", "ANDI", "ORI", "XORI", "LUI",
    "UNIMP", "UNIMP", "UNIMP", "UNIMP", "RES", "RES", "RES", "RES",
    "RES", "RES", "RES", "RES", "RES", "RES", "RES", "RES",
    "LB", "LH", "LWL", "LW", "LBU", "LHU", "LWR", "RES",
    "SB", "SH", "SWL", "SW", "RES", "RES", "SWR", "RES",
    "UNIMP", "UNIMP", "UNIMP", "UNIMP", "RES", "RES", "RES", "RES",
    "UNIMP", "UNIMP", "UNIMP", "UNIMP", "RES", "RES", "RES", "RES">>

specialTable ==
  <<"SLL", "RES", "SRL", "SRA", "SLLV", "RES", "SRLV", "SRAV",
    "JR", "JALR", "RES", "RES", "SYSCALL", "UNIMP", "RES", "RES",
    "MFHI", "MTHI", "MFLO", "MTLO", "RES", "RES", "RES", "RES",
    "MULT", "MULTU", "DIV", "DIVU", "RES", "RES", "RES", "RES",
    "ADD", "ADDU", "SUB", "SUBU", "AND", "OR", "XOR", "NOR",
    "RES", "RES", "SLT", "SLTU">> \o [i \in 1 .. 20 |-> "RES"]

(* Instruction::Decode.  The fields of an instruction word: op (its first  *)
(* six bits), rs, rt, rd, shamt, funct (the last six), imm (the last 16)   *)
(* and target (the last 26).                                               *)
Decode(value) ==
  LET op == opTable[value.op + 1] IN
  [opCode |-> CASE op = "SPECIAL" -> specialTable[value.funct + 1]
                [] op = "BCOND" -> CASE value.rt = 0 -> "BLTZ"
                                     [] value.rt = 1 -> "BGEZ"
                                     [] value.rt = 16 -> "BLTZAL"
                                     [] value.rt = 17 -> "BGEZAL"
                                     [] OTHER -> "UNIMP"
                [] OTHER -> op,
   rs |-> value.rs, rt |-> value.rt, rd |-> value.rd,
   extra |-> CASE op = "SPECIAL" -> value.shamt
               [] op \in {"J", "JAL"} -> value.target
               [] OTHER -> SignExtended(value.imm)]

-----------------------------------------------------------------------------
(* Instruction words by name, as the assembler makes them                  *)
Word(op, rs, rt, rd, funct, imm) ==
  [op |-> op, rs |-> rs, rt |-> rt, rd |-> rd, shamt |-> 0, funct |-> funct,
   imm |-> imm % Half, target |-> 0]
OpOf(name) == CHOOSE i \in 0 .. 63 : opTable[i + 1] = name
FunctOf(name) == CHOOSE i \in 0 .. 63 : specialTable[i + 1] = name
Immediate(name, rt, rs, imm) == Word(OpOf(name), rs, rt, 0, 0, imm)
Special(name, rd, rs, rt) == Word(0, rs, rt, rd, FunctOf(name), 0)
Shift(name, rd, rt, n) == [Special(name, rd, 0, rt) EXCEPT !.shamt = n]
JumpTo(name, addr) == [Word(OpOf(name), 0, 0, 0, 0, 0) EXCEPT !.target = addr \div 4]
Nop == Special("SLL", 0, 0, 0)
=============================================================================

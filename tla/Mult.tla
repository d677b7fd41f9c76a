-------------------------------- MODULE Mult --------------------------------
(***************************************************************************)
(* Mult (machine/mipssim.cc): the double-length product of two words, by   *)
(* shifting and adding.  Words have WordBits bits instead of 32; int is    *)
(* two's complement and >> on it is arithmetic, as on the hosts the        *)
(* Makefile names.                                                         *)
(***************************************************************************)
EXTENDS Integers

CONSTANT WordBits

MultAssumption == WordBits \in Nat \ {0, 1}

VARIABLES
  x, y, signedArith,       \* the arguments
  pc,                      \* loop, done
  a, negative,             \* locals
  bLo, bHi, lo, hi, i

vars == <<x, y, signedArith, pc, a, negative, bLo, bHi, lo, hi, i>>

Size == 2 ^ WordBits
SIGN_BIT == 2 ^ (WordBits - 1)
Word == -SIGN_BIT .. SIGN_BIT - 1
ToInt(u) == IF u % Size >= SIGN_BIT THEN (u % Size) - Size ELSE u % Size
ToUnsigned(n) == n % Size

(* Up to the loop.  -a of the least int is that int again.                 *)
Init ==
  /\ x \in Word /\ y \in Word /\ signedArith \in BOOLEAN
  /\ pc = IF x = 0 \/ y = 0 THEN "done" ELSE "loop"
  /\ negative = (signedArith /\ (x < 0) # (y < 0))
  /\ a = IF signedArith /\ x < 0 THEN ToInt(-x) ELSE x
  /\ bLo = ToUnsigned(IF signedArith /\ y < 0 THEN -y ELSE y)
  /\ bHi = 0 /\ lo = 0 /\ hi = 0 /\ i = 0

(* Mutant of AddShifted: the carry is taken from the wrong comparison.     *)
AddShiftedOnly ==
  LET sum == (lo + bLo) % Size
  IN  /\ lo' = sum
      /\ hi' = (hi + (IF sum <= bLo THEN 1 ELSE 0) + bHi) % Size

(* lo += bLo with the carry into hi, and hi += bHi                         *)
AddShifted ==
  LET sum == (lo + bLo) % Size
  IN  /\ lo' = sum
      /\ hi' = (hi + (IF sum < bLo THEN 1 ELSE 0) + bHi) % Size

(* bHi:bLo <<= 1 and a >>= 1                                               *)
Shift ==
  /\ bHi' = ((2 * bHi) % Size) + (IF bLo >= SIGN_BIT THEN 1 ELSE 0)
  /\ bLo' = (2 * bLo) % Size
  /\ a' = a \div 2

(* The two's complement of hi:lo                                           *)
NegatedLo == (Size - lo) % Size
NegatedHi == (Size - 1 - hi + (IF lo = 0 THEN 1 ELSE 0)) % Size

(* One iteration that does not leave the loop                              *)
Iterate ==
  /\ pc = "loop" /\ i < WordBits
  /\ a # 1
  /\ IF a % 2 = 1 THEN AddShifted ELSE UNCHANGED <<lo, hi>>
  /\ Shift /\ i' = i + 1
  /\ UNCHANGED <<x, y, signedArith, pc, negative>>

(* The last bit of a has been reached.                                     *)
Break ==
  /\ pc = "loop" /\ i < WordBits
  /\ a = 1
  /\ AddShifted
  /\ i' = WordBits
  /\ UNCHANGED <<x, y, signedArith, pc, a, negative, bLo, bHi>>

(* After the loop                                                          *)
Finish ==
  /\ pc = "loop" /\ i = WordBits
  /\ pc' = "done"
  /\ lo' = IF negative THEN NegatedLo ELSE lo
  /\ hi' = IF negative THEN NegatedHi ELSE hi
  /\ UNCHANGED <<x, y, signedArith, a, negative, bLo, bHi, i>>

Done == pc = "done" /\ UNCHANGED vars

Next == Iterate \/ Break \/ Finish \/ Done

Spec == Init /\ [][Next]_vars

-----------------------------------------------------------------------------
(* MULT and MULTU leave the exact product of their operands in hi:lo, also *)
(* for the least int, whose absolute value is no int, and for an unsigned  *)
(* operand with bit 31 set, which a >>= 1 treats as negative.              *)
ProductIsExact ==
  pc = "done" =>
    hi * Size + lo =
      (IF signedArith THEN x * y ELSE ToUnsigned(x) * ToUnsigned(y)) % (Size * Size)
=============================================================================

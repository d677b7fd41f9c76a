------------------------------- MODULE Bitmap -------------------------------
(***************************************************************************)
(* Bitmap (lib/bitmap.cc): numBits bits in an array of words.  A word is a *)
(* number below 2^BitsInWord.                                              *)
(***************************************************************************)
EXTENDS Integers, Sequences, FiniteSets, FiniteSetsExt

CONSTANTS numBits, BitsInWord

BitmapAssumption == numBits \in Nat \ {0} /\ BitsInWord \in Nat \ {0}

VARIABLES
  map,
  marked    \* the bits marked and not cleared since (history)

vars == <<map, marked>>

Bit == 0 .. numBits - 1

(* divRoundUp of lib/utility.h                                             *)
divRoundUp(n, s) == (n \div s) + (IF n % s > 0 THEN 1 ELSE 0)

numWords == divRoundUp(numBits, BitsInWord)

(* 1 << (which % BitsInWord)                                               *)
Mask(which) == 2 ^ (which % BitsInWord)

Test(which) == (map[which \div BitsInWord] \div Mask(which)) % 2 = 1

(* map[which / BitsInWord] |= mask, and &= ~mask                           *)
WithBit(which) ==
  [map EXCEPT ![which \div BitsInWord] = IF Test(which) THEN @ ELSE @ + Mask(which)]

WithoutBit(which) ==
  [map EXCEPT ![which \div BitsInWord] = IF Test(which) THEN @ - Mask(which) ELSE @]

Init ==
  /\ map = [w \in 0 .. numWords - 1 |-> 0]
  /\ marked = {}

Mark(which)  == map' = WithBit(which) /\ marked' = marked \cup {which}
Clear(which) == map' = WithoutBit(which) /\ marked' = marked \ {which}

NumClear == Cardinality({i \in Bit : ~Test(i)})

(* Mutant of FindAndSet: the first word that is not full is searched from  *)
(* its first bit, past the end of the map.                                 *)
FindAndSetByWord ==
  LET free == {i \in 0 .. numWords * BitsInWord - 1 : ~Test(i)} IN
  IF free = {} THEN UNCHANGED vars
  ELSE map' = WithBit(Min(free)) /\ marked' = marked \cup {Min(free)}

FindAndSet ==
  LET free == {i \in Bit : ~Test(i)} IN
  IF free = {} THEN UNCHANGED vars
  ELSE map' = WithBit(Min(free)) /\ marked' = marked \cup {Min(free)}

Next == FindAndSet \/ \E i \in Bit : Mark(i) \/ Clear(i)

Spec == Init /\ [][Next]_vars

-----------------------------------------------------------------------------
(* Mark, Clear and FindAndSet change one bit of a word and no other, and   *)
(* no bit past the last one is ever set; Test and NumClear agree with it.  *)
WordsHoldMarks ==
  /\ \A i \in 0 .. numWords * BitsInWord - 1 : Test(i) <=> i \in marked
  /\ marked \subseteq Bit
  /\ NumClear = numBits - Cardinality(marked)
=============================================================================

------------------------------ MODULE ByteFile ------------------------------
(***************************************************************************)
(* What OpenFile promises: a file is an array of bytes of fixed length,    *)
(* read and written at any position, and a request that passes the end of  *)
(* the file is cut off there.                                              *)
(***************************************************************************)
EXTENDS Integers, Sequences

CONSTANTS File, Opened, Byte, Data, MaxLength, MaxPosition

VARIABLES
  contents,     \* the bytes of each file
  seekPosition, \* where the next Read or Write starts
  result        \* what the last request returned: bytes read, or their number

vars == <<contents, seekPosition, result>>

Bytes == UNION {[1 .. n -> Byte] : n \in 0 .. MaxLength}

(* The bytes of file f that n bytes at its position fall on.               *)
Range(f, n) ==
  {i \in 1 .. Len(contents[f]) : i > seekPosition[f] /\ i <= seekPosition[f] + n}

Init ==
  /\ contents \in [File -> Bytes]
  /\ seekPosition = [f \in File |-> 0]
  /\ result = << >>

Advance(f, n) ==
  seekPosition' = [seekPosition EXCEPT
                     ![f] = @ + IF @ >= Len(contents[f]) THEN 0
                                ELSE IF @ + n > Len(contents[f]) THEN Len(contents[f]) - @ ELSE n]

Seek(f, position) ==
  /\ seekPosition' = [seekPosition EXCEPT ![f] = position]
  /\ result' = << >>
  /\ UNCHANGED contents

Read(f, n) ==
  /\ Advance(f, n)
  /\ result' = SubSeq(contents[f], seekPosition[f] + 1, seekPosition'[f])
  /\ UNCHANGED contents

Write(f, from) ==
  /\ result' = << >>
  /\ Advance(f, Len(from))
  /\ contents' = [contents EXCEPT
       ![f] = [i \in DOMAIN @ |-> IF i \in Range(f, Len(from)) THEN from[i - seekPosition[f]]
                                  ELSE @[i]]]

Next ==
  \E f \in Opened :
    \/ \E p \in 0 .. MaxPosition : Seek(f, p)
    \/ \E n \in 0 .. MaxLength : Read(f, n)
    \/ \E from \in Data : Write(f, from)

Spec == Init /\ [][Next]_vars
=============================================================================

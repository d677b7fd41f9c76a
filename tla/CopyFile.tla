------------------------------ MODULE CopyFile ------------------------------
(***************************************************************************)
(* main's -cp and -p options (threads/main.cc): Copy reads a UNIX file in  *)
(* pieces and writes them to a new Nachos file, and Print reads that file  *)
(* in pieces again.  The other files of the disk are in File.              *)
(***************************************************************************)
EXTENDS OpenFile, FiniteSets

CONSTANTS
  to,            \* the Nachos file, a member of File
  UnixFile,      \* the contents the UNIX file may have
  TransferSize

CopyFileAssumption == to \in File /\ TransferSize \in Nat \ {0}

VARIABLES
  pc,       \* create, copy, print, done, or failed: no space
  unix,     \* the contents of the UNIX file
  fd,       \* its position: the bytes read
  printed   \* what Print has printed

copyVars == <<vars, pc, unix, fd, printed>>

Free(hs) == Sector \ UNION {{hs[f].dataSectors[i] : i \in DOMAIN hs[f].dataSectors} : f \in File}
NoFile == [length |-> 0, dataSectors |-> << >>]

CopyInit ==
  /\ hdr \in {hs \in [File -> Header \cup {NoFile}] : WellFormed(hs) /\ hs[to] = NoFile}
  /\ disk \in [Sector -> {[i \in 1 .. SectorSize |-> b] : b \in Byte}]
  /\ seekPosition = [f \in File |-> 0] /\ result = << >>
  /\ pc = "create" /\ unix \in UnixFile /\ fd = 0 /\ printed = << >>

(* FileSystem::Create and Open of the new file, with some free sectors; if *)
(* there are too few, nothing is created.                                  *)
CreateAndOpen ==
  /\ pc = "create"
  /\ LET n == NumSectorsOf([length |-> Len(unix)]) IN
     \/ /\ Cardinality(Free(hdr)) >= n
        /\ \E sectors \in [1 .. n -> Free(hdr)] :
             /\ \A i, j \in 1 .. n : i # j => sectors[i] # sectors[j]
             /\ hdr' = [hdr EXCEPT ![to] = [length |-> Len(unix), dataSectors |-> sectors]]
        /\ pc' = "copy"
     \/ /\ Cardinality(Free(hdr)) < n
        /\ pc' = "failed"
        /\ UNCHANGED hdr
  /\ UNCHANGED <<disk, seekPosition, result, unix, fd, printed>>

(* Mutant of CopyPiece: a full buffer is written, however little was read. *)
CopyFullBuffer ==
  /\ pc = "copy" /\ fd < Len(unix)
  /\ \E amountRead \in 1 .. TransferSize :
       /\ amountRead <= Len(unix) - fd
       /\ Write(to, [k \in 1 .. TransferSize |->
                       IF k <= amountRead THEN unix[fd + k] ELSE unix[1]])
       /\ fd' = fd + amountRead
  /\ UNCHANGED <<pc, unix, printed>>

(* The loop of Copy.  ReadPartial may read fewer bytes than asked for.     *)
CopyPiece ==
  /\ pc = "copy" /\ fd < Len(unix)
  /\ \E amountRead \in 1 .. TransferSize :
       /\ amountRead <= Len(unix) - fd
       /\ Write(to, SubSeq(unix, fd + 1, fd + amountRead))
       /\ fd' = fd + amountRead
  /\ UNCHANGED <<pc, unix, printed>>

(* Copy closes the file, and Print opens it.                               *)
CloseAndOpen ==
  /\ pc = "copy" /\ fd = Len(unix)
  /\ seekPosition' = [seekPosition EXCEPT ![to] = 0]
  /\ pc' = "print"
  /\ UNCHANGED <<disk, hdr, result, unix, fd, printed>>

(* The loop of Print                                                       *)
PrintPiece ==
  /\ pc = "print"
  /\ Read(to, TransferSize)
  /\ printed' = printed \o result'
  /\ pc' = IF result' = << >> THEN "done" ELSE "print"
  /\ UNCHANGED <<unix, fd>>

Ended == pc \in {"done", "failed"} /\ UNCHANGED copyVars

CopyNext == CreateAndOpen \/ CopyPiece \/ CloseAndOpen \/ PrintPiece \/ Ended

CopySpec == CopyInit /\ [][CopyNext]_copyVars

-----------------------------------------------------------------------------
(* Whatever pieces Copy and Print move, on whatever sectors the file is,   *)
(* what is printed is what was in the UNIX file.                           *)
PrintsWhatWasCopied == pc = "done" => printed = unix
=============================================================================

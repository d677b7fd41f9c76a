----------------------------- MODULE MCServices -----------------------------
(***************************************************************************)
(* Storage and mail, for TLC: the disk's geometry, the file system, open   *)
(* files, copying a file, the post office.  A behaviour is one of a single *)
(* part; the others stay where they are.                                   *)
(***************************************************************************)
EXTENDS FileSystem, PostOffice, TLC

CONSTANTS f1, f2, f3

VARIABLES
  part,   \* "disk", "file system", "open file", "copy" or "mail"
  totalTicks, active, lastSector, bufferInit, request, arrival,
  disk, hdr, seekPosition, result,
  copyDisk, copyHdr, copyPosition, copyResult, copyPc, unix, fd, printed

diskVars == <<totalTicks, active, lastSector, bufferInit, request, arrival>>
fileVars == <<disk, hdr, seekPosition, result>>
copyVars == <<copyDisk, copyHdr, copyPosition, copyResult, copyPc, unix, fd, printed>>
servicesVars == <<part, diskVars, vars, fileVars, copyVars, mailVars>>

-----------------------------------------------------------------------------
(* Three tracks of three sectors; a seek and a turn by one sector take     *)
(* different times, so that seeks end in the middle of a sector.           *)
Disk == INSTANCE Disk
          WITH SectorsPerTrack <- 3, NumTracks <- 3, RotationTime <- 3, SeekTime <- 2,
               MaxTicks <- 27

Symmetry == Permutations({f1, f2, f3})

(* Lengths around the multiples of the sector size, and sectors that are   *)
(* not in order on the disk.                                               *)
Headers ==
  {[length |-> 5, dataSectors |-> <<3, 1, 4>>], [length |-> 2, dataSectors |-> <<2>>],
   [length |-> 1, dataSectors |-> <<1>>]}
FileIO == INSTANCE OpenFile
          WITH File <- {"f", "g"}, Opened <- {"f"}, Byte <- {0, 1}, SectorSize <- 2,
               Data <- {<< >>, <<1>>, <<0, 1>>, <<1, 0, 1>>, <<1, 0, 1, 1, 0>>},
               MaxLength <- 5, MaxPosition <- 3, Header <- Headers, Sector <- 1 .. 4

(* Pieces of up to three bytes and sectors of two: pieces start and end    *)
(* inside of sectors, which with 128 bytes each only partial reads can     *)
(* cause.                                                                  *)
Copy == INSTANCE CopyFile
          WITH File <- {"to", "other"}, to <- "to", Opened <- {}, Byte <- {0, 1}, Data <- {},
               SectorSize <- 2, TransferSize <- 3, MaxLength <- 0, MaxPosition <- 0,
               Header <- {[length |-> 3, dataSectors |-> <<3, 1>>],
                          [length |-> 1, dataSectors |-> <<2>>]},
               Sector <- 1 .. 4,
               UnixFile <- {<<1, 0, 1, 1, 0>>} \cup UNION {[1 .. n -> {0, 1}] : n \in 0 .. 4},
               disk <- copyDisk, hdr <- copyHdr, seekPosition <- copyPosition,
               result <- copyResult, pc <- copyPc

(* Two threads on machine 0, one on machine 1; three messages from machine *)
(* 0 to two mailboxes of machine 1, of which any may be lost.              *)
Hosts == [t \in {"t1", "t2", "t3"} |-> IF t = "t3" THEN 1 ELSE 0]
Messages ==
  {[from |-> 0, to |-> 1, box |-> b, reply |-> 1, id |-> i] :
     <<b, i>> \in {<<0, 1>>, <<0, 2>>, <<1, 3>>}}

ASSUME
  /\ Disk!DiskAssumption /\ FileSystemAssumption /\ FileIO!OpenFileAssumption
  /\ Copy!OpenFileAssumption /\ Copy!CopyFileAssumption /\ PostOfficeAssumption

-----------------------------------------------------------------------------
(* Where a part that does not run stays.                                   *)
FSAtRest   == Init /\ map = {}
FileAtRest == disk = [s \in 1 .. 4 |-> <<0, 0>>]
              /\ hdr = [f \in {"f", "g"} |->
                          IF f = "f" THEN [length |-> 2, dataSectors |-> <<2>>]
                          ELSE [length |-> 1, dataSectors |-> <<1>>]]
              /\ FileIO!Init
CopyAtRest == /\ copyHdr = [f \in {"to", "other"} |-> Copy!NoFile]
              /\ copyDisk = [s \in 1 .. 4 |-> <<0, 0>>]
              /\ unix = << >> /\ Copy!CopyInit
MailAtRest == power = [m \in {0, 1} |-> "off"] /\ Quiet

ServicesInit ==
  /\ part \in {"disk", "file system", "open file", "copy", "mail"}
  /\ Disk!Init
  /\ IF part = "file system" THEN Init ELSE FSAtRest
  /\ IF part = "open file" THEN FileIO!Init ELSE FileAtRest
  /\ IF part = "copy" THEN Copy!CopyInit ELSE CopyAtRest
  /\ IF part = "mail" THEN MailInit ELSE MailAtRest

ServicesNext ==
  /\ UNCHANGED part
  /\ \/ part = "disk" /\ Disk!Next /\ UNCHANGED <<vars, fileVars, copyVars, mailVars>>
     \/ part = "file system" /\ Next /\ UNCHANGED <<diskVars, fileVars, copyVars, mailVars>>
     \/ part = "open file" /\ FileIO!Next /\ UNCHANGED <<diskVars, vars, copyVars, mailVars>>
     \/ part = "copy" /\ Copy!CopyNext /\ UNCHANGED <<diskVars, vars, fileVars, mailVars>>
     \/ part = "mail" /\ MailNext /\ UNCHANGED <<diskVars, vars, fileVars, copyVars>>

ServicesSpec == ServicesInit /\ [][ServicesNext]_servicesVars

-----------------------------------------------------------------------------
(* A disk request is done when its sector has passed under the head.       *)
LatencyIsExact == Disk!LatencyIsExact

(* ReadAt and WriteAt by whole sectors are reads and writes of bytes.      *)
ImplementsByteFile == FileIO!ImplementsByteFile

(* Print prints what Copy read from the UNIX file.                         *)
PrintsWhatWasCopied == Copy!PrintsWhatWasCopied
=============================================================================

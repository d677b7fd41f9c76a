------------------------------ MODULE OpenFile ------------------------------
(***************************************************************************)
(* OpenFile (filesys/openfile.cc): bytes of a file are read and written    *)
(* through the sectors its header names, a whole sector at a time.         *)
(*                                                                         *)
(* Two requests are not concurrent (filesys.cc: "there is no               *)
(* synchronization for concurrent accesses").                              *)
(***************************************************************************)
EXTENDS Integers, Sequences

CONSTANTS
  File,
  Opened,       \* the files that are open, once each
  Byte,
  Data,         \* the byte strings that are written
  SectorSize,
  MaxLength,    \* bound: the bytes of one request
  MaxPosition   \* bound: the positions sought

OpenFileAssumption == SectorSize \in Nat \ {0} /\ MaxLength \in Nat /\ MaxPosition \in Nat

VARIABLES
  disk,         \* the bytes of the sectors
  hdr,          \* the header of each file: length and dataSectors
  seekPosition, \* of each file
  result        \* what the last request returned: the bytes read

vars == <<disk, hdr, seekPosition, result>>

divRoundDown(n, s) == n \div s
Clipped(f, numBytes, position) ==
  IF position + numBytes > hdr[f].length THEN hdr[f].length - position ELSE numBytes

(* FileHeader::ByteToSector                                                *)
ByteToSector(f, offset) == hdr[f].dataSectors[divRoundDown(offset, SectorSize) + 1]

(* The sectors first to last of file f, one after the other.               *)
ReadSectors(f, first, last) ==
  [k \in 1 .. (1 + last - first) * SectorSize |->
     disk[ByteToSector(f, first * SectorSize + k - 1)][((k - 1) % SectorSize) + 1]]

(* bcopy(from, &into[at], Len(from))                                       *)
Copied(from, into, at) ==
  [k \in DOMAIN into |-> IF k > at /\ k <= at + Len(from) THEN from[k - at] ELSE into[k]]

(* OpenFile::ReadAt: the bytes read                                        *)
ReadAt(f, numBytes, position) ==
  IF numBytes <= 0 \/ position >= hdr[f].length THEN << >>
  ELSE LET n     == Clipped(f, numBytes, position)
           first == divRoundDown(position, SectorSize)
           last  == divRoundDown(position + n - 1, SectorSize)
           at    == position - first * SectorSize
       IN  SubSeq(ReadSectors(f, first, last), at + 1, at + n)

(* What new char[n] may hold: here the same in every sector, since of one  *)
(* sector only can any of it be left.                                      *)
Junk(n) == {[k \in 1 .. n |-> j[((k - 1) % SectorSize) + 1]] : j \in [1 .. SectorSize -> Byte]}

(* Mutant of WriteBuffer: the last sector is not read when the first one   *)
(* is unaligned as well.                                                   *)
WriteBufferOnce(f, from, position, junk) ==
  LET first == divRoundDown(position, SectorSize)
      last  == divRoundDown(position + Len(from) - 1, SectorSize)
      firstAligned == position = first * SectorSize
      lastAligned  == position + Len(from) = (last + 1) * SectorSize
      one == IF firstAligned THEN junk
             ELSE Copied(ReadAt(f, SectorSize, first * SectorSize), junk, 0)
      two == IF lastAligned \/ ~firstAligned THEN one
             ELSE Copied(ReadAt(f, SectorSize, last * SectorSize), one,
                         (last - first) * SectorSize)
  IN  Copied(from, two, position - first * SectorSize)

(* The buffer that WriteAt writes: uninitialised, then the partial sectors *)
(* at both ends, then the bytes to be written.                             *)
WriteBuffer(f, from, position, junk) ==
  LET first == divRoundDown(position, SectorSize)
      last  == divRoundDown(position + Len(from) - 1, SectorSize)
      firstAligned == position = first * SectorSize
      lastAligned  == position + Len(from) = (last + 1) * SectorSize
      one == IF firstAligned THEN junk
             ELSE Copied(ReadAt(f, SectorSize, first * SectorSize), junk, 0)
      two == IF lastAligned \/ (first = last /\ ~firstAligned) THEN one
             ELSE Copied(ReadAt(f, SectorSize, last * SectorSize), one,
                         (last - first) * SectorSize)
  IN  Copied(from, two, position - first * SectorSize)

(* OpenFile::WriteAt: the number of bytes written, and the disk after it   *)
WriteAt(f, from, position) ==
  IF Len(from) <= 0 \/ position >= hdr[f].length THEN disk' = disk
  ELSE LET n       == Clipped(f, Len(from), position)
           first   == divRoundDown(position, SectorSize)
           last    == divRoundDown(position + n - 1, SectorSize)
           bufSize == (1 + last - first) * SectorSize
       IN  \E junk \in Junk(bufSize) :
             LET buf == WriteBuffer(f, SubSeq(from, 1, n), position, junk)
             IN  disk' = [s \in DOMAIN disk |->
                   IF \E i \in first .. last : ByteToSector(f, i * SectorSize) = s
                   THEN LET i == CHOOSE i \in first .. last : ByteToSector(f, i * SectorSize) = s
                        IN  SubSeq(buf, (i - first) * SectorSize + 1, (i - first + 1) * SectorSize)
                   ELSE disk[s]]
Written(f, from, position) ==
  IF Len(from) <= 0 \/ position >= hdr[f].length THEN 0 ELSE Clipped(f, Len(from), position)

-----------------------------------------------------------------------------
(* A file system at rest: headers whose sectors are not shared.            *)
NumSectorsOf(h) == (h.length + SectorSize - 1) \div SectorSize
WellFormed(hs) ==
  /\ \A f \in File : Len(hs[f].dataSectors) = NumSectorsOf(hs[f])
  /\ \A f, g \in File : \A i \in DOMAIN hs[f].dataSectors, j \in DOMAIN hs[g].dataSectors :
       <<f, i>> # <<g, j>> => hs[f].dataSectors[i] # hs[g].dataSectors[j]

CONSTANTS Header, Sector   \* the headers and the sectors of the initial states

Init ==
  /\ hdr \in {hs \in [File -> Header] : WellFormed(hs)}
  /\ disk \in [Sector -> [1 .. SectorSize -> Byte]]
  /\ seekPosition = [f \in File |-> 0]
  /\ result = << >>

(* OpenFile::Seek                                                          *)
Seek(f, position) ==
  /\ seekPosition' = [seekPosition EXCEPT ![f] = position]
  /\ result' = << >>
  /\ UNCHANGED <<disk, hdr>>

(* OpenFile::Read                                                          *)
Read(f, numBytes) ==
  /\ result' = ReadAt(f, numBytes, seekPosition[f])
  /\ seekPosition' = [seekPosition EXCEPT ![f] = @ + Len(result')]
  /\ UNCHANGED <<disk, hdr>>

(* OpenFile::Write                                                         *)
Write(f, from) ==
  /\ WriteAt(f, from, seekPosition[f])
  /\ seekPosition' = [seekPosition EXCEPT ![f] = @ + Written(f, from, @)]
  /\ result' = << >>
  /\ UNCHANGED hdr

Next ==
  \E f \in Opened :
    \/ \E p \in 0 .. MaxPosition : Seek(f, p)
    \/ \E n \in 0 .. MaxLength : Read(f, n)
    \/ \E from \in Data : Write(f, from)

Spec == Init /\ [][Next]_vars

-----------------------------------------------------------------------------
Contents(f) ==
  SubSeq(ReadSectors(f, 0, NumSectorsOf(hdr[f]) - 1), 1, hdr[f].length)

(* Reads and writes through whole sectors, with partial sectors at either  *)
(* end merged with what is on disk, are reads and writes of a byte array:  *)
(* what WriteAt leaves in its buffer uninitialised never shows in a file,  *)
(* and no byte of another file changes.                                    *)
Abstract == INSTANCE ByteFile WITH contents <- [f \in File |-> Contents(f)]
ImplementsByteFile == Abstract!Spec
=============================================================================

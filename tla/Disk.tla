-------------------------------- MODULE Disk --------------------------------
(***************************************************************************)
(* The timing of the simulated disk (machine/disk.cc): how long a request  *)
(* takes from the position of the head, with the track buffer that serves  *)
(* reads of the current track.  The data of the sectors and the threads    *)
(* that wait for the disk are in module SynchDisk.                         *)
(***************************************************************************)
EXTENDS Integers

CONSTANTS SectorsPerTrack, NumTracks, RotationTime, SeekTime,
          MaxTicks   \* bound on the clock

DiskAssumption ==
  {SectorsPerTrack, NumTracks, RotationTime, SeekTime, MaxTicks} \subseteq Nat \ {0}

VARIABLES
  totalTicks,  \* Statistics::totalTicks
  active,      \* Disk::active
  lastSector,  \* Disk::lastSector
  bufferInit,  \* Disk::bufferInit
  request,     \* the last request: its sector, when it came and when it is done
  arrival      \* when the head came to the track it is on (history)

vars == <<totalTicks, active, lastSector, bufferInit, request, arrival>>

SectorsOnDisk == SectorsPerTrack * NumTracks
Sector == 0 .. SectorsOnDisk - 1
Track(s) == s \div SectorsPerTrack
Abs(n) == IF n < 0 THEN -n ELSE n

(* Disk::Disk.  There is no request yet; the first one may be anything.    *)
Init ==
  /\ totalTicks = 0
  /\ active = FALSE
  /\ lastSector = 0
  /\ bufferInit = 0
  /\ request = [sector |-> 0, writing |-> FALSE, at |-> 0, due |-> RotationTime, arrival |-> 0]
  /\ arrival = 0

-----------------------------------------------------------------------------
(* Disk::TimeToSeek, its result and its out parameter.                     *)
TimeToSeek(newSector) ==
  LET seek == Abs(Track(newSector) - Track(lastSector)) * SeekTime
      over == (totalTicks + seek) % RotationTime
  IN  [seek |-> seek, rotation |-> IF over > 0 THEN RotationTime - over ELSE 0]

ModuloDiff(to, from) ==
  (((to % SectorsPerTrack) - (from % SectorsPerTrack)) + SectorsPerTrack) % SectorsPerTrack

(* Mutant of ComputeLatency: the sector that is being read counts as read. *)
ComputeLatencyEarly(newSector, writing) ==
  LET t == TimeToSeek(newSector)
      timeAfter == totalTicks + t.seek + t.rotation
  IN  IF /\ ~writing /\ t.seek = 0
         /\ (timeAfter - bufferInit) \div RotationTime
              >= ModuloDiff(newSector, bufferInit \div RotationTime)
      THEN RotationTime
      ELSE t.seek + t.rotation + RotationTime
             + ModuloDiff(newSector, timeAfter \div RotationTime) * RotationTime

ComputeLatency(newSector, writing) ==
  LET t == TimeToSeek(newSector)
      timeAfter == totalTicks + t.seek + t.rotation
  IN  IF /\ ~writing /\ t.seek = 0
         /\ (timeAfter - bufferInit) \div RotationTime
              > ModuloDiff(newSector, bufferInit \div RotationTime)
      THEN RotationTime
      ELSE t.seek + t.rotation + RotationTime
             + ModuloDiff(newSector, timeAfter \div RotationTime) * RotationTime

UpdateLast(newSector) ==
  LET t == TimeToSeek(newSector)
  IN  /\ bufferInit' = IF t.seek # 0 THEN totalTicks + t.seek + t.rotation ELSE bufferInit
      /\ lastSector' = newSector

(* Disk::ReadRequest and Disk::WriteRequest                                *)
Request(s, writing) ==
  /\ ~active
  /\ active' = TRUE
  /\ UpdateLast(s)
  /\ arrival' = IF Track(s) = Track(lastSector) THEN arrival
                ELSE totalTicks + Abs(Track(s) - Track(lastSector)) * SeekTime
  /\ request' = [sector |-> s, writing |-> writing, at |-> totalTicks,
                 due |-> totalTicks + ComputeLatency(s, writing), arrival |-> arrival']
  /\ UNCHANGED totalTicks

(* Disk::CallBack, called at the scheduled time or later.                  *)
CallBack ==
  /\ active /\ totalTicks >= request.due
  /\ active' = FALSE
  /\ UNCHANGED <<totalTicks, lastSector, bufferInit, request, arrival>>

Tick ==
  /\ totalTicks < MaxTicks
  /\ totalTicks' = totalTicks + 1
  /\ UNCHANGED <<active, lastSector, bufferInit, request, arrival>>

Next == (\E s \in Sector, w \in BOOLEAN : Request(s, w)) \/ CallBack \/ Tick

Spec == Init /\ [][Next]_vars

-----------------------------------------------------------------------------
(* A reference for the geometry, independent of the arithmetic above: the  *)
(* disk turns for ever, so that the head is over sector (t / RotationTime) *)
(* of its track at time t.  Passes(s, from, to) are the times between from *)
(* and to at which sector s starts to pass under the head and still passes *)
(* completely.                                                             *)
Passes(s, from, to) ==
  {t \in from .. to - RotationTime :
     /\ t % RotationTime = 0
     /\ (t \div RotationTime) % SectorsPerTrack = s % SectorsPerTrack}

Horizon == MaxTicks + NumTracks * SeekTime + (SectorsPerTrack + 2) * RotationTime
FirstPass(s, from) ==
  CHOOSE t \in Passes(s, from, Horizon) : \A u \in Passes(s, from, Horizon) : t <= u
RoundUp(t) == ((t + RotationTime - 1) \div RotationTime) * RotationTime

(* A request is done as soon as its sector has passed completely under the *)
(* head once the head is on the track.  Only a read is answered sooner,    *)
(* from the track buffer, and only of a sector that has passed completely  *)
(* since the head came to the track: the others are not in the buffer.     *)
LatencyIsExact ==
  active =>
    request.due =
      IF ~request.writing /\ request.arrival <= request.at
         /\ Passes(request.sector, request.arrival, RoundUp(request.at)) # {}
      THEN request.at + RotationTime
      ELSE FirstPass(request.sector,
                     IF request.arrival > request.at THEN request.arrival ELSE request.at)
             + RotationTime
=============================================================================

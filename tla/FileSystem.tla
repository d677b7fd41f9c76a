----------------------------- MODULE FileSystem -----------------------------
(***************************************************************************)
(* The file system (filesys/filesys.cc, directory.cc, filehdr.cc,          *)
(* pbitmap.cc, lib/bitmap.cc): Create, Open and Remove over the bitmap of  *)
(* free sectors, the directory and the file headers, as they are on disk.  *)
(*                                                                         *)
(* An operation reads bitmap, directory and header into memory, changes    *)
(* them there and writes them back, sector by sector.  Nothing else runs   *)
(* meanwhile ("there is no synchronization for concurrent accesses"), so   *)
(* the part in memory is one step, every sector written another; Nachos    *)
(* may exit between two writes.                                            *)
(*                                                                         *)
(* File names are compared up to their ninth character; a name stands for  *)
(* those nine.  The size of a file is counted in sectors.                  *)
(***************************************************************************)
EXTENDS Integers, Sequences, FiniteSets

CONSTANTS
  NumSectors,    \* the sectors of the disk
  Name,          \* file names
  NumDirEntries, \* the entries of the directory
  SplitEntry,    \* the entry that straddles the directory's two sectors:
                 \* its inUse and sector in the first, its name in the second
  NumDirect,     \* the data sectors a header can name
  Size,          \* the sizes of the files that are created
  MaxOpen,       \* bound: the files open at a time
  None

VARIABLES
  map,     \* the bitmap on disk: the sectors marked as used
  dir,     \* the directory on disk
  hdrs,    \* the sectors that hold a file header, else None
  writes,  \* what the operation in progress has still to write
  slot,    \* the directory entry it changes (history)
  open,    \* the open files: the header in memory, and whether the file has
           \* been removed since (history)
  state    \* unformatted (or being formatted), running, crashed

vars == <<map, dir, hdrs, writes, slot, open, state>>

Sector == 0 .. NumSectors - 1
Entry == 1 .. NumDirEntries
FreeMapSector == 0
DirectorySector == 1
DirectoryEntry == [inUse : BOOLEAN, sector : Sector, name : Name \cup {None}]
FileHeader == [numSectors : Nat, dataSectors : SUBSET Sector]

(* A header can name all the sectors of the directory and of every file:   *)
(* "files cannot be bigger than about 3KB in size" (filesys.cc:35).  For a *)
(* bigger one Allocate would write, and Deallocate read, behind            *)
(* dataSectors; nothing is said of that here.                              *)
FileSystemAssumption ==
  /\ NumSectors \in Nat /\ NumSectors > 5
  /\ NumDirEntries \in Nat /\ SplitEntry \in Entry
  /\ NumDirect \in Nat /\ NumDirect >= 2 /\ Size \subseteq 0 .. NumDirect
  /\ MaxOpen \in Nat
  /\ None \notin Entry /\ None \notin FileHeader

TypeOK ==
  /\ map \subseteq Sector
  /\ dir \in [Entry -> DirectoryEntry]
  /\ hdrs \in [Sector -> FileHeader \cup {None}]
  /\ slot \in Entry \cup {None}
  /\ open \subseteq [sector : Sector, hdr : FileHeader, removed : BOOLEAN]
  /\ state \in {"unformatted", "running", "crashed"}

-----------------------------------------------------------------------------
(* Bitmap::FindAndSet takes the first clear bit, or returns -1; n calls in *)
(* a row take the n first ones.                                            *)
FirstClear(m, n) == {s \in Sector \ m : Cardinality({r \in Sector \ m : r < s}) < n}
FindAndSet(m) == IF m = Sector THEN -1 ELSE CHOOSE s \in FirstClear(m, 1) : TRUE
NumClear(m) == Cardinality(Sector \ m)

(* FileHeader::Allocate, when there is enough space: the header and the    *)
(* bitmap after it, for numSectors <= NumDirect.                           *)
Allocate(m, numSectors) ==
  LET taken == FirstClear(m, numSectors)
  IN  [hdr |-> [numSectors |-> numSectors, dataSectors |-> taken], map |-> m \cup taken]

(* Mutant of Deallocate: clears the index, not the sector at the index.    *)
DeallocateIndices(m, hdr) == m \ (0 .. hdr.numSectors - 1)

(* FileHeader::Deallocate of a header that Allocate has made: the first    *)
(* numSectors of dataSectors are all it names.                             *)
Deallocate(m, hdr) == m \ hdr.dataSectors

(* Directory::FindIndex, None for -1, Directory::Add and Directory::Remove *)
Matching(name) == {e \in Entry : dir[e].inUse /\ dir[e].name = name}
FirstNamed(name) ==    \* mutant of FindIndex: entries not in use are found too
  LET named == {e \in Entry : dir[e].name = name} IN
  IF named = {} THEN None ELSE CHOOSE e \in named : \A f \in named : e <= f
FindIndex(name) ==
  IF Matching(name) = {} THEN None
  ELSE CHOOSE e \in Matching(name) : \A f \in Matching(name) : e <= f
FreeEntries == {e \in Entry : ~dir[e].inUse}
FirstFree == CHOOSE e \in FreeEntries : \A f \in FreeEntries : e <= f
Add(name, sector) ==
  [dir EXCEPT ![FirstFree] = [inUse |-> TRUE, sector |-> sector, name |-> name]]
RemoveEntry(name) == [dir EXCEPT ![FindIndex(name)].inUse = FALSE]

(* The WriteBack of a header, the bitmap (one sector) and the directory    *)
(* (two sectors).                                                          *)
WriteHdr(sector, hdr) == <<[to |-> "hdr", sector |-> sector, hdr |-> hdr]>>
WriteMap(m) == <<[to |-> "map", map |-> m]>>
WriteDir(d) == <<[to |-> "dir", part |-> 1, dir |-> d], [to |-> "dir", part |-> 2, dir |-> d]>>

(* What one sector of the directory holds.                                 *)
Overwritten(old, new, part) ==
  [e \in Entry |->
     CASE e < SplitEntry -> IF part = 1 THEN new[e] ELSE old[e]
       [] e > SplitEntry -> IF part = 2 THEN new[e] ELSE old[e]
       [] OTHER -> IF part = 1 THEN [new[e] EXCEPT !.name = old[e].name]
                   ELSE [old[e] EXCEPT !.name = new[e].name]]

Idle == state = "running" /\ writes = << >>

-----------------------------------------------------------------------------
(* A disk with anything on it.                                             *)
Init ==
  /\ map \in {{}, Sector}
  /\ dir = [e \in Entry |-> [inUse |-> TRUE, sector |-> 0, name |-> None]]
  /\ hdrs = [s \in Sector |-> None]
  /\ writes = << >> /\ slot = None /\ open = {} /\ state = "unformatted"

(* FileSystem::FileSystem with format = TRUE: the headers of the bitmap    *)
(* and of the directory are in sectors 0 and 1, their data in the first    *)
(* free sectors.                                                           *)
Format ==
  LET mapHdr == Allocate({FreeMapSector, DirectorySector}, 1)
      dirHdr == Allocate(mapHdr.map, 2)
      empty  == [e \in Entry |-> [inUse |-> FALSE, sector |-> 0, name |-> None]]
  IN
  /\ state = "unformatted" /\ writes = << >>
  /\ writes' = WriteHdr(FreeMapSector, mapHdr.hdr) \o WriteHdr(DirectorySector, dirHdr.hdr)
                 \o WriteMap(dirHdr.map) \o WriteDir(empty)
  /\ UNCHANGED <<map, dir, hdrs, slot, open, state>>

(* Mutant of Create: the bitmap is not written back.                       *)
CreateWithoutMap(name, size) ==
  /\ Idle /\ FindIndex(name) = None /\ FreeEntries # {}
  /\ LET sector == FindAndSet(map)
         alloc  == Allocate(map \cup {sector}, size)
     IN  /\ sector # -1 /\ NumClear(map \cup {sector}) >= size
         /\ writes' = WriteHdr(sector, alloc.hdr) \o WriteDir(Add(name, sector))
  /\ slot' = FirstFree
  /\ UNCHANGED <<map, dir, hdrs, open, state>>

(* Mutant of Create: a full disk is not noticed.                           *)
CreateUnchecked(name, size) ==
  /\ Idle /\ FindIndex(name) = None /\ FreeEntries # {}
  /\ LET sector == FindAndSet(map)
         alloc  == Allocate(map \cup {sector}, size)
     IN  /\ NumClear(map \cup {sector}) >= size
         /\ writes' = WriteHdr(sector, alloc.hdr) \o WriteDir(Add(name, sector))
                        \o WriteMap(alloc.map)
  /\ slot' = FirstFree
  /\ UNCHANGED <<map, dir, hdrs, open, state>>

(* FileSystem::Create, when it returns TRUE.  It fails, without having     *)
(* written anything, if the name is in the directory, or there is no       *)
(* sector for the header, no entry in the directory or no space.           *)
Create(name, size) ==
  /\ Idle /\ FindIndex(name) = None /\ FreeEntries # {}
  /\ LET sector == FindAndSet(map)
         alloc  == Allocate(map \cup {sector}, size)
     IN  /\ sector # -1 /\ NumClear(map \cup {sector}) >= size
         /\ writes' = WriteHdr(sector, alloc.hdr) \o WriteDir(Add(name, sector))
                        \o WriteMap(alloc.map)
  /\ slot' = FirstFree
  /\ UNCHANGED <<map, dir, hdrs, open, state>>

(* FileSystem::Open and OpenFile::OpenFile: the header is read into        *)
(* memory.  NULL is returned if the name is not found.                     *)
Open(name) ==
  /\ Idle /\ FindIndex(name) # None /\ Cardinality(open) < MaxOpen
  /\ LET sector == dir[FindIndex(name)].sector
     IN  open' = open \cup {[sector |-> sector, hdr |-> hdrs[sector], removed |-> FALSE]}
  /\ UNCHANGED <<map, dir, hdrs, writes, slot, state>>

Close(f) ==
  /\ Idle /\ open' = open \ {f}
  /\ UNCHANGED <<map, dir, hdrs, writes, slot, state>>

(* An open file is written; what its sectors held before is gone.  Who     *)
(* removes a file closes it first, as main does: through a removed file    *)
(* the sectors of another one would be written.                            *)
WriteData(f) ==
  /\ Idle /\ ~f.removed
  /\ hdrs' = [s \in Sector |-> IF s \in f.hdr.dataSectors THEN None ELSE hdrs[s]]
  /\ UNCHANGED <<map, dir, writes, slot, open, state>>

(* FileSystem::Remove, when the file is found.                             *)
Remove(name) ==
  /\ Idle /\ FindIndex(name) # None
  /\ LET sector == dir[FindIndex(name)].sector
     IN  /\ writes' = WriteMap(Deallocate(map, hdrs[sector]) \ {sector})
                        \o WriteDir(RemoveEntry(name))
         /\ open' = {IF f.sector = sector THEN [f EXCEPT !.removed = TRUE] ELSE f : f \in open}
  /\ slot' = FindIndex(name)
  /\ UNCHANGED <<map, dir, hdrs, state>>

(* The next sector is written back.  With the last one the operation       *)
(* returns (and a formatted file system is ready).                         *)
WriteBack ==
  /\ writes # << >> /\ state # "crashed"
  /\ LET w == Head(writes) IN
     /\ hdrs' = IF w.to = "hdr" THEN [hdrs EXCEPT ![w.sector] = w.hdr] ELSE hdrs
     /\ map' = IF w.to = "map" THEN w.map ELSE map
     /\ dir' = IF w.to = "dir" THEN Overwritten(dir, w.dir, w.part) ELSE dir
  /\ writes' = Tail(writes)
  /\ slot' = IF Tail(writes) = << >> THEN None ELSE slot
  /\ state' = IF Tail(writes) = << >> THEN "running" ELSE state
  /\ UNCHANGED open

(* Nachos exits in the middle of an operation; nobody repairs the disk.    *)
Crash ==
  /\ state = "running" /\ writes # << >>
  /\ state' = "crashed" /\ open' = {}
  /\ UNCHANGED <<map, dir, hdrs, writes, slot>>

Next ==
  \/ Format \/ WriteBack \/ Crash
  \/ \E name \in Name : Open(name) \/ Remove(name) \/ \E n \in Size : Create(name, n)
  \/ \E f \in open : Close(f) \/ WriteData(f)

Spec == Init /\ [][Next]_vars

-----------------------------------------------------------------------------
(* The files of the directory, as entries, and the sectors they own.       *)
Used == {e \in Entry : dir[e].inUse}
Owned(e) == {dir[e].sector} \cup hdrs[dir[e].sector].dataSectors
Reserved ==
  {FreeMapSector, DirectorySector}
    \cup UNION {hdrs[s].dataSectors : s \in {FreeMapSector, DirectorySector}}

(* The entries E have a header each and their sectors are marked, not      *)
(* shared, and distinct from those of the bitmap and the directory.        *)
Sound(E) ==
  /\ Reserved \subseteq map
  /\ \A e \in E : /\ hdrs[dir[e].sector] # None
                  /\ Owned(e) \subseteq map /\ Owned(e) \cap Reserved = {}
  /\ \A e, f \in E : e # f => Owned(e) \cap Owned(f) = {} /\ dir[e].name # dir[f].name

(* Between two operations bitmap, directory and headers agree: no sector   *)
(* belongs to two files or to a file and the free list, none is lost, and  *)
(* no name is there twice.                                                 *)
DiskIsConsistent ==
  Idle => Sound(Used) /\ map = Reserved \cup UNION {Owned(e) : e \in Used}

(* Whatever the write after which Nachos exits, the damage is confined to  *)
(* the entry that was being created or removed: all other files are whole  *)
(* and their sectors still marked.  (That entry may be left with sectors   *)
(* marked free, and under the name of the file that had its slot before.)  *)
CrashHurtsOneEntry == state = "crashed" => Sound(Used \ {slot})

(* An open file works on a copy of its header.  As long as the file has    *)
(* not been removed the copy is what the disk says, and its sectors belong *)
(* to no one else.                                                         *)
OpenHeaderIsCurrent ==
  \A f \in open : ~f.removed =>
    /\ hdrs[f.sector] = f.hdr
    /\ \E e \in Used : dir[e].sector = f.sector

(* Between operations bitmap, directory and headers on disk agree, exiting *)
(* between two sector writes damages one directory entry at most, and the  *)
(* header in an open file is the one on disk until the file is removed.    *)
FilesAreSound ==
  TypeOK /\ DiskIsConsistent /\ CrashHurtsOneEntry /\ OpenHeaderIsCurrent
=============================================================================

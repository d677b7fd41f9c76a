-------------------------- MODULE FileSystemProofs --------------------------
(***************************************************************************)
(* Proofs about the file system (module FileSystem), for disks, headers    *)
(* and directories of any size: bitmap, directory and headers agree        *)
(* between two operations, and an exit between any two sector writes       *)
(* damages at most one directory entry.                                    *)
(***************************************************************************)
EXTENDS FileSystem, FiniteSetTheorems, SequenceTheorems, WellFoundedInduction, TLAPS

-----------------------------------------------------------------------------
(* A nonempty set of natural numbers has a least element.                  *)
LEMMA LeastNat ==
  ASSUME NEW T, T \subseteq Nat, T # {}
  PROVE  \E x \in T : \A y \in T : x <= y
<1> DEFINE R == OpToRel(<, Nat)
<1>1. IsWellFoundedOn(R, Nat)
  BY NatLessThanWellFounded, Zenon
<1>2. \A x, y \in Nat : <<y, x>> \in R <=> y < x
  BY Zenon DEF OpToRel
<1> HIDE DEF R
<1>3. PICK x \in T : \A y \in T : ~ (<<y, x>> \in R)
  BY <1>1, WFMin, Zenon
<1>4. ASSUME NEW y \in T
      PROVE  x <= y
  <2>1. x \in Nat /\ y \in Nat
    BY Zenon
  <2>2. ~ (y < x)
    BY <1>2, <1>3, <2>1, Zenon
  <2>. QED  BY <2>1, <2>2
<1>. QED  BY <1>4, Zenon

(* The sequences of writes of Remove, Create and Format.                   *)
LEMMA ConcatThree ==
  ASSUME NEW a, NEW b, NEW c
  PROVE  <<a>> \o <<b, c>> = <<a, b, c>>
<1>1. <<a>> \o <<b, c>> \in Seq({a, b, c}) /\ Len(<<a>> \o <<b, c>>) = 3
  OBVIOUS
<1>2. <<a, b, c>> \in Seq({a, b, c}) /\ Len(<<a, b, c>>) = 3
  OBVIOUS
<1>3. \A i \in 1 .. 3 : (<<a>> \o <<b, c>>)[i] = <<a, b, c>>[i]
  OBVIOUS
<1>. QED  BY <1>1, <1>2, <1>3, SeqEqual, Zenon

LEMMA ConcatFour ==
  ASSUME NEW a, NEW b, NEW c, NEW d
  PROVE  <<a>> \o <<b, c>> \o <<d>> = <<a, b, c, d>>
<1> DEFINE s == <<a, b, c>> \o <<d>>
           S == {a, b, c, d}
<1>1. s \in Seq(S) /\ Len(s) = 4
  OBVIOUS
<1>2. <<a, b, c, d>> \in Seq(S) /\ Len(<<a, b, c, d>>) = 4
  OBVIOUS
<1>3. \A i \in 1 .. 4 : s[i] = <<a, b, c, d>>[i]
  OBVIOUS
<1> HIDE DEF s, S
<1>4. s = <<a, b, c, d>>
  BY <1>1, <1>2, <1>3, SeqEqual, Zenon
<1>. QED  BY <1>4, ConcatThree, Zenon DEF s

LEMMA ConcatFive ==
  ASSUME NEW a, NEW b, NEW c, NEW d, NEW e
  PROVE  <<a>> \o <<b>> \o <<c>> \o <<d, e>> = <<a, b, c, d, e>>
<1> DEFINE S == {a, b, c, d, e}
           r == <<a>> \o <<b>> \o <<c>>
           s == r \o <<d, e>>
<1>1. r \in Seq(S) /\ Len(r) = 3 /\ r[1] = a /\ r[2] = b /\ r[3] = c
  OBVIOUS
<1>2. d \in S /\ e \in S
  BY Zenon
<1> HIDE DEF r, S
<1>3. /\ s \in Seq(S) /\ Len(s) = 5
      /\ s[1] = a /\ s[2] = b /\ s[3] = c /\ s[4] = d /\ s[5] = e
  <2>1. <<d, e>> \in Seq(S) /\ Len(<<d, e>>) = 2 /\ <<d, e>>[1] = d /\ <<d, e>>[2] = e
    BY <1>2
  <2>2. /\ s \in Seq(S) /\ Len(s) = Len(r) + Len(<<d, e>>)
        /\ \A i \in 1 .. Len(r) + Len(<<d, e>>) :
             s[i] = IF i <= Len(r) THEN r[i] ELSE <<d, e>>[i - Len(r)]
    BY <1>1, <2>1, ConcatProperties, Zenon
  <2> HIDE DEF s
  <2>. QED  BY <1>1, <2>1, <2>2
<1>4. /\ <<a, b, c, d, e>> \in Seq(S) /\ Len(<<a, b, c, d, e>>) = 5
  BY DEF S
<1> HIDE DEF s
<1>5. \A i \in 1 .. 5 : s[i] = <<a, b, c, d, e>>[i]
  BY <1>3
<1>6. s = <<a, b, c, d, e>>
  BY <1>3, <1>4, <1>5, SeqEqual, Zenon
<1>. QED  BY <1>6, Zenon DEF s, r

-----------------------------------------------------------------------------
(* Bitmap::FindAndSet returns a clear bit.                                 *)
LEMMA FindAndSetFinds ==
  ASSUME FileSystemAssumption, NEW m \in SUBSET Sector, FindAndSet(m) # -1
  PROVE  FindAndSet(m) \in Sector \ m
<1>1. m # Sector
  BY Zenon DEF FindAndSet
<1>2. Sector \ m # {} /\ Sector \ m \subseteq Nat
  <2>1. Sector \ m # {}
    BY <1>1, Zenon
  <2>2. Sector \subseteq Nat
    BY DEF Sector, FileSystemAssumption
  <2>. QED  BY <2>1, <2>2, Zenon
<1>3. PICK s \in Sector \ m : \A r \in Sector \ m : s <= r
  BY <1>2, LeastNat, Zenon
<1>4. {r \in Sector \ m : r < s} = {}
  BY <1>2, <1>3
<1>5. Cardinality({r \in Sector \ m : r < s}) = 0
  BY <1>4, FS_EmptySet, Zenon
<1>6. s \in FirstClear(m, 1)
  BY <1>5 DEF FirstClear
<1>7. (CHOOSE x \in FirstClear(m, 1) : TRUE) \in FirstClear(m, 1)
  BY <1>6, Zenon
<1>. QED  BY <1>1, <1>7, Zenon DEF FindAndSet, FirstClear

(* Directory::FindIndex and Directory::Add find what they look for.        *)
LEMMA FindIndexFinds ==
  ASSUME FileSystemAssumption, NEW name, FindIndex(name) # None
  PROVE  FindIndex(name) \in Matching(name)
<1>1. Matching(name) # {} /\ Matching(name) \subseteq Nat
  BY DEF FindIndex, Matching, Entry, FileSystemAssumption
<1>2. \E e \in Matching(name) : \A f \in Matching(name) : e <= f
  BY <1>1, LeastNat, Zenon
<1>. QED  BY <1>1, <1>2, Zenon DEF FindIndex

LEMMA FindIndexMisses ==
  ASSUME FileSystemAssumption, NEW name, FindIndex(name) = None
  PROVE  Matching(name) = {}
<1> SUFFICES ASSUME Matching(name) # {}
             PROVE  FALSE
  BY Zenon
<1>1. Matching(name) \subseteq Nat /\ Matching(name) \subseteq Entry
  BY DEF Matching, Entry, FileSystemAssumption
<1>2. \E e \in Matching(name) : \A f \in Matching(name) : e <= f
  BY <1>1, LeastNat, Zenon
<1>. QED  BY <1>1, <1>2, Zenon DEF FindIndex, FileSystemAssumption

LEMMA FirstFreeIsFree ==
  ASSUME FileSystemAssumption, FreeEntries # {}
  PROVE  FirstFree \in FreeEntries
<1>1. FreeEntries \subseteq Nat
  BY DEF FreeEntries, Entry, FileSystemAssumption
<1>2. \E e \in FreeEntries : \A f \in FreeEntries : e <= f
  BY <1>1, LeastNat, Zenon
<1>. QED  BY <1>2, Zenon DEF FirstFree

-----------------------------------------------------------------------------
(* What is on disk, as functions of a bitmap m, a directory d and headers  *)
(* h: the sectors of a file, those of the bitmap and the directory, and    *)
(* that the entries E are whole files.  A file's header is not among its   *)
(* own data sectors: else writing the file would destroy its header.       *)
UsedIn(d) == {e \in Entry : d[e].inUse}
Owns(d, h, e) == {d[e].sector} \cup h[d[e].sector].dataSectors
ReservedIn(h) ==
  {FreeMapSector, DirectorySector}
    \cup h[FreeMapSector].dataSectors \cup h[DirectorySector].dataSectors

GoodDisk(m, d, h, E) ==
  /\ ReservedIn(h) \subseteq m
  /\ \A e \in E : /\ h[d[e].sector] # None
                  /\ d[e].sector \notin h[d[e].sector].dataSectors
                  /\ Owns(d, h, e) \subseteq m
                  /\ Owns(d, h, e) \cap ReservedIn(h) = {}
  /\ \A e, f \in E : e # f => /\ Owns(d, h, e) \cap Owns(d, h, f) = {}
                              /\ d[e].name # d[f].name

(* No sector is marked that belongs to no one.                             *)
ExactDisk(m, d, h, E) ==
  \A x : x \in m <=> x \in ReservedIn(h) \/ \E e \in E : x \in Owns(d, h, e)

(* Whole files stay whole if their entries and headers do not change.      *)
LEMMA SameHeaders ==
  ASSUME NEW m, NEW m2, NEW d, NEW d2, NEW h, NEW h2, NEW E,
         GoodDisk(m, d, h, E), m \subseteq m2,
         h2[FreeMapSector] = h[FreeMapSector], h2[DirectorySector] = h[DirectorySector],
         \A e \in E : d2[e] = d[e] /\ h2[d[e].sector] = h[d[e].sector]
  PROVE  /\ GoodDisk(m2, d2, h2, E)
         /\ m2 = m /\ ExactDisk(m, d, h, E) => ExactDisk(m2, d2, h2, E)
<1>1. ReservedIn(h2) = ReservedIn(h)
  BY Zenon DEF ReservedIn
<1>2. \A e \in E : Owns(d2, h2, e) = Owns(d, h, e)
  BY Zenon DEF Owns
<1>3. GoodDisk(m2, d2, h2, E)
  BY <1>1, <1>2 DEF GoodDisk
<1>. QED  BY <1>1, <1>2, <1>3, Zenon DEF ExactDisk

(* The headers in question are in marked sectors.                          *)
LEMMA FrameDisk ==
  ASSUME NEW m, NEW m2, NEW d, NEW d2, NEW h, NEW h2, NEW E,
         GoodDisk(m, d, h, E), m \subseteq m2,
         \A e \in E : d2[e] = d[e],
         \A s \in m : h2[s] = h[s]
  PROVE  /\ GoodDisk(m2, d2, h2, E)
         /\ m2 = m /\ ExactDisk(m, d, h, E) => ExactDisk(m2, d2, h2, E)
<1>1. FreeMapSector \in m /\ DirectorySector \in m /\ \A e \in E : d[e].sector \in m
  BY Zenon DEF GoodDisk, ReservedIn, Owns
<1>. QED  BY <1>1, SameHeaders

(* A file in sectors that were clear joins the others.                     *)
LEMMA AddFile ==
  ASSUME NEW m, NEW m2, NEW d, NEW h, NEW E, NEW k,
         GoodDisk(m, d, h, E), m \subseteq m2,
         h[d[k].sector] # None, d[k].sector \notin h[d[k].sector].dataSectors,
         Owns(d, h, k) \subseteq m2, Owns(d, h, k) \cap m = {},
         \A e \in E : d[e].name # d[k].name
  PROVE  /\ GoodDisk(m2, d, h, E \cup {k})
         /\ m2 = m \cup Owns(d, h, k) /\ ExactDisk(m, d, h, E) =>
              ExactDisk(m2, d, h, E \cup {k})
<1>1. ReservedIn(h) \subseteq m /\ ReservedIn(h) \subseteq m2
  BY Zenon DEF GoodDisk
<1>2. Owns(d, h, k) \cap ReservedIn(h) = {}
  BY <1>1, Zenon
<1>3. \A e \in E : Owns(d, h, e) \subseteq m2 /\ Owns(d, h, e) \cap Owns(d, h, k) = {}
  BY Zenon DEF GoodDisk
<1>4. GoodDisk(m2, d, h, E \cup {k})
  BY <1>1, <1>2, <1>3, Zenon DEF GoodDisk
<1>5. ASSUME m2 = m \cup Owns(d, h, k), ExactDisk(m, d, h, E)
      PROVE  ExactDisk(m2, d, h, E \cup {k})
  BY <1>5, Zenon DEF ExactDisk
<1>. QED  BY <1>4, <1>5, Zenon

(* A file leaves the others alone when its sectors are cleared.            *)
LEMMA RemoveFile ==
  ASSUME NEW m, NEW d, NEW h, NEW E, NEW k \in E,
         GoodDisk(m, d, h, E)
  PROVE  /\ GoodDisk(m \ Owns(d, h, k), d, h, E \ {k})
         /\ ExactDisk(m, d, h, E) => ExactDisk(m \ Owns(d, h, k), d, h, E \ {k})
<1>1. ReservedIn(h) \subseteq m \ Owns(d, h, k)
  BY Zenon DEF GoodDisk
<1>2. \A e \in E \ {k} : Owns(d, h, e) \subseteq m \ Owns(d, h, k)
  BY Zenon DEF GoodDisk
<1>3. GoodDisk(m \ Owns(d, h, k), d, h, E \ {k})
  BY <1>1, <1>2, Zenon DEF GoodDisk
<1>4. ASSUME ExactDisk(m, d, h, E)
      PROVE  \A x : x \in m \ Owns(d, h, k) <=>
                      x \in ReservedIn(h) \/ \E e \in E \ {k} : x \in Owns(d, h, e)
  <2>1. \A x : x \in m <=> x \in ReservedIn(h) \/ \E e \in E : x \in Owns(d, h, e)
    BY <1>4, Zenon DEF ExactDisk
  <2>. QED  BY <1>1, <1>2, <2>1, Zenon
<1>. QED  BY <1>3, <1>4, Zenon DEF ExactDisk

(* The properties of module FileSystem in these terms                      *)
LEMMA GoodIsSound ==
  ASSUME NEW E
  PROVE  /\ GoodDisk(map, dir, hdrs, E) => Sound(E)
         /\ ExactDisk(map, dir, hdrs, E) =>
              map = Reserved \cup UNION {Owned(e) : e \in E}
<1>1. Reserved = ReservedIn(hdrs)
  BY Zenon DEF Reserved, ReservedIn
<1>2. \A e : Owned(e) = Owns(dir, hdrs, e)
  BY Zenon DEF Owned, Owns
<1>3. GoodDisk(map, dir, hdrs, E) => Sound(E)
  BY <1>1, <1>2, Zenon DEF GoodDisk, Sound
<1>4. ASSUME ExactDisk(map, dir, hdrs, E)
      PROVE  map = Reserved \cup UNION {Owned(e) : e \in E}
  <2>1. \A x : x \in map <=> x \in ReservedIn(hdrs) \/ \E e \in E : x \in Owns(dir, hdrs, e)
    BY <1>4, Zenon DEF ExactDisk
  <2>. QED  BY <1>1, <1>2, <2>1, Zenon
<1>. QED  BY <1>3, <1>4, Zenon

(* A directory is written in two parts; the first leaves only the name of  *)
(* the entry that straddles them as it was.                                *)
FirstPartWritten(d, new) ==
  \A e \in Entry : /\ e < SplitEntry => d[e] = new[e]
                   /\ e = SplitEntry => d[e].inUse = new[e].inUse /\ d[e].sector = new[e].sector

LEMMA WriteFirstPart ==
  ASSUME FileSystemAssumption, NEW d \in [Entry -> DirectoryEntry],
         NEW new \in [Entry -> DirectoryEntry]
  PROVE  /\ Overwritten(d, new, 1) \in [Entry -> DirectoryEntry]
         /\ FirstPartWritten(Overwritten(d, new, 1), new)
         /\ \A e \in Entry : d[e] = new[e] => Overwritten(d, new, 1)[e] = d[e]
<1> DEFINE o == Overwritten(d, new, 1)
<1>1. ASSUME NEW x \in DirectoryEntry, NEW y \in DirectoryEntry, NEW z,
             z = [x EXCEPT !.name = y.name]
      PROVE  /\ z \in DirectoryEntry /\ z.inUse = x.inUse /\ z.sector = x.sector
             /\ x = y => z = x
  BY <1>1, Zenon DEF DirectoryEntry
<1>2. ASSUME NEW e \in Entry
      PROVE  /\ e < SplitEntry => o[e] = new[e]
             /\ e > SplitEntry => o[e] = d[e]
             /\ e = SplitEntry => o[e] = [new[e] EXCEPT !.name = d[e].name]
             /\ e \in Int /\ SplitEntry \in Int
  BY DEF Overwritten, FileSystemAssumption, Entry
<1>3. o = [e \in Entry |-> o[e]]
  BY DEF Overwritten
<1> HIDE DEF o
<1>4. ASSUME NEW e \in Entry
      PROVE  /\ o[e] \in DirectoryEntry
             /\ e < SplitEntry => o[e] = new[e]
             /\ e = SplitEntry => o[e].inUse = new[e].inUse /\ o[e].sector = new[e].sector
             /\ d[e] = new[e] => o[e] = d[e]
  <2>1. d[e] \in DirectoryEntry /\ new[e] \in DirectoryEntry
    BY Zenon
  <2>2. CASE e < SplitEntry \/ e > SplitEntry
    BY <1>2, <2>1, <2>2, Zenon
  <2>3. CASE e = SplitEntry
    <3>1. o[e] = [new[e] EXCEPT !.name = d[e].name]
      BY <1>2, <2>3, Zenon
    <3>2. /\ o[e] \in DirectoryEntry /\ o[e].inUse = new[e].inUse /\ o[e].sector = new[e].sector
          /\ new[e] = d[e] => o[e] = new[e]
      BY <1>1, <2>1, <3>1
    <3>. QED  BY <1>2, <2>3, <3>2, Zenon
  <2>4. e \in Int /\ SplitEntry \in Int
    BY DEF FileSystemAssumption, Entry
  <2>5. e < SplitEntry \/ e > SplitEntry \/ e = SplitEntry
    BY <2>4
  <2>. QED  BY <2>2, <2>3, <2>5, Zenon
<1>5. o \in [Entry -> DirectoryEntry]
  BY <1>3, <1>4, Zenon
<1>. QED  BY <1>4, <1>5, Zenon DEF FirstPartWritten, o

LEMMA WriteSecondPart ==
  ASSUME FileSystemAssumption, NEW d \in [Entry -> DirectoryEntry],
         NEW new \in [Entry -> DirectoryEntry], FirstPartWritten(d, new)
  PROVE  Overwritten(d, new, 2) = new
<1> DEFINE o == Overwritten(d, new, 2)
<1>1. ASSUME NEW x \in DirectoryEntry, NEW y \in DirectoryEntry, NEW z,
             x.inUse = y.inUse, x.sector = y.sector, z = [x EXCEPT !.name = y.name]
      PROVE  z = y
  BY <1>1, Zenon DEF DirectoryEntry
<1>2. ASSUME NEW e \in Entry
      PROVE  /\ e < SplitEntry => o[e] = d[e]
             /\ e > SplitEntry => o[e] = new[e]
             /\ e = SplitEntry => o[e] = [d[e] EXCEPT !.name = new[e].name]
             /\ e \in Int /\ SplitEntry \in Int
  BY DEF Overwritten, FileSystemAssumption, Entry
<1>3. o = [e \in Entry |-> o[e]]
  BY DEF Overwritten
<1> HIDE DEF o
<1>4. ASSUME NEW e \in Entry
      PROVE  o[e] = new[e]
  <2>1. d[e] \in DirectoryEntry /\ new[e] \in DirectoryEntry
    BY Zenon
  <2>2. CASE e < SplitEntry \/ e > SplitEntry
    BY <1>2, <2>2, Zenon DEF FirstPartWritten
  <2>3. CASE e = SplitEntry
    <3>1. o[e] = [d[e] EXCEPT !.name = new[e].name]
      BY <1>2, <2>3, Zenon
    <3>2. d[e].inUse = new[e].inUse /\ d[e].sector = new[e].sector
      BY <2>3, Zenon DEF FirstPartWritten
    <3>. QED  BY <1>1, <2>1, <3>1, <3>2
  <2>4. e \in Int /\ SplitEntry \in Int
    BY DEF FileSystemAssumption, Entry
  <2>5. e < SplitEntry \/ e > SplitEntry \/ e = SplitEntry
    BY <2>4
  <2>. QED  BY <2>2, <2>3, <2>5, Zenon
<1>. QED  BY <1>3, <1>4, Zenon DEF o

-----------------------------------------------------------------------------
(* What an operation in progress has still to write, and what it has       *)
(* written already.  The sectors of the new file were clear, and the entry *)
(* slot is the only one that changes.                                      *)
Directory == [Entry -> DirectoryEntry]
HdrWrite(s, h) == [to |-> "hdr", sector |-> s, hdr |-> h]
MapWrite(m) == [to |-> "map", map |-> m]
DirWrite(part, d) == [to |-> "dir", part |-> part, dir |-> d]
Others == UsedIn(dir) \ {slot}

ToFormat(h0, h1, m, d) ==
  /\ h0 \in FileHeader /\ h1 \in FileHeader /\ m \in SUBSET Sector /\ d \in Directory
  /\ \A e \in Entry : ~d[e].inUse
  /\ m = {FreeMapSector, DirectorySector} \cup h0.dataSectors \cup h1.dataSectors
Formatting(h0, h1, m, d) ==
  /\ ToFormat(h0, h1, m, d)
  /\ \/ writes = <<HdrWrite(0, h0), HdrWrite(1, h1), MapWrite(m), DirWrite(1, d), DirWrite(2, d)>>
     \/ /\ writes = <<HdrWrite(1, h1), MapWrite(m), DirWrite(1, d), DirWrite(2, d)>>
        /\ hdrs[0] = h0
     \/ /\ writes = <<MapWrite(m), DirWrite(1, d), DirWrite(2, d)>>
        /\ hdrs[0] = h0 /\ hdrs[1] = h1
     \/ /\ writes = <<DirWrite(1, d), DirWrite(2, d)>>
        /\ hdrs[0] = h0 /\ hdrs[1] = h1 /\ map = m
     \/ /\ writes = <<DirWrite(2, d)>>
        /\ hdrs[0] = h0 /\ hdrs[1] = h1 /\ map = m /\ FirstPartWritten(dir, d)

ToCreate(s, h, d, m) ==
  /\ slot \in Entry
  /\ s \in Sector \ map /\ h \in FileHeader /\ d \in Directory /\ m \in SUBSET Sector
  /\ GoodDisk(map, dir, hdrs, Others) /\ ExactDisk(map, dir, hdrs, Others)
  /\ s \notin h.dataSectors /\ h.dataSectors \cap map = {}
  /\ m = map \cup {s} \cup h.dataSectors
  /\ d[slot].inUse /\ d[slot].sector = s
  /\ \A e \in Entry \ {slot} : d[e] = dir[e] /\ (dir[e].inUse => dir[e].name # d[slot].name)
Creating(s, h, d, m) ==
  /\ ToCreate(s, h, d, m)
  /\ \/ writes = <<HdrWrite(s, h), DirWrite(1, d), DirWrite(2, d), MapWrite(m)>>
     \/ writes = <<DirWrite(1, d), DirWrite(2, d), MapWrite(m)>> /\ hdrs[s] = h
     \/ /\ writes = <<DirWrite(2, d), MapWrite(m)>>
        /\ hdrs[s] = h /\ FirstPartWritten(dir, d)
     \/ writes = <<MapWrite(m)>> /\ hdrs[s] = h /\ dir = d

ToRemove(d, m) ==
  /\ slot \in Entry
  /\ d \in Directory /\ m \in SUBSET map
  /\ GoodDisk(m, dir, hdrs, Others) /\ ExactDisk(m, dir, hdrs, Others)
  /\ ~d[slot].inUse
  /\ \A e \in Entry \ {slot} : d[e] = dir[e]
Removing(d, m) ==
  /\ ToRemove(d, m)
  /\ \/ writes = <<MapWrite(m), DirWrite(1, d), DirWrite(2, d)>>
     \/ writes = <<DirWrite(1, d), DirWrite(2, d)>> /\ map = m
     \/ writes = <<DirWrite(2, d)>> /\ map = m /\ FirstPartWritten(dir, d)

(* The inductive invariant.  OpenInv is OpenHeaderIsCurrent, with the      *)
(* entry that is being removed left out already.                           *)
OpenInv ==
  \A f \in open : ~f.removed => /\ hdrs[f.sector] = f.hdr
                                /\ \E e \in Others : dir[e].sector = f.sector
FileSystemInv ==
  /\ TypeOK /\ OpenInv
  /\ state = "unformatted" =>
       /\ open = {} /\ slot = None
       /\ writes = << >> \/ \E h0, h1, m, d : Formatting(h0, h1, m, d)
  /\ state = "running" /\ writes = << >> =>
       /\ slot = None
       /\ GoodDisk(map, dir, hdrs, UsedIn(dir)) /\ ExactDisk(map, dir, hdrs, UsedIn(dir))
  /\ state = "running" /\ writes # << >> =>
       (\E s, h, d, m : Creating(s, h, d, m)) \/ (\E d, m : Removing(d, m))
  /\ state = "crashed" => open = {} /\ GoodDisk(map, dir, hdrs, Others)

LEMMA InvImplies ==
  ASSUME FileSystemAssumption, FileSystemInv
  PROVE  FilesAreSound
<1>1. UsedIn(dir) = Used
  BY Zenon DEF UsedIn, Used
<1>2. DiskIsConsistent
  BY <1>1, GoodIsSound, Zenon DEF FileSystemInv, DiskIsConsistent, Idle
<1>3. CrashHurtsOneEntry
  BY <1>1, GoodIsSound, Zenon DEF FileSystemInv, CrashHurtsOneEntry, Others
<1>4. OpenHeaderIsCurrent
  BY <1>1, Zenon DEF FileSystemInv, OpenInv, OpenHeaderIsCurrent, Others
<1>. QED  BY <1>2, <1>3, <1>4, Zenon DEF FilesAreSound, FileSystemInv

LEMMA InitInv ==
  ASSUME FileSystemAssumption, Init
  PROVE  FileSystemInv
<1>1. 0 \in Sector
  BY DEF Sector, FileSystemAssumption
<1>2. TypeOK
  BY <1>1, Zenon DEF Init, TypeOK, DirectoryEntry
<1>. QED  BY <1>2, Zenon DEF Init, FileSystemInv, OpenInv

(* A step of Create before its last one: only the entry slot and headers   *)
(* in clear sectors change.                                                *)
LEMMA CreateFrame ==
  ASSUME FileSystemAssumption, TypeOK, OpenInv,
         NEW s, NEW h, NEW d, NEW m, ToCreate(s, h, d, m),
         UNCHANGED <<map, slot, open, state>>,
         hdrs' \in [Sector -> FileHeader \cup {None}], dir' \in Directory,
         \A x \in map : hdrs'[x] = hdrs[x],
         \A e \in Entry \ {slot} : dir'[e] = dir[e]
  PROVE  TypeOK' /\ OpenInv' /\ ToCreate(s, h, d, m)'
<1>1. TypeOK'
  BY Zenon DEF TypeOK, Directory
<1>2. Others' = Others /\ \A e \in Others : dir'[e] = dir[e]
  BY Zenon DEF Others, UsedIn
<1>3. GoodDisk(map, dir, hdrs, Others) /\ ExactDisk(map, dir, hdrs, Others)
  BY Zenon DEF ToCreate
<1>4. GoodDisk(map', dir', hdrs', Others') /\ ExactDisk(map', dir', hdrs', Others')
  BY <1>2, <1>3, FrameDisk, Zenon
<1>5. OpenInv'
  <2> SUFFICES ASSUME NEW f \in open, ~f.removed
               PROVE  hdrs'[f.sector] = f.hdr /\ \E e \in Others : dir'[e].sector = f.sector
    BY <1>2, Zenon DEF OpenInv
  <2>1. PICK e \in Others : dir[e].sector = f.sector /\ hdrs[f.sector] = f.hdr
    BY Zenon DEF OpenInv
  <2>2. f.sector \in map
    BY <1>3, <2>1, Zenon DEF GoodDisk, Owns
  <2>. QED  BY <1>2, <2>1, <2>2, Zenon
<1>6. ToCreate(s, h, d, m)'
  BY <1>4 DEF ToCreate
<1>. QED  BY <1>1, <1>5, <1>6, Zenon

LEMMA CreateWrites ==
  ASSUME FileSystemAssumption, TypeOK, OpenInv, state = "running",
         NEW s, NEW h, NEW d, NEW m, Creating(s, h, d, m), WriteBack
  PROVE  FileSystemInv'
<1>1. /\ ToCreate(s, h, d, m) /\ dir \in Directory /\ d \in Directory /\ slot \in Entry
      /\ s \in Sector /\ s \notin map /\ h \in FileHeader
      /\ hdrs \in [Sector -> FileHeader \cup {None}]
  BY Zenon DEF Creating, ToCreate, TypeOK, Directory
<1>2. \A e \in Entry \ {slot} : d[e] = dir[e]
  BY Zenon DEF Creating, ToCreate
<1>3. CASE writes = <<HdrWrite(s, h), DirWrite(1, d), DirWrite(2, d), MapWrite(m)>>
  <2>1. /\ Head(writes) = HdrWrite(s, h)
        /\ Tail(writes) = <<DirWrite(1, d), DirWrite(2, d), MapWrite(m)>> /\ Tail(writes) # << >>
    BY <1>3
  <2>2. HdrWrite(s, h).to = "hdr" /\ HdrWrite(s, h).sector = s /\ HdrWrite(s, h).hdr = h
    BY Zenon DEF HdrWrite
  <2>3. /\ hdrs' = [hdrs EXCEPT ![s] = h] /\ writes' = Tail(writes)
        /\ UNCHANGED <<map, dir, slot, state, open>>
    BY <2>1, <2>2, Zenon DEF WriteBack
  <2>4. hdrs'[s] = h /\ hdrs' \in [Sector -> FileHeader \cup {None}]
    BY <1>1, <2>3, Zenon
  <2>5. TypeOK' /\ OpenInv' /\ ToCreate(s, h, d, m)'
    BY <1>1, <2>3, <2>4, CreateFrame
  <2>6. Creating(s, h, d, m)'
    BY <2>1, <2>3, <2>4, <2>5, Zenon DEF Creating
  <2>. QED  BY <2>1, <2>3, <2>5, <2>6, Zenon DEF FileSystemInv
<1>4. CASE writes = <<DirWrite(1, d), DirWrite(2, d), MapWrite(m)>> /\ hdrs[s] = h
  <2>1. /\ Head(writes) = DirWrite(1, d)
        /\ Tail(writes) = <<DirWrite(2, d), MapWrite(m)>> /\ Tail(writes) # << >>
    BY <1>4
  <2>2. DirWrite(1, d).to = "dir" /\ DirWrite(1, d).part = 1 /\ DirWrite(1, d).dir = d
    BY Zenon DEF DirWrite
  <2>3. /\ dir' = Overwritten(dir, d, 1) /\ writes' = Tail(writes)
        /\ UNCHANGED <<map, hdrs, slot, state, open>>
    BY <2>1, <2>2, Zenon DEF WriteBack
  <2>4. /\ dir' \in Directory /\ FirstPartWritten(dir', d)
        /\ \A e \in Entry \ {slot} : dir'[e] = dir[e]
    BY <1>1, <1>2, <2>3, WriteFirstPart DEF Directory
  <2>5. TypeOK' /\ OpenInv' /\ ToCreate(s, h, d, m)'
    BY <1>1, <2>3, <2>4, CreateFrame, Zenon
  <2>6. Creating(s, h, d, m)'
    BY <1>4, <2>1, <2>3, <2>4, <2>5 DEF Creating
  <2>. QED  BY <2>1, <2>3, <2>5, <2>6, Zenon DEF FileSystemInv
<1>5. CASE /\ writes = <<DirWrite(2, d), MapWrite(m)>>
           /\ hdrs[s] = h /\ FirstPartWritten(dir, d)
  <2>1. Head(writes) = DirWrite(2, d) /\ Tail(writes) = <<MapWrite(m)>> /\ Tail(writes) # << >>
    BY <1>5
  <2>2. DirWrite(2, d).to = "dir" /\ DirWrite(2, d).part = 2 /\ DirWrite(2, d).dir = d
    BY Zenon DEF DirWrite
  <2>3. /\ dir' = Overwritten(dir, d, 2) /\ writes' = Tail(writes)
        /\ UNCHANGED <<map, hdrs, slot, state, open>>
    BY <2>1, <2>2, Zenon DEF WriteBack
  <2>4. dir' = d
    BY <1>1, <1>5, <2>3, WriteSecondPart, Zenon DEF Directory
  <2>5. TypeOK' /\ OpenInv' /\ ToCreate(s, h, d, m)'
    BY <1>1, <1>2, <2>3, <2>4, CreateFrame, Zenon
  <2>6. Creating(s, h, d, m)'
    BY <1>5, <2>1, <2>3, <2>4, <2>5, Zenon DEF Creating
  <2>. QED  BY <2>1, <2>3, <2>5, <2>6, Zenon DEF FileSystemInv
<1>6. CASE writes = <<MapWrite(m)>> /\ hdrs[s] = h /\ dir = d
  <2>1. Head(writes) = MapWrite(m) /\ Tail(writes) = << >>
    BY <1>6
  <2>2. MapWrite(m).to = "map" /\ MapWrite(m).map = m
    BY Zenon DEF MapWrite
  <2>3. /\ map' = m /\ writes' = << >> /\ slot' = None /\ state' = "running"
        /\ UNCHANGED <<dir, hdrs, open>>
    BY <2>1, <2>2, Zenon DEF WriteBack
  <2>4. TypeOK'
    BY <2>3, Zenon DEF TypeOK, Creating, ToCreate
  <2>5. OpenInv'
    BY <2>3, Zenon DEF OpenInv, Others, FileSystemAssumption, UsedIn
  <2>6. /\ dir[slot].inUse /\ dir[slot].sector = s /\ map \subseteq m
        /\ h # None /\ s \notin h.dataSectors
        /\ {s} \cup h.dataSectors \subseteq m /\ ({s} \cup h.dataSectors) \cap map = {}
        /\ m = map \cup ({s} \cup h.dataSectors)
        /\ \A e \in Others : dir[e].name # dir[slot].name
        /\ GoodDisk(map, dir, hdrs, Others) /\ ExactDisk(map, dir, hdrs, Others)
    BY <1>1, <1>6 DEF ToCreate, Others, UsedIn, FileSystemAssumption
  <2>7. Owns(dir, hdrs, slot) = {s} \cup h.dataSectors
    BY <1>6, <2>6, Zenon DEF Owns
  <2>8. /\ GoodDisk(m, dir, hdrs, Others \cup {slot})
        /\ ExactDisk(m, dir, hdrs, Others \cup {slot})
    BY <1>6, <2>6, <2>7, AddFile, Zenon
  <2>9. UsedIn(dir) = Others \cup {slot}
    BY <1>1, <2>6, Zenon DEF Others, UsedIn
  <2>. QED  BY <2>3, <2>4, <2>5, <2>8, <2>9 DEF FileSystemInv
<1>. QED  BY <1>3, <1>4, <1>5, <1>6, Zenon DEF Creating

(* A step of Remove before its last one.                                   *)
LEMMA RemoveFrame ==
  ASSUME FileSystemAssumption, TypeOK, OpenInv, NEW d, NEW m, ToRemove(d, m),
         UNCHANGED <<hdrs, slot, open, state>>, map' \in {map, m},
         dir' \in Directory, \A e \in Entry \ {slot} : dir'[e] = dir[e]
  PROVE  TypeOK' /\ OpenInv' /\ ToRemove(d, m)'
<1>1. TypeOK'
  BY Zenon DEF TypeOK, Directory, ToRemove
<1>2. Others' = Others /\ \A e \in Others : dir'[e] = dir[e]
  BY DEF Others, UsedIn
<1>3. GoodDisk(m, dir, hdrs, Others) /\ ExactDisk(m, dir, hdrs, Others)
  BY Zenon DEF ToRemove
<1>4. GoodDisk(m, dir', hdrs', Others') /\ ExactDisk(m, dir', hdrs', Others')
  BY <1>2, <1>3, FrameDisk, Zenon
<1>5. OpenInv'
  BY <1>2 DEF OpenInv
<1>6. ToRemove(d, m)'
  BY <1>4, Zenon DEF ToRemove
<1>. QED  BY <1>1, <1>5, <1>6, Zenon

LEMMA RemoveWrites ==
  ASSUME FileSystemAssumption, TypeOK, OpenInv, state = "running",
         NEW d, NEW m, Removing(d, m), WriteBack
  PROVE  FileSystemInv'
<1>1. ToRemove(d, m) /\ dir \in Directory /\ d \in Directory /\ slot \in Entry
  BY Zenon DEF Removing, ToRemove, TypeOK, Directory
<1>2. \A e \in Entry \ {slot} : d[e] = dir[e]
  BY Zenon DEF Removing, ToRemove
<1>3. CASE writes = <<MapWrite(m), DirWrite(1, d), DirWrite(2, d)>>
  <2>1. /\ Head(writes) = MapWrite(m)
        /\ Tail(writes) = <<DirWrite(1, d), DirWrite(2, d)>> /\ Tail(writes) # << >>
    BY <1>3
  <2>2. MapWrite(m).to = "map" /\ MapWrite(m).map = m
    BY Zenon DEF MapWrite
  <2>3. map' = m /\ writes' = Tail(writes) /\ UNCHANGED <<dir, hdrs, slot, state, open>>
    BY <2>1, <2>2, Zenon DEF WriteBack
  <2>4. TypeOK' /\ OpenInv' /\ ToRemove(d, m)'
    BY <1>1, <2>3, RemoveFrame, Zenon
  <2>5. Removing(d, m)'
    BY <2>1, <2>3, <2>4, Zenon DEF Removing
  <2>. QED  BY <2>1, <2>3, <2>4, <2>5, Zenon DEF FileSystemInv
<1>4. CASE writes = <<DirWrite(1, d), DirWrite(2, d)>> /\ map = m
  <2>1. /\ Head(writes) = DirWrite(1, d)
        /\ Tail(writes) = <<DirWrite(2, d)>> /\ Tail(writes) # << >>
    BY <1>4
  <2>2. DirWrite(1, d).to = "dir" /\ DirWrite(1, d).part = 1 /\ DirWrite(1, d).dir = d
    BY Zenon DEF DirWrite
  <2>3. /\ dir' = Overwritten(dir, d, 1) /\ writes' = Tail(writes)
        /\ UNCHANGED <<map, hdrs, slot, state, open>>
    BY <2>1, <2>2, Zenon DEF WriteBack
  <2>4. /\ dir' \in Directory /\ FirstPartWritten(dir', d)
        /\ \A e \in Entry \ {slot} : dir'[e] = dir[e]
    BY <1>1, <1>2, <2>3, WriteFirstPart, Zenon DEF Directory
  <2>5. TypeOK' /\ OpenInv' /\ ToRemove(d, m)'
    BY <1>1, <2>3, <2>4, RemoveFrame, Zenon
  <2>6. Removing(d, m)'
    BY <1>4, <2>1, <2>3, <2>4, <2>5 DEF Removing
  <2>. QED  BY <2>1, <2>3, <2>5, <2>6, Zenon DEF FileSystemInv
<1>5. CASE writes = <<DirWrite(2, d)>> /\ map = m /\ FirstPartWritten(dir, d)
  <2>1. Head(writes) = DirWrite(2, d) /\ Tail(writes) = << >>
    BY <1>5
  <2>2. DirWrite(2, d).to = "dir" /\ DirWrite(2, d).part = 2 /\ DirWrite(2, d).dir = d
    BY Zenon DEF DirWrite
  <2>3. /\ dir' = Overwritten(dir, d, 2) /\ writes' = << >> /\ slot' = None /\ state' = "running"
        /\ UNCHANGED <<map, hdrs, open>>
    BY <2>1, <2>2, Zenon DEF WriteBack
  <2>4. dir' = d
    BY <1>1, <1>5, <2>3, WriteSecondPart, Zenon DEF Directory
  <2>5. TypeOK'
    BY <1>1, <2>3, <2>4, Zenon DEF TypeOK, Directory
  <2>6. UsedIn(d) = Others /\ \A e \in Others : d[e] = dir[e]
    BY <1>1, <1>2 DEF UsedIn, Others, ToRemove
  <2>7. UsedIn(dir') = Others /\ Others' = Others
    BY <2>3, <2>4, <2>6, Zenon DEF Others, UsedIn, FileSystemAssumption
  <2>8. OpenInv'
    BY <2>3, <2>4, <2>6, <2>7 DEF OpenInv
  <2>9. GoodDisk(map, d, hdrs, Others) /\ ExactDisk(map, d, hdrs, Others)
    BY <1>1, <1>5, <2>6, FrameDisk, Zenon DEF ToRemove
  <2>. QED  BY <2>3, <2>4, <2>5, <2>7, <2>8, <2>9 DEF FileSystemInv
<1>. QED  BY <1>3, <1>4, <1>5, Zenon DEF Removing

LEMMA FormatWrites ==
  ASSUME FileSystemAssumption, TypeOK, state = "unformatted", open = {}, slot = None,
         NEW h0, NEW h1, NEW m, NEW d, Formatting(h0, h1, m, d), WriteBack
  PROVE  FileSystemInv'
<1>1. /\ ToFormat(h0, h1, m, d) /\ dir \in Directory /\ d \in Directory /\ m \in SUBSET Sector
      /\ h0 \in FileHeader /\ h1 \in FileHeader /\ 0 \in Sector /\ 1 \in Sector
      /\ hdrs \in [Sector -> FileHeader \cup {None}]
  BY DEF Formatting, ToFormat, TypeOK, Directory, Sector, FileSystemAssumption
<1>2. ASSUME hdrs' \in [Sector -> FileHeader \cup {None}], dir' \in Directory,
             map' \in {map, m}, UNCHANGED <<slot, state, open>>,
             Formatting(h0, h1, m, d)'
      PROVE  FileSystemInv'
  <2>1. TypeOK'
    BY <1>1, <1>2, Zenon DEF TypeOK, Directory
  <2>. QED  BY <1>2, <2>1, Zenon DEF FileSystemInv, OpenInv
<1>3. CASE writes = <<HdrWrite(0, h0), HdrWrite(1, h1), MapWrite(m), DirWrite(1, d), DirWrite(2, d)>>
  <2>1. /\ Head(writes) = HdrWrite(0, h0) /\ Tail(writes) # << >>
        /\ Tail(writes) = <<HdrWrite(1, h1), MapWrite(m), DirWrite(1, d), DirWrite(2, d)>>
    BY <1>3
  <2>2. HdrWrite(0, h0).to = "hdr" /\ HdrWrite(0, h0).sector = 0 /\ HdrWrite(0, h0).hdr = h0
    BY Zenon DEF HdrWrite
  <2>3. /\ hdrs' = [hdrs EXCEPT ![0] = h0] /\ writes' = Tail(writes)
        /\ UNCHANGED <<map, dir, slot, state, open>>
    BY <2>1, <2>2, Zenon DEF WriteBack
  <2>4. hdrs'[0] = h0 /\ hdrs' \in [Sector -> FileHeader \cup {None}]
    BY <1>1, <2>3, Zenon
  <2>5. Formatting(h0, h1, m, d)'
    BY <1>1, <2>1, <2>3, <2>4 DEF Formatting, ToFormat
  <2>. QED  BY <1>1, <1>2, <2>3, <2>4, <2>5
<1>4. CASE /\ writes = <<HdrWrite(1, h1), MapWrite(m), DirWrite(1, d), DirWrite(2, d)>>
           /\ hdrs[0] = h0
  <2>1. /\ Head(writes) = HdrWrite(1, h1) /\ Tail(writes) # << >>
        /\ Tail(writes) = <<MapWrite(m), DirWrite(1, d), DirWrite(2, d)>>
    BY <1>4
  <2>2. HdrWrite(1, h1).to = "hdr" /\ HdrWrite(1, h1).sector = 1 /\ HdrWrite(1, h1).hdr = h1
    BY Zenon DEF HdrWrite
  <2>3. /\ hdrs' = [hdrs EXCEPT ![1] = h1] /\ writes' = Tail(writes)
        /\ UNCHANGED <<map, dir, slot, state, open>>
    BY <2>1, <2>2, Zenon DEF WriteBack
  <2>4. hdrs'[0] = h0 /\ hdrs'[1] = h1 /\ hdrs' \in [Sector -> FileHeader \cup {None}]
    BY <1>1, <1>4, <2>3
  <2>5. Formatting(h0, h1, m, d)'
    BY <1>1, <2>1, <2>3, <2>4, Zenon DEF Formatting, ToFormat
  <2>. QED  BY <1>1, <1>2, <2>3, <2>4, <2>5
<1>5. CASE /\ writes = <<MapWrite(m), DirWrite(1, d), DirWrite(2, d)>>
           /\ hdrs[0] = h0 /\ hdrs[1] = h1
  <2>1. /\ Head(writes) = MapWrite(m) /\ Tail(writes) # << >>
        /\ Tail(writes) = <<DirWrite(1, d), DirWrite(2, d)>>
    BY <1>5
  <2>2. MapWrite(m).to = "map" /\ MapWrite(m).map = m
    BY Zenon DEF MapWrite
  <2>3. map' = m /\ writes' = Tail(writes) /\ UNCHANGED <<dir, hdrs, slot, state, open>>
    BY <2>1, <2>2, Zenon DEF WriteBack
  <2>4. Formatting(h0, h1, m, d)'
    BY <1>1, <1>5, <2>1, <2>3, Zenon DEF Formatting, ToFormat
  <2>. QED  BY <1>1, <1>2, <2>3, <2>4, Zenon
<1>6. CASE /\ writes = <<DirWrite(1, d), DirWrite(2, d)>>
           /\ hdrs[0] = h0 /\ hdrs[1] = h1 /\ map = m
  <2>1. /\ Head(writes) = DirWrite(1, d) /\ Tail(writes) # << >>
        /\ Tail(writes) = <<DirWrite(2, d)>>
    BY <1>6
  <2>2. DirWrite(1, d).to = "dir" /\ DirWrite(1, d).part = 1 /\ DirWrite(1, d).dir = d
    BY Zenon DEF DirWrite
  <2>3. /\ dir' = Overwritten(dir, d, 1) /\ writes' = Tail(writes)
        /\ UNCHANGED <<map, hdrs, slot, state, open>>
    BY <2>1, <2>2, Zenon DEF WriteBack
  <2>4. dir' \in Directory /\ FirstPartWritten(dir', d)
    BY <1>1, <2>3, WriteFirstPart DEF Directory
  <2>5. Formatting(h0, h1, m, d)'
    BY <1>1, <1>6, <2>1, <2>3, <2>4 DEF Formatting, ToFormat
  <2>. QED  BY <1>1, <1>2, <2>3, <2>4, <2>5
<1>7. CASE /\ writes = <<DirWrite(2, d)>>
           /\ hdrs[0] = h0 /\ hdrs[1] = h1 /\ map = m /\ FirstPartWritten(dir, d)
  <2>1. Head(writes) = DirWrite(2, d) /\ Tail(writes) = << >>
    BY <1>7
  <2>2. DirWrite(2, d).to = "dir" /\ DirWrite(2, d).part = 2 /\ DirWrite(2, d).dir = d
    BY Zenon DEF DirWrite
  <2>3. /\ dir' = Overwritten(dir, d, 2) /\ writes' = << >> /\ slot' = None /\ state' = "running"
        /\ UNCHANGED <<map, hdrs, open>>
    BY <2>1, <2>2, Zenon DEF WriteBack
  <2>4. dir' = d
    BY <1>1, <1>7, <2>3, WriteSecondPart, Zenon DEF Directory
  <2>5. TypeOK' /\ OpenInv'
    BY <1>1, <2>3, <2>4 DEF TypeOK, Directory, OpenInv
  <2>6. UsedIn(dir') = {}
    BY <1>1, <2>4, Zenon DEF UsedIn, ToFormat
  <2>7. m = ReservedIn(hdrs)
    BY <1>1, <1>7, Zenon DEF ToFormat, ReservedIn, FreeMapSector, DirectorySector
  <2>8. GoodDisk(m, dir', hdrs, {}) /\ ExactDisk(m, dir', hdrs, {})
    BY <2>7, Zenon DEF GoodDisk, ExactDisk
  <2>. QED  BY <1>7, <2>3, <2>5, <2>6, <2>8, Zenon DEF FileSystemInv
<1>. QED  BY <1>3, <1>4, <1>5, <1>6, <1>7, Zenon DEF Formatting

-----------------------------------------------------------------------------
(* FileHeader::Allocate takes clear sectors, and the header names them.    *)
LEMMA AllocateClear ==
  ASSUME NEW m \in SUBSET Sector, NEW n \in Nat
  PROVE  /\ Allocate(m, n).hdr \in FileHeader /\ Allocate(m, n).map \in SUBSET Sector
         /\ Allocate(m, n).hdr.dataSectors \cap m = {}
         /\ Allocate(m, n).map = m \cup Allocate(m, n).hdr.dataSectors
<1> DEFINE taken == FirstClear(m, n)
<1>1. Allocate(m, n) = [hdr |-> [numSectors |-> n, dataSectors |-> taken], map |-> m \cup taken]
  BY Zenon DEF Allocate
<1>2. taken \subseteq Sector \ m
  BY Zenon DEF FirstClear
<1> HIDE DEF taken
<1>. QED  BY <1>1, <1>2 DEF FileHeader

LEMMA FormatStep ==
  ASSUME FileSystemAssumption, FileSystemInv, Format
  PROVE  FileSystemInv'
<1> DEFINE a == Allocate({FreeMapSector, DirectorySector}, 1)
           b == Allocate(a.map, 2)
           d == [e \in Entry |-> [inUse |-> FALSE, sector |-> 0, name |-> None]]
<1>1. /\ state = "unformatted" /\ UNCHANGED <<map, dir, hdrs, slot, open, state>>
      /\ writes' = <<HdrWrite(0, a.hdr)>> \o <<HdrWrite(1, b.hdr)>> \o <<MapWrite(b.map)>>
                     \o <<DirWrite(1, d), DirWrite(2, d)>>
  BY Zenon DEF Format, WriteHdr, WriteMap, WriteDir, HdrWrite, MapWrite, DirWrite,
         FreeMapSector, DirectorySector
<1>2. {FreeMapSector, DirectorySector} \in SUBSET Sector /\ 0 \in Sector
  BY DEF FreeMapSector, DirectorySector, Sector, FileSystemAssumption
<1>3. ASSUME NEW m \in SUBSET Sector, NEW n \in Nat, NEW x, x = Allocate(m, n)
      PROVE  /\ x.hdr \in FileHeader /\ x.map \in SUBSET Sector
             /\ x.map = m \cup x.hdr.dataSectors
  BY <1>3, AllocateClear, Zenon
<1>4. a = Allocate({FreeMapSector, DirectorySector}, 1) /\ b = Allocate(a.map, 2)
  BY Zenon
<1> HIDE DEF a, b
<1>5. /\ a.hdr \in FileHeader /\ a.map \in SUBSET Sector
      /\ a.map = {FreeMapSector, DirectorySector} \cup a.hdr.dataSectors
  BY <1>2, <1>3, <1>4, Zenon
<1>6. /\ b.hdr \in FileHeader /\ b.map \in SUBSET Sector
      /\ b.map = a.map \cup b.hdr.dataSectors
  <2>1. PICK m, n : m = a.map /\ n = 2
    BY Zenon
  <2>2. m \in SUBSET Sector /\ n \in Nat
    BY <1>5, <2>1, Zenon
  <2>3. b = Allocate(m, n)
    BY <1>4, <2>1, Zenon
  <2>4. /\ b.hdr \in FileHeader /\ b.map \in SUBSET Sector
        /\ b.map = m \cup b.hdr.dataSectors
    BY <1>3, <2>2, <2>3, Zenon
  <2>. QED  BY <2>1, <2>4, Zenon
<1>7. d \in Directory /\ \A e \in Entry : ~d[e].inUse
  BY <1>2, Zenon DEF Directory, DirectoryEntry
<1> HIDE DEF d
<1>8. ToFormat(a.hdr, b.hdr, b.map, d)
  BY <1>5, <1>6, <1>7, Zenon DEF ToFormat
<1>9. writes' = <<HdrWrite(0, a.hdr), HdrWrite(1, b.hdr), MapWrite(b.map),
                   DirWrite(1, d), DirWrite(2, d)>>
  BY <1>1, ConcatFive, Zenon
<1>10. Formatting(a.hdr, b.hdr, b.map, d)'
  BY <1>1, <1>8, <1>9, Zenon DEF Formatting, ToFormat
<1>11. TypeOK' /\ OpenInv'
  BY <1>1, Zenon DEF FileSystemInv, TypeOK, OpenInv
<1>. QED  BY <1>1, <1>10, <1>11, Zenon DEF FileSystemInv

LEMMA CrashStep ==
  ASSUME FileSystemAssumption, FileSystemInv, Crash
  PROVE  FileSystemInv'
<1>1. /\ state = "running" /\ writes # << >> /\ state' = "crashed" /\ open' = {}
      /\ UNCHANGED <<map, dir, hdrs, writes, slot>>
  BY Zenon DEF Crash
<1>2. TypeOK' /\ OpenInv'
  BY <1>1, Zenon DEF FileSystemInv, TypeOK, OpenInv
<1>3. GoodDisk(map, dir, hdrs, Others)
  <2>1. CASE \E s, h, d, m : Creating(s, h, d, m)
    BY <2>1 DEF Creating, ToCreate
  <2>2. CASE \E d, m : Removing(d, m)
    <3>1. PICK d, m : Removing(d, m)
      BY <2>2, Zenon
    <3>2. GoodDisk(m, dir, hdrs, Others) /\ m \subseteq map
      BY <3>1, Zenon DEF Removing, ToRemove
    <3>. QED  BY <3>2, FrameDisk, Zenon
  <2>. QED  BY <1>1, <2>1, <2>2, Zenon DEF FileSystemInv
<1>4. Others' = Others
  BY <1>1, Zenon DEF Others, UsedIn
<1>. QED  BY <1>1, <1>2, <1>3, <1>4 DEF FileSystemInv

(* What is true when an operation starts.                                  *)
LEMMA WhenIdle ==
  ASSUME FileSystemAssumption, FileSystemInv, Idle
  PROVE  /\ state = "running" /\ writes = << >> /\ slot = None
         /\ TypeOK /\ OpenInv /\ dir \in Directory /\ map \in SUBSET Sector
         /\ GoodDisk(map, dir, hdrs, UsedIn(dir)) /\ ExactDisk(map, dir, hdrs, UsedIn(dir))
         /\ Others = UsedIn(dir)
<1>1. state = "running" /\ writes = << >> /\ slot = None
  BY Zenon DEF Idle, FileSystemInv
<1>2. Others = UsedIn(dir)
  BY <1>1, Zenon DEF Others, UsedIn, FileSystemAssumption
<1>. QED  BY <1>1, <1>2, Zenon DEF FileSystemInv, TypeOK, Directory

LEMMA CreateStep ==
  ASSUME FileSystemAssumption, FileSystemInv, NEW name \in Name, NEW n \in Size, Create(name, n)
  PROVE  FileSystemInv'
<1>0. PICK s, a, d : s = FindAndSet(map) /\ a = Allocate(map \cup {s}, n) /\ d = Add(name, s)
  BY Zenon
<1>1. /\ Idle /\ FindIndex(name) = None /\ FreeEntries # {} /\ s # -1
      /\ writes' = <<HdrWrite(s, a.hdr)>> \o <<DirWrite(1, d), DirWrite(2, d)>> \o <<MapWrite(a.map)>>
      /\ slot' = FirstFree /\ UNCHANGED <<map, dir, hdrs, open, state>>
  BY <1>0, Zenon DEF Create, WriteHdr, WriteMap, WriteDir, HdrWrite, MapWrite, DirWrite
<1>2. /\ state = "running" /\ writes = << >> /\ slot = None
      /\ TypeOK /\ OpenInv /\ dir \in Directory /\ map \in SUBSET Sector
      /\ GoodDisk(map, dir, hdrs, UsedIn(dir)) /\ ExactDisk(map, dir, hdrs, UsedIn(dir))
      /\ Others = UsedIn(dir)
  BY <1>1, WhenIdle, Zenon
<1>3. s \in Sector \ map
  BY <1>0, <1>1, <1>2, FindAndSetFinds
<1>4. n \in Nat /\ map \cup {s} \in SUBSET Sector
  BY <1>2, <1>3 DEF FileSystemAssumption
<1>5. /\ a.hdr \in FileHeader /\ a.map \in SUBSET Sector
      /\ a.hdr.dataSectors \cap (map \cup {s}) = {}
      /\ a.map = (map \cup {s}) \cup a.hdr.dataSectors
  BY <1>0, <1>4, AllocateClear, Zenon
<1>6. FirstFree \in Entry /\ ~dir[FirstFree].inUse
  BY <1>1, FirstFreeIsFree, Zenon DEF FreeEntries
<1>7. /\ d \in Directory /\ d[FirstFree].inUse /\ d[FirstFree].sector = s /\ d[FirstFree].name = name
      /\ \A e \in Entry \ {FirstFree} : d[e] = dir[e]
  <2>1. [inUse |-> TRUE, sector |-> s, name |-> name] \in DirectoryEntry
    BY <1>3, Zenon DEF DirectoryEntry
  <2>2. d = [dir EXCEPT ![FirstFree] = [inUse |-> TRUE, sector |-> s, name |-> name]]
    BY <1>0, Zenon DEF Add
  <2>3. d \in Directory /\ d[FirstFree] = [inUse |-> TRUE, sector |-> s, name |-> name]
    BY <1>2, <1>6, <2>1, <2>2 DEF Directory
  <2>. QED  BY <1>2, <1>6, <2>2, <2>3 DEF Directory
<1>8. \A e \in Entry : dir[e].inUse => dir[e].name # name
  BY <1>1, FindIndexMisses, Zenon DEF Matching
<1>9. Others' = UsedIn(dir)
  BY <1>1, <1>6, Zenon DEF Others, UsedIn
<1>10. ToCreate(s, a.hdr, d, a.map)'
  BY <1>1, <1>2, <1>3, <1>5, <1>6, <1>7, <1>8, <1>9 DEF ToCreate
<1>11. writes' = <<HdrWrite(s, a.hdr), DirWrite(1, d), DirWrite(2, d), MapWrite(a.map)>>
  BY <1>1, ConcatFour, Zenon
<1>12. Creating(s, a.hdr, d, a.map)'
  BY <1>10, <1>11, Zenon DEF Creating
<1>13. TypeOK' /\ OpenInv'
  BY <1>1, <1>2, <1>6, <1>9 DEF TypeOK, OpenInv
<1>14. writes' # << >>
  BY <1>11, Zenon
<1>. QED  BY <1>1, <1>2, <1>12, <1>13, <1>14 DEF FileSystemInv

LEMMA OpenStep ==
  ASSUME FileSystemAssumption, FileSystemInv, NEW name \in Name, Open(name)
  PROVE  FileSystemInv'
<1> DEFINE k == FindIndex(name)
           s == dir[k].sector
           f == [sector |-> s, hdr |-> hdrs[s], removed |-> FALSE]
<1>1. /\ Idle /\ k # None /\ open' = open \cup {f} /\ UNCHANGED <<map, dir, hdrs, writes, slot, state>>
  BY Zenon DEF Open
<1>2. /\ state = "running" /\ writes = << >> /\ slot = None
      /\ TypeOK /\ OpenInv /\ dir \in Directory
      /\ GoodDisk(map, dir, hdrs, UsedIn(dir)) /\ ExactDisk(map, dir, hdrs, UsedIn(dir))
      /\ Others = UsedIn(dir)
  BY <1>1, WhenIdle, Zenon
<1>3. k \in UsedIn(dir)
  BY <1>1, FindIndexFinds, Zenon DEF Matching, UsedIn
<1> HIDE DEF k
<1>4. hdrs[s] # None /\ s \in Sector
  BY <1>2, <1>3, Zenon DEF GoodDisk, UsedIn, Directory, DirectoryEntry
<1> HIDE DEF s
<1>5. hdrs[s] \in FileHeader
  BY <1>2, <1>4, Zenon DEF TypeOK
<1>7. /\ f.sector = s /\ f.hdr = hdrs[s]
      /\ f \in [sector : Sector, hdr : FileHeader, removed : BOOLEAN]
  BY <1>4, <1>5, Zenon
<1> HIDE DEF f
<1>6. TypeOK'
  BY <1>1, <1>2, <1>7, Zenon DEF TypeOK
<1>8. Others' = Others
  BY <1>1, Zenon DEF Others, UsedIn
<1>9. OpenInv'
  BY <1>1, <1>2, <1>3, <1>7, <1>8 DEF OpenInv, s
<1>. QED  BY <1>1, <1>2, <1>6, <1>9 DEF FileSystemInv

LEMMA CloseStep ==
  ASSUME FileSystemAssumption, FileSystemInv, NEW f \in open, Close(f)
  PROVE  FileSystemInv'
<1>1. Idle /\ open' = open \ {f} /\ UNCHANGED <<map, dir, hdrs, writes, slot, state>>
  BY Zenon DEF Close
<1>2. Others' = Others
  BY <1>1, Zenon DEF Others, UsedIn
<1>3. TypeOK' /\ OpenInv'
  BY <1>1, <1>2, Zenon DEF FileSystemInv, TypeOK, OpenInv
<1>. QED  BY <1>1, <1>3, Zenon DEF FileSystemInv, Idle

LEMMA WriteDataStep ==
  ASSUME FileSystemAssumption, FileSystemInv, NEW f \in open, WriteData(f)
  PROVE  FileSystemInv'
<1>0. PICK X : X = f.hdr.dataSectors
  BY Zenon
<1>1. /\ Idle /\ ~f.removed /\ UNCHANGED <<map, dir, writes, slot, open, state>>
      /\ hdrs' = [s \in Sector |-> IF s \in X THEN None ELSE hdrs[s]]
  BY <1>0, Zenon DEF WriteData
<1>2. /\ state = "running" /\ writes = << >> /\ slot = None
      /\ TypeOK /\ OpenInv /\ dir \in Directory
      /\ GoodDisk(map, dir, hdrs, UsedIn(dir)) /\ ExactDisk(map, dir, hdrs, UsedIn(dir))
      /\ Others = UsedIn(dir)
  BY <1>1, WhenIdle, Zenon
<1>3. PICK k \in UsedIn(dir) : dir[k].sector = f.sector /\ hdrs[f.sector] = f.hdr
  BY <1>1, <1>2, Zenon DEF OpenInv
<1>4. X \subseteq Owns(dir, hdrs, k) /\ dir[k].sector \notin X
  BY <1>0, <1>2, <1>3, Zenon DEF Owns, GoodDisk
<1>5. FreeMapSector \notin X /\ DirectorySector \notin X
  BY <1>2, <1>4, Zenon DEF GoodDisk, ReservedIn
<1>6. ASSUME NEW e \in UsedIn(dir)
      PROVE  dir[e].sector \notin X /\ dir[e].sector \in Sector
  <2>1. e # k => dir[e].sector \notin X
    BY <1>2, <1>4, Zenon DEF GoodDisk, Owns
  <2>2. dir[e].sector \in Sector
    BY <1>2, Zenon DEF UsedIn, Directory, DirectoryEntry
  <2>. QED  BY <1>4, <2>1, <2>2, Zenon
<1>7. /\ hdrs'[FreeMapSector] = hdrs[FreeMapSector]
      /\ hdrs'[DirectorySector] = hdrs[DirectorySector]
      /\ \A e \in UsedIn(dir) : hdrs'[dir[e].sector] = hdrs[dir[e].sector]
  <2>1. FreeMapSector \in Sector /\ DirectorySector \in Sector
    BY DEF FreeMapSector, DirectorySector, Sector, FileSystemAssumption
  <2>. QED  BY <1>1, <1>5, <1>6, <2>1
<1>8. /\ GoodDisk(map, dir, hdrs', UsedIn(dir)) /\ ExactDisk(map, dir, hdrs', UsedIn(dir))
  BY <1>2, <1>7, SameHeaders
<1>9. TypeOK'
  BY <1>1, <1>2, Zenon DEF TypeOK
<1>10. OpenInv'
  <2>1. Others' = UsedIn(dir) /\ UsedIn(dir') = UsedIn(dir)
    BY <1>1, <1>2, Zenon DEF Others, UsedIn
  <2>2. ASSUME NEW g \in open, ~g.removed
        PROVE  hdrs'[g.sector] = g.hdr /\ \E e \in UsedIn(dir) : dir[e].sector = g.sector
    <3>1. PICK e \in UsedIn(dir) : dir[e].sector = g.sector /\ hdrs[g.sector] = g.hdr
      BY <1>2, <2>2, Zenon DEF OpenInv
    <3>2. hdrs'[g.sector] = hdrs[g.sector]
      BY <1>7, <3>1, Zenon
    <3>. QED  BY <3>1, <3>2, Zenon
  <2>. QED  BY <1>1, <2>1, <2>2, Zenon DEF OpenInv
<1>. QED  BY <1>1, <1>2, <1>8, <1>9, <1>10 DEF FileSystemInv

LEMMA RemoveStep ==
  ASSUME FileSystemAssumption, FileSystemInv, NEW name \in Name, Remove(name)
  PROVE  FileSystemInv'
<1>0. PICK k, s, d, m : /\ k = FindIndex(name) /\ s = dir[k].sector /\ d = RemoveEntry(name)
                        /\ m = Deallocate(map, hdrs[s]) \ {s}
  BY Zenon
<1>1. /\ Idle /\ k # None /\ slot' = k /\ UNCHANGED <<map, dir, hdrs, state>>
      /\ writes' = <<MapWrite(m)>> \o <<DirWrite(1, d), DirWrite(2, d)>>
      /\ open' = {IF f.sector = s THEN [f EXCEPT !.removed = TRUE] ELSE f : f \in open}
  BY <1>0, Zenon DEF Remove, WriteMap, WriteDir, MapWrite, DirWrite
<1>2. /\ state = "running" /\ writes = << >> /\ slot = None
      /\ TypeOK /\ OpenInv /\ dir \in Directory
      /\ GoodDisk(map, dir, hdrs, UsedIn(dir)) /\ ExactDisk(map, dir, hdrs, UsedIn(dir))
      /\ Others = UsedIn(dir)
  BY <1>1, WhenIdle, Zenon
<1>3. k \in UsedIn(dir) /\ k \in Entry
  BY <1>0, <1>1, FindIndexFinds, Zenon DEF Matching, UsedIn
<1>4. m = map \ Owns(dir, hdrs, k)
  BY <1>0, Zenon DEF Deallocate, Owns
<1>5. /\ GoodDisk(m, dir, hdrs, UsedIn(dir) \ {k})
      /\ ExactDisk(m, dir, hdrs, UsedIn(dir) \ {k})
  BY <1>2, <1>3, <1>4, RemoveFile
<1>6. d \in Directory /\ ~d[k].inUse /\ \A e \in Entry \ {k} : d[e] = dir[e]
  <2>1. d = [dir EXCEPT ![k] = [dir[k] EXCEPT !.inUse = FALSE]]
    BY <1>0, <1>2, <1>3, Zenon DEF RemoveEntry, Directory
  <2>2. ASSUME NEW x \in DirectoryEntry, NEW y, y = [x EXCEPT !.inUse = FALSE]
        PROVE  y \in DirectoryEntry /\ ~y.inUse
    BY <2>2, Zenon DEF DirectoryEntry
  <2>3. d[k] = [dir[k] EXCEPT !.inUse = FALSE] /\ dir[k] \in DirectoryEntry
    BY <1>2, <1>3, <2>1, Zenon DEF Directory
  <2>4. d[k] \in DirectoryEntry /\ ~d[k].inUse
    BY <2>2, <2>3, Zenon
  <2>5. \A e \in Entry \ {k} : d[e] = dir[e]
    BY <1>2, <2>1, Zenon DEF Directory
  <2>6. d \in Directory
    BY <1>2, <2>1, <2>3, <2>4, Zenon DEF Directory
  <2>. QED  BY <2>4, <2>5, <2>6, Zenon
<1>7. Others' = UsedIn(dir) \ {k}
  BY <1>1, Zenon DEF Others, UsedIn
<1>8. writes' = <<MapWrite(m), DirWrite(1, d), DirWrite(2, d)>> /\ writes' # << >>
  BY <1>1, ConcatThree
<1>9. Removing(d, m)'
  <2>1. ToRemove(d, m)'
    BY <1>1, <1>3, <1>4, <1>5, <1>6, <1>7, Zenon DEF ToRemove
  <2>. QED  BY <1>8, <2>1, Zenon DEF Removing
<1>10. ASSUME NEW g \in open'
       PROVE  /\ g \in [sector : Sector, hdr : FileHeader, removed : BOOLEAN]
              /\ ~g.removed => g \in open /\ g.sector # s
  <2>1. PICK f \in open : g = IF f.sector = s THEN [f EXCEPT !.removed = TRUE] ELSE f
    BY <1>1, Zenon
  <2>2. ASSUME NEW x \in [sector : Sector, hdr : FileHeader, removed : BOOLEAN],
               NEW y, y = [x EXCEPT !.removed = TRUE]
        PROVE  y \in [sector : Sector, hdr : FileHeader, removed : BOOLEAN] /\ y.removed
    BY <2>2, Zenon
  <2>3. f \in [sector : Sector, hdr : FileHeader, removed : BOOLEAN]
    BY <1>2, Zenon DEF TypeOK
  <2>. QED  BY <2>1, <2>2, <2>3, Zenon
<1>11. TypeOK'
  BY <1>1, <1>2, <1>3, <1>10 DEF TypeOK
<1>12. OpenInv'
  <2>1. ASSUME NEW g \in open', ~g.removed
        PROVE  hdrs[g.sector] = g.hdr /\ \E e \in UsedIn(dir) \ {k} : dir[e].sector = g.sector
    BY <1>0, <1>2, <1>10, <2>1 DEF OpenInv
  <2>. QED  BY <1>1, <1>7, <2>1, Zenon DEF OpenInv
<1>. QED  BY <1>1, <1>2, <1>8, <1>9, <1>11, <1>12, Zenon DEF FileSystemInv

LEMMA NextInv ==
  ASSUME FileSystemAssumption, FileSystemInv, [Next]_vars
  PROVE  FileSystemInv'
<1>1. CASE Format
  BY <1>1, FormatStep, Zenon
<1>2. CASE WriteBack
  <2>1. TypeOK /\ OpenInv /\ writes # << >> /\ state \in {"unformatted", "running"}
    BY <1>2, Zenon DEF FileSystemInv, TypeOK, WriteBack
  <2>2. CASE state = "unformatted"
    BY <1>2, <2>1, <2>2, FormatWrites, Zenon DEF FileSystemInv
  <2>3. CASE state = "running"
    BY <1>2, <2>1, <2>3, CreateWrites, RemoveWrites, Zenon DEF FileSystemInv
  <2>. QED  BY <2>1, <2>2, <2>3, Zenon
<1>3. CASE Crash
  BY <1>3, CrashStep, Zenon
<1>4. ASSUME NEW name \in Name, Open(name)
      PROVE  FileSystemInv'
  BY <1>4, OpenStep, Zenon
<1>5. ASSUME NEW name \in Name, Remove(name)
      PROVE  FileSystemInv'
  BY <1>5, RemoveStep, Zenon
<1>6. ASSUME NEW name \in Name, NEW n \in Size, Create(name, n)
      PROVE  FileSystemInv'
  BY <1>6, CreateStep, Zenon
<1>7. ASSUME NEW f \in open, Close(f)
      PROVE  FileSystemInv'
  BY <1>7, CloseStep, Zenon
<1>8. ASSUME NEW f \in open, WriteData(f)
      PROVE  FileSystemInv'
  BY <1>8, WriteDataStep, Zenon
<1>9. CASE UNCHANGED vars
  <2>1. UNCHANGED <<map, dir, hdrs, writes, slot, open, state>>
    BY <1>9, Zenon DEF vars
  <2>2. TypeOK' /\ Others' = Others
    BY <2>1, Zenon DEF FileSystemInv, TypeOK, Others, UsedIn
  <2>3. OpenInv'
    BY <2>1, <2>2, Zenon DEF FileSystemInv, OpenInv
  <2>4. ASSUME NEW h0, NEW h1, NEW m, NEW d, Formatting(h0, h1, m, d)
        PROVE  Formatting(h0, h1, m, d)'
    BY <2>1, <2>4, Zenon DEF Formatting, ToFormat
  <2>5. ASSUME NEW s, NEW h, NEW d, NEW m, Creating(s, h, d, m)
        PROVE  Creating(s, h, d, m)'
    BY <2>1, <2>2, <2>5, Zenon DEF Creating, ToCreate
  <2>6. ASSUME NEW d, NEW m, Removing(d, m)
        PROVE  Removing(d, m)'
    BY <2>1, <2>2, <2>6, Zenon DEF Removing, ToRemove
  <2>7. UsedIn(dir') = UsedIn(dir)
    BY <2>1, Zenon
  <2>. QED  BY <2>1, <2>2, <2>3, <2>4, <2>5, <2>6, <2>7, Zenon DEF FileSystemInv
<1>. QED  BY <1>1, <1>2, <1>3, <1>4, <1>5, <1>6, <1>7, <1>8, <1>9, Zenon DEF Next

-----------------------------------------------------------------------------
(* Whatever the sizes of disk, directory and headers: between operations   *)
(* no sector belongs to two files or to a file and the free list, and none *)
(* is lost if headers can name all sectors; exiting between two sector     *)
(* writes of FileSystem::Create or Remove leaves every other file whole;   *)
(* the header of an open file is the one on disk until it is removed.      *)
THEOREM FilesSound ==
  ASSUME FileSystemAssumption
  PROVE  Spec => []FilesAreSound
<1>1. Init => FileSystemInv
  BY InitInv, Zenon
<1>2. FileSystemInv /\ [Next]_vars => FileSystemInv'
  BY NextInv, Zenon
<1>3. FileSystemInv => FilesAreSound
  BY InvImplies, Zenon
<1>. QED  BY <1>1, <1>2, <1>3, PTL DEF Spec
=============================================================================

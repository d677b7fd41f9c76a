-------------------------------- MODULE Noff --------------------------------
(***************************************************************************)
(* From the linker's COFF file to a program in memory: coff2noff           *)
(* (coff2noff/coff2noff.c) and AddrSpace::Load (userprog/addrspace.cc),    *)
(* built with RDATA on a little-endian host.                               *)
(*                                                                         *)
(* Byte k of a section at address p is the number p + k + 1, so that every *)
(* byte of the program is different, and none is zero.                     *)
(***************************************************************************)
EXTENDS Integers, Sequences

CONSTANTS
  CoffFile,       \* the section tables: sequences of name, paddr, size
  PageSize, NumPhysPages, UserStackSize,
  HeaderSize,     \* sizeof(NoffHeader)
  Junk            \* what an uninitialised field of the header may hold

NoffAssumption ==
  /\ PageSize \in Nat \ {0} /\ NumPhysPages \in Nat /\ UserStackSize \in Nat
  /\ HeaderSize \in Nat /\ Junk \in Int

VARIABLES
  sections,    \* the section headers of the COFF file
  i,           \* the section coff2noff looks at
  noffH,       \* the header
  inNoffFile,  \* the position in the output file
  noff,        \* the bytes of the output file after the header, by position
  mainMemory,
  numPages,
  pc           \* converting, rejected, converted, code, initData,
               \* readonlyData, loaded, aborted

vars == <<sections, i, noffH, inNoffFile, noff, mainMemory, numPages, pc>>

MemorySize == NumPhysPages * PageSize
divRoundUp(n, s) == (n + s - 1) \div s
Sum(h) == h.code.size + h.readonlyData.size + h.initData.size + h.uninitData.size

Init ==
  /\ sections \in CoffFile
  /\ i = 1
  /\ noffH = [s \in {"code", "initData", "readonlyData", "uninitData"} |->
                [virtualAddr |-> Junk, inFileAddr |-> Junk, size |-> 0]]
  /\ inNoffFile = HeaderSize
  /\ noff = << >>
  /\ mainMemory = [a \in 0 .. MemorySize - 1 |-> 0]
  /\ numPages = 0
  /\ pc = "converting"

Bytes(s) == [k \in 1 .. s.size |-> s.paddr + k]

(* An empty section is skipped.                                            *)
SkipSection ==
  /\ pc = "converting" /\ i <= Len(sections) /\ sections[i].size = 0
  /\ i' = i + 1
  /\ UNCHANGED <<sections, noffH, inNoffFile, noff, mainMemory, numPages, pc>>

(* Mutant of CopySection: the position in the file is left behind.         *)
CopySectionInPlace(name, segment) ==
  /\ pc = "converting" /\ i <= Len(sections)
  /\ sections[i].size > 0 /\ sections[i].name = name
  /\ noffH' = [noffH EXCEPT ![segment] =
       [virtualAddr |-> sections[i].paddr, inFileAddr |-> inNoffFile, size |-> sections[i].size]]
  /\ noff' = noff \o Bytes(sections[i])
  /\ i' = i + 1
  /\ UNCHANGED <<sections, inNoffFile, mainMemory, numPages, pc>>

(* .text, .data and .rdata are copied to the output file.                  *)
CopySection(name, segment) ==
  /\ pc = "converting" /\ i <= Len(sections)
  /\ sections[i].size > 0 /\ sections[i].name = name
  /\ noffH' = [noffH EXCEPT ![segment] =
       [virtualAddr |-> sections[i].paddr, inFileAddr |-> inNoffFile, size |-> sections[i].size]]
  /\ noff' = noff \o Bytes(sections[i])
  /\ inNoffFile' = inNoffFile + sections[i].size
  /\ i' = i + 1
  /\ UNCHANGED <<sections, mainMemory, numPages, pc>>

(* .bss is not copied; a second one is added to the first, unless it is    *)
(* where the first one ends.                                               *)
BssSection ==
  /\ pc = "converting" /\ i <= Len(sections)
  /\ sections[i].size > 0 /\ sections[i].name = ".bss"
  /\ LET bss == noffH.uninitData IN
     \/ /\ bss.size = 0
        /\ noffH' = [noffH EXCEPT !.uninitData.virtualAddr = sections[i].paddr,
                                  !.uninitData.size = sections[i].size]
        /\ i' = i + 1 /\ UNCHANGED pc
     \/ /\ bss.size # 0 /\ sections[i].paddr = bss.virtualAddr + bss.size
        /\ pc' = "rejected"
        /\ UNCHANGED <<noffH, i>>
     \/ /\ bss.size # 0 /\ sections[i].paddr # bss.virtualAddr + bss.size
        /\ noffH' = [noffH EXCEPT !.uninitData.size = @ + sections[i].size]
        /\ i' = i + 1 /\ UNCHANGED pc
  /\ UNCHANGED <<sections, inNoffFile, noff, mainMemory, numPages>>

UnknownSection ==
  /\ pc = "converting" /\ i <= Len(sections)
  /\ sections[i].size > 0 /\ sections[i].name \notin {".text", ".data", ".rdata", ".bss"}
  /\ pc' = "rejected"
  /\ UNCHANGED <<sections, i, noffH, inNoffFile, noff, mainMemory, numPages>>

WriteHeader ==
  /\ pc = "converting" /\ i > Len(sections)
  /\ pc' = "converted"
  /\ UNCHANGED <<sections, i, noffH, inNoffFile, noff, mainMemory, numPages>>

-----------------------------------------------------------------------------
(* Mutant of CheckSize: the read-only data is not counted.                 *)
CheckSizeOldFormat ==
  /\ pc = "converted"
  /\ numPages' = divRoundUp(Sum(noffH) - noffH.readonlyData.size + UserStackSize, PageSize)
  /\ pc' = IF numPages' <= NumPhysPages THEN "code" ELSE "aborted"
  /\ UNCHANGED <<sections, i, noffH, inNoffFile, noff, mainMemory>>

(* AddrSpace::Load up to the copying of segments                           *)
CheckSize ==
  /\ pc = "converted"
  /\ numPages' = divRoundUp(Sum(noffH) + UserStackSize, PageSize)
  /\ pc' = IF numPages' <= NumPhysPages THEN "code" ELSE "aborted"
  /\ UNCHANGED <<sections, i, noffH, inNoffFile, noff, mainMemory>>

(* executable->ReadAt(&mainMemory[virtualAddr], size, inFileAddr)          *)
Loaded(segment) ==
  LET s == noffH[segment] IN
  [a \in DOMAIN mainMemory |->
     LET k == a - s.virtualAddr
         p == s.inFileAddr - HeaderSize + k + 1
     IN  IF k >= 0 /\ k < s.size /\ p \in DOMAIN noff THEN noff[p] ELSE mainMemory[a]]

LoadSegment(segment, next) ==
  /\ pc = segment
  /\ mainMemory' = IF noffH[segment].size > 0 THEN Loaded(segment) ELSE mainMemory
  /\ pc' = next
  /\ UNCHANGED <<sections, i, noffH, inNoffFile, noff, numPages>>

Ended == pc \in {"loaded", "rejected", "aborted"} /\ UNCHANGED vars

Next ==
  \/ SkipSection
  \/ CopySection(".text", "code") \/ CopySection(".data", "initData")
  \/ CopySection(".rdata", "readonlyData") \/ BssSection \/ UnknownSection
  \/ WriteHeader \/ CheckSize
  \/ LoadSegment("code", "initData") \/ LoadSegment("initData", "readonlyData")
  \/ LoadSegment("readonlyData", "loaded")
  \/ Ended

Spec == Init /\ [][Next]_vars

-----------------------------------------------------------------------------
(* A loaded program is in memory as it was linked, whatever the order of   *)
(* its sections in the COFF file: every byte of text and data where it     *)
(* belongs and everything else, .bss and stack, zero.                      *)
LoadedAsLinked ==
  pc = "loaded" =>
    \A a \in DOMAIN mainMemory :
      mainMemory[a] =
        IF \E k \in DOMAIN sections :
             /\ sections[k].name # ".bss"
             /\ a >= sections[k].paddr /\ a < sections[k].paddr + sections[k].size
        THEN a + 1 ELSE 0

(* coff2noff.c:268: "need to check if we have both .bss and .sbss -- make  *)
(* sure they are contiguous".  In a file that is converted every .bss      *)
(* section but the first begins where another one ends.                    *)
End(k) == sections[k].paddr + sections[k].size
Bss == {k \in DOMAIN sections : sections[k].name = ".bss" /\ sections[k].size > 0}
BssIsContiguous ==
  pc \notin {"converting", "rejected"} =>
    \A j, k \in Bss : j < k => \E l \in Bss : End(l) = sections[k].paddr

(* The last UserStackSize bytes of the address space belong to no section, *)
(* the read-only data and .bss included: this is the stack InitRegisters   *)
(* points to.  The size of the address space is the sum of the sizes, so   *)
(* this rests on sections linked without gaps, as test/script links them.  *)
WithoutGaps ==
  \A k \in DOMAIN sections :
    sections[k].paddr = 0 \/ \E j \in DOMAIN sections : j # k /\ End(j) = sections[k].paddr
StackIsFree ==
  (pc = "loaded" /\ WithoutGaps) =>
    \A k \in DOMAIN sections : End(k) <= numPages * PageSize - UserStackSize
=============================================================================

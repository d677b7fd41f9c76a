---------------------------- MODULE Translation -----------------------------
(***************************************************************************)
(* Virtual to physical addresses through a page table: Machine::Translate  *)
(* (machine/translate.cc) for user programs and AddrSpace::Translate       *)
(* (userprog/addrspace.cc) for the kernel.  A page table is a sequence of  *)
(* entries; the page of address v is entry v \div PageSize + 1.            *)
(***************************************************************************)
EXTENDS Integers, Sequences

CONSTANTS PageSize, NumPhysPages

ASSUME TranslationAssumption ==
  PageSize \in Nat \ {0} /\ PageSize % 4 = 0 /\ NumPhysPages \in Nat \ {0}

MemorySize == NumPhysPages * PageSize

(* Machine::Translate: the exception, or else the physical address, and    *)
(* the page table with use and dirty set                                   *)
Entry(pt, vaddr) == pt[vaddr \div PageSize + 1]
Fault(pt, vaddr, size, writing) ==
  IF vaddr % size # 0 \/ vaddr \div PageSize >= Len(pt) THEN "AddressErrorException"
  ELSE IF ~Entry(pt, vaddr).valid THEN "PageFaultException"
  ELSE IF Entry(pt, vaddr).readOnly /\ writing THEN "ReadOnlyException"
  ELSE IF Entry(pt, vaddr).physicalPage >= NumPhysPages THEN "BusErrorException"
  ELSE "NoException"
Physical(pt, vaddr) == Entry(pt, vaddr).physicalPage * PageSize + (vaddr % PageSize)
Touched(pt, vaddr, writing) ==
  [pt EXCEPT ![vaddr \div PageSize + 1] =
     [Entry(pt, vaddr) EXCEPT !.use = TRUE, !.dirty = @ \/ writing]]

(* Mutant of SpaceFault: the last page is forgotten.                       *)
SpaceFaultLastPage(pt, vaddr, isReadWrite) ==
  IF vaddr \div PageSize > Len(pt) - 2 THEN "AddressErrorException"
  ELSE IF isReadWrite /\ Entry(pt, vaddr).readOnly THEN "ReadOnlyException"
  ELSE IF Entry(pt, vaddr).physicalPage >= NumPhysPages THEN "BusErrorException"
  ELSE "NoException"

(* AddrSpace::Translate, which knows neither sizes nor invalid pages       *)
SpaceFault(pt, vaddr, isReadWrite) ==
  IF vaddr \div PageSize >= Len(pt) THEN "AddressErrorException"
  ELSE IF isReadWrite /\ Entry(pt, vaddr).readOnly THEN "ReadOnlyException"
  ELSE IF Entry(pt, vaddr).physicalPage >= NumPhysPages THEN "BusErrorException"
  ELSE "NoException"
=============================================================================

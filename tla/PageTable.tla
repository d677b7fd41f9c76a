----------------------------- MODULE PageTable ------------------------------
(***************************************************************************)
(* A page table used by the machine and by the kernel in turn (module      *)
(* Translation).                                                           *)
(***************************************************************************)
EXTENDS Translation

CONSTANTS Table, Address   \* page tables to start with, and addresses

TableEntry == [valid : BOOLEAN, readOnly : BOOLEAN, physicalPage : Nat,
               use : BOOLEAN, dirty : BOOLEAN]

(* AddrSpace makes all of its pages valid.                                 *)
PageTableAssumption ==
  /\ Table \subseteq Seq(TableEntry) /\ \A t \in Table : \A i \in DOMAIN t : t[i].valid
  /\ Address \subseteq Nat

VARIABLES
  pageTable,
  used, written   \* the pages accessed and written so far (history)

tableVars == <<pageTable, used, written>>

TableInit ==
  /\ pageTable \in {t \in Table : \A i \in DOMAIN t : ~t[i].use /\ ~t[i].dirty}
  /\ used = {} /\ written = {}

Log(vaddr, writing) ==
  /\ used' = used \cup {vaddr \div PageSize + 1}
  /\ written' = IF writing THEN written \cup {vaddr \div PageSize + 1} ELSE written

(* Machine::Translate of an access of a user program                       *)
MachineAccess(vaddr, size, writing) ==
  IF Fault(pageTable, vaddr, size, writing) = "NoException"
  THEN pageTable' = Touched(pageTable, vaddr, writing) /\ Log(vaddr, writing)
  ELSE UNCHANGED tableVars

(* Mutant of KernelAccess: the bits are set before the checks.             *)
KernelAccessEager(vaddr, isReadWrite) ==
  IF vaddr \div PageSize >= Len(pageTable) THEN UNCHANGED tableVars
  ELSE /\ pageTable' = Touched(pageTable, vaddr, isReadWrite)
       /\ IF SpaceFault(pageTable, vaddr, isReadWrite) = "NoException" THEN Log(vaddr, isReadWrite)
          ELSE UNCHANGED <<used, written>>

(* AddrSpace::Translate of an access of the kernel                         *)
KernelAccess(vaddr, isReadWrite) ==
  IF SpaceFault(pageTable, vaddr, isReadWrite) = "NoException"
  THEN pageTable' = Touched(pageTable, vaddr, isReadWrite) /\ Log(vaddr, isReadWrite)
  ELSE UNCHANGED tableVars

TableNext ==
  \E v \in Address, w \in BOOLEAN :
    (\E size \in {1, 2, 4} : MachineAccess(v, size, w)) \/ KernelAccess(v, w)

TableSpec == TableInit /\ [][TableNext]_tableVars

-----------------------------------------------------------------------------
(* The use and dirty bits say which pages have been accessed and written,  *)
(* by either side, and an access that was refused leaves no trace.         *)
BitsAreExact ==
  \A i \in DOMAIN pageTable :
    (pageTable[i].use <=> i \in used) /\ (pageTable[i].dirty <=> i \in written)

(* The kernel may access a byte exactly if the user program may, as long   *)
(* as all pages are valid, and an access that is allowed is in memory.     *)
KernelSeesTheSame ==
  \A v \in Address, w \in BOOLEAN :
    /\ Fault(pageTable, v, 1, w) = SpaceFault(pageTable, v, w)
    /\ \A size \in {1, 2, 4} : Fault(pageTable, v, size, w) = "NoException" =>
         Physical(pageTable, v) >= 0 /\ Physical(pageTable, v) + size <= MemorySize

(* AddrSpace::Translate allows what Machine::Translate does, and the use   *)
(* and dirty bits record the accesses that were allowed, by either.        *)
TranslationsAgree == BitsAreExact /\ KernelSeesTheSame
=============================================================================

---------------------------- MODULE MCAlgorithms ----------------------------
(***************************************************************************)
(* The parts that do their work in one thread, for TLC: the library, the   *)
(* simulator's multiplication, page tables, executables, starting and      *)
(* stopping Nachos, and SWITCH.  A behaviour is one of a single part; the  *)
(* others stay where they are.                                             *)
(***************************************************************************)
EXTENDS Switch, PageTable

CONSTANT NULL

VARIABLES
  part,   \* which of the instances below runs
  first, last, numInList, cells, call,
  sortedFirst, sortedLast, sortedNum, sortedCells, sortedCall,
  buckets, numItems, items, iterator, seen,
  map, marked,
  x, y, signedArith, multPc, a, negative, bLo, bHi, lo, hi, multI,
  sections, sectionI, noffH, inNoffFile, noff, mainMemory, numPages, noffPc,
  argv, argI, handled, phase, created, todo, memory, undefined

listVars   == <<first, last, numInList, cells, call>>
sortedVars == <<sortedFirst, sortedLast, sortedNum, sortedCells, sortedCall>>
hashVars   == <<buckets, numItems, items, iterator, seen>>
bitVars    == <<map, marked>>
multVars   == <<x, y, signedArith, multPc, a, negative, bLo, bHi, lo, hi, multI>>
noffVars   == <<sections, sectionI, noffH, inNoffFile, noff, mainMemory, numPages, noffPc>>
kernelVars == <<argv, argI, handled, phase, created, todo, memory, undefined>>
vars == <<part, listVars, sortedVars, hashVars, bitVars, multVars, tableVars, noffVars,
          kernelVars, switchVars>>

-----------------------------------------------------------------------------
(* Four items, of which two have equal keys, and five in a sorted list.    *)
List == INSTANCE LinkedList
          WITH Element <- 1 .. 4, Item <- 0 .. 3, Key <- [i \in 0 .. 3 |-> i \div 2]
Sorted == INSTANCE LinkedList
            WITH Element <- 1 .. 5, Item <- 0 .. 4, Key <- [i \in 0 .. 4 |-> i \div 2],
                 first <- sortedFirst, last <- sortedLast, numInList <- sortedNum,
                 cells <- sortedCells, call <- sortedCall

(* A table that starts with one bucket and is resized twice                *)
Hash == INSTANCE HashTable
          WITH Item <- {0, 1, 2, 3, 5, 6}, InitialBuckets <- 1, ResizeRatio <- 1,
               IncreaseSizeBy <- 2

(* Three words, the last one partly used                                   *)
Bits == INSTANCE Bitmap WITH numBits <- 8, BitsInWord <- 3

(* All pairs of words of five bits                                         *)
Mult == INSTANCE Mult WITH WordBits <- 5, pc <- multPc, i <- multI

(* Up to three pages, read-only or not, with frames up to one too high     *)
Tables == UNION {[1 .. n -> [valid : {TRUE}, readOnly : BOOLEAN, physicalPage : 0 .. 2,
                             use : {FALSE}, dirty : {FALSE}]] : n \in 0 .. 3}

(* What test/script links: text, rdata, data, sbss and bss one after the   *)
(* other from address 0, listed in this order or with the data first; and  *)
(* two .bss sections, with a gap between them and without.                 *)
Section(name, paddr, size) == [name |-> name, paddr |-> paddr, size |-> size]
Linked(text, rdata, data, sbss, bss) ==
  <<Section(".text", 0, text), Section(".rdata", text, rdata),
    Section(".data", text + rdata, data), Section(".sbss", text + rdata + data, sbss),
    Section(".bss", text + rdata + data + sbss, bss)>>
LinkedFiles ==
  {Linked(t, r, d, s, b) : t \in 1 .. 3, r \in 0 .. 2, d \in 0 .. 3, s \in 0 .. 1, b \in 0 .. 2}
TwoBss ==
  {<<Section(".text", 0, 2), Section(".bss", 2, 1), Section(".bss", p, 1)>> : p \in {3, 4}}
Noff == INSTANCE Noff
          WITH CoffFile <- LinkedFiles \cup TwoBss
                             \cup {<<f[3], f[2], f[1], f[4], f[5]>> : f \in LinkedFiles},
               PageSize <- 4, NumPhysPages <- 3, UserStackSize <- 3, HeaderSize <- 5,
               Junk <- -7, i <- sectionI, pc <- noffPc

(* All command lines of up to three words, and one with every option main  *)
(* acts on, with the file system that is not the stub                      *)
Words == {"-rs", "-s", "-f", "-d", "-x", "-K", "-N", "-cp", "-l", "file"}
Everything ==
  <<"-K", "-C", "-N", "-r", "file", "-cp", "file", "file", "-D", "-l", "-p", "file", "-x", "file">>
Kernel == INSTANCE Kernel
            WITH CommandLine <- {Everything} \cup UNION {[1 .. n -> Words] : n \in 0 .. 3},
                 FILESYS_STUB <- FALSE, i <- argI

ASSUME
  /\ List!LinkedListAssumption /\ Sorted!LinkedListAssumption /\ Hash!HashTableAssumption
  /\ Bits!BitmapAssumption /\ Mult!MultAssumption /\ Noff!NoffAssumption
  /\ Kernel!KernelAssumption /\ SwitchAssumption /\ PageTableAssumption

-----------------------------------------------------------------------------
(* Parts that may start in several ways stay in one of them when they do   *)
(* not run.                                                                *)
MultAtRest   == x = 0 /\ y = 0 /\ signedArith = FALSE /\ Mult!Init
TableAtRest  == pageTable = << >> /\ used = {} /\ written = {}
NoffAtRest   == sections = Linked(1, 0, 0, 0, 0) /\ Noff!Init
KernelAtRest == argv = << >> /\ memory = "NULL" /\ Kernel!Init

Init ==
  /\ part \in {"list", "sorted", "hash", "bitmap", "mult", "table", "noff", "kernel", "switch"}
  /\ List!Init /\ Sorted!Init /\ Hash!Init /\ Bits!Init /\ SwitchInit
  /\ IF part = "mult" THEN Mult!Init ELSE MultAtRest
  /\ IF part = "table" THEN TableInit ELSE TableAtRest
  /\ IF part = "noff" THEN Noff!Init ELSE NoffAtRest
  /\ IF part = "kernel" THEN Kernel!Init ELSE KernelAtRest

Runs(p) == part = p /\ UNCHANGED part
Next ==
  \/ Runs("list") /\ List!ListNext
     /\ UNCHANGED <<sortedVars, hashVars, bitVars, multVars, tableVars, noffVars, kernelVars, switchVars>>
  \/ Runs("sorted") /\ Sorted!SortedNext
     /\ UNCHANGED <<listVars, hashVars, bitVars, multVars, tableVars, noffVars, kernelVars, switchVars>>
  \/ Runs("hash") /\ Hash!Next
     /\ UNCHANGED <<listVars, sortedVars, bitVars, multVars, tableVars, noffVars, kernelVars, switchVars>>
  \/ Runs("bitmap") /\ Bits!Next
     /\ UNCHANGED <<listVars, sortedVars, hashVars, multVars, tableVars, noffVars, kernelVars, switchVars>>
  \/ Runs("mult") /\ Mult!Next
     /\ UNCHANGED <<listVars, sortedVars, hashVars, bitVars, tableVars, noffVars, kernelVars, switchVars>>
  \/ Runs("table") /\ TableNext
     /\ UNCHANGED <<listVars, sortedVars, hashVars, bitVars, multVars, noffVars, kernelVars, switchVars>>
  \/ Runs("noff") /\ Noff!Next
     /\ UNCHANGED <<listVars, sortedVars, hashVars, bitVars, multVars, tableVars, kernelVars, switchVars>>
  \/ Runs("kernel") /\ Kernel!Next
     /\ UNCHANGED <<listVars, sortedVars, hashVars, bitVars, multVars, tableVars, noffVars, switchVars>>
  \/ Runs("switch") /\ SwitchNext
     /\ UNCHANGED <<listVars, sortedVars, hashVars, bitVars, multVars, tableVars, noffVars, kernelVars>>

Spec == Init /\ [][Next]_vars

(* Starting Nachos, and coff2noff with AddrSpace::Load, alone              *)
KernelSpec == part = "kernel" /\ Spec
NoffSpec   == part = "noff" /\ Spec

-----------------------------------------------------------------------------
(* List's first, last and count describe one chain of elements; Append,    *)
(* Prepend, Remove and RemoveFront work on it as on a sequence, and        *)
(* SortedList::Insert keeps it by key, equal keys in order of arrival.     *)
ListsAreSequences ==
  /\ [](part \in {"list", "sorted"} => List!ListIsLegal /\ Sorted!ListIsLegal)
  /\ List!ImplementsList /\ Sorted!ImplementsSortedList

(* Across ReHash, Find finds the items that are in the hash table, and the *)
(* iterator returns each of them once.                                     *)
HashTableIsExact ==
  part = "hash" => Hash!FindIsExact /\ Hash!IterationIsComplete

(* The words of a bitmap are the bits marked, and no bit is beyond them.   *)
WordsHoldMarks == part = "bitmap" => Bits!WordsHoldMarks

(* Mult computes the double-length product, signed and unsigned.           *)
ProductIsExact == part = "mult" => Mult!ProductIsExact

(* coff2noff and AddrSpace::Load put each section where it was linked, and *)
(* the address space ends with a stack that overlaps none of them.         *)
LoadedAsLinked == part = "noff" => Noff!LoadedAsLinked /\ Noff!StackIsFree

(* The two parsers of the command line recognise the options as given, if  *)
(* no argument looks like an option of the other parser; kernel objects    *)
(* exist before constructors and main use them, the post office excepted,  *)
(* and are deleted at the end.                                             *)
StartsAsTold == part = "kernel" => Kernel!OptionsAsGiven /\ Kernel!CreatedBeforeUse

(* main.cc:23: "-N run a two-machine network test (see                     *)
(* Kernel::NetworkTest)".  What main does for its options, and ~Kernel,    *)
(* uses only pointers that Initialize has assigned.                        *)
AssignedBeforeUse == part = "kernel" => Kernel!AssignedBeforeUse

(* coff2noff.c:268: "need to check if we have both .bss and .sbss -- make  *)
(* sure they are contiguous".  No other file is converted.                 *)
BssIsContiguous == part = "noff" => Noff!BssIsContiguous
=============================================================================

# A TLA+ model of the Nachos kernel

This directory specifies the operating system in `src/code` in TLA+, checks the
specifications on small instances with TLC, and proves properties of the kernel,
the clock, the disk, the console, the file system and the post office for every
instance with TLAPS. File and line references are to `src/code`.

## 1. The system

Nachos is a teaching operating system. The kernel and the hardware it runs on
are one C++ program: kernel threads switch by `SWITCH` on one host thread, and
simulated devices call the kernel back when simulated time reaches the time
they asked for.

One fact shapes every model: **other code runs only at a few points.** A thread
keeps the CPU until it sleeps, yields, or turns interrupts from off to on. The
last calls `Interrupt::OneTick`, which advances the clock, runs the handlers
that are due and possibly yields. Machine::Run calls `OneTick` after each user
instruction. An action of a module is the code between two such points.

| Part | State | Operations | What is hard about it |
|---|---|---|---|
| Thread, Scheduler (`threads/thread.cc`, `scheduler.cc`) | status, ready list, `toBeDestroyed`, current thread | Fork, Begin, Yield, Sleep, Finish, Run | interrupts go off in one thread and on in another; a finished thread must be deleted by its successor; a sleeping thread idles on its own stack and may wake itself |
| Semaphore (`threads/synch.cc`) | value, queue | P, V; V also from handlers | a woken thread takes the value only when it runs, others may be first |
| Lock, Condition (`threads/synch.cc`) | semaphore, holder, queue of semaphores | Acquire, Release, Wait, Signal, Broadcast | Wait releases the lock before it sleeps; `lockHolder` is set after P |
| SynchList (`threads/synchlist.cc`) | list, lock, condition | Append, RemoveFront, Apply | one signal per item, callers that overtake the signalled thread |
| Interrupt (`machine/interrupt.cc`) | pending list, level, status, flags, clock | SetLevel, Schedule, OneTick, CheckIfDue, Idle, Halt | handlers add to the list the loop is reading; Yield nests in OneTick |
| Timer, Alarm (`machine/timer.cc`, `threads/alarm.cc`) | delay, disable | CallBack, SetInterrupt, Disable | time slices; an always pending interrupt |
| Disk, SynchDisk | sectors, head, track buffer, active, lock, semaphore | Read/WriteRequest, CallBack, Read/WriteSector | one request at a time, completion may come before the P; latency by modular arithmetic |
| Console, SynchConsole | `incoming`, `putBusy`, locks, semaphores | GetChar, PutChar, CallBacks | one-character buffers; polling stops at end of input |
| Network, PostOffice | `inHdr`, mailboxes, lock, semaphores | Send, Receive, PostalDelivery | lost packets, one-packet buffers, a machine that is not up yet |
| FileSystem (bitmap, directory, headers) | sectors | Create, Open, Remove | several sector writes per operation, the machine may stop in between |
| OpenFile; Copy and Print of `main.cc` | position, header | Read, Write, ReadAt, WriteAt | partial sectors at both ends |
| AddrSpace, exceptions, `coff2noff` | page table, registers, sections | Load, Execute, Translate, Halt, Add | layout of segments and stack; context of user programs across switches |
| Machine, MIPS simulator, translation | registers, memory | OneInstruction, Mult, Translate | arithmetic by hand, delayed loads, precise traps |
| SWITCH (`switch.S`), StackAllocate | registers, stacks | SWITCH, ThreadRoot | one forgotten register shows only in a thread that needed it |
| Kernel, main | kernel objects, options | Initialize, the jobs, Halt, ~Kernel | two parsers for one command line; order of creation |
| List, HashTable, Bitmap | linked cells, buckets, words | insert, remove, rehash, find | `last` pointer, iteration, resizing, partly used words |

`PROJECT.json` lists every part with its files, the hazards with the line where
each bites, and for every definition the source lines it translates.

## 2. The modules

```
abstract        implementation     built on
Semaphore    <- Threads            proofs: ThreadsProofs
Monitor      <- Condition          Semaphore (as what P and V do); proofs: ConditionProofs
Fifo         <- SynchList          Condition (instantiated); proofs: SynchListProofs
EventClock   <- Interrupt          proofs: InterruptProofs
SectorStore  <- SynchDisk          locks and semaphores as promised above; proofs: DeviceProofs
                SynchConsole       likewise; proofs: DeviceProofs
                FileSystem         proofs: FileSystemProofs
ByteFile     <- OpenFile
ItemList     <- LinkedList
                CopyFile           extends OpenFile
                PostOffice         Fifo (mailboxes); proofs: MailProofs;  NetworkTest extends it
                SelfTest           Semaphore (instantiated), Fifo
                MipsSim            extends MipsOps and Translation
                UserProgram        extends MipsSim;   MipsCheck likewise
                PageTable          extends Translation; proofs: MachineProofs
                Switch             proofs: MachineProofs
                Disk, HashTable, Bitmap, Mult, Noff, Kernel
```

Each layer is built on what the layer below has been shown to give. Condition
takes P as "wait for a positive value, then decrement it", which is the abstract
semaphore that Threads implements. SynchList instantiates Condition itself and
uses its actions step by step; the devices' wrappers (SynchDisk, SynchConsole,
PostOffice) take locks, semaphores and synchronized lists as promised by Monitor,
Semaphore and Fifo.

TLC runs Condition and SynchList directly, the other components through the modules
`MC...`. MCThreads is for Threads and MCMachine for two parts that share the processor.
MCProgress, MCServices and MCAlgorithms are sums of independent parts:
the variable `part`, chosen in Init, says which part runs, and the others rest in a
state of theirs in which nothing happens. A behaviour of the sum is a behaviour of
one part, so a property of the sum is that property of every part, and no product
of state spaces is built.

### Threads

The kernel proper: `Thread`, `Scheduler`, `Semaphore`, and of `Interrupt`,
`Alarm` and `Timer` the part that decides when the CPU changes hands.

* `alive`, `status`, `currentThread`, `readyList`, `toBeDestroyed`, `value`,
  `queue`, `level`, `machineStatus` and `yieldOnReturn` are the variables of the
  code. `timer` is the time left until the pending timer interrupt.
* `pc[t]` is where `Scheduler::Run` will return to when `t` is switched in again
  or, for the current thread, the kernel routine it is in. `oldLevel`,
  `oldStatus` and `waitingOn` are the locals a suspended routine needs.
* `SetLevel(t, old)` is the end of every kernel routine: enabling interrupts goes
  through `OneTick`, so the thread moves to `oneTick`, where `DeviceInterrupt` and
  `TimerInterrupt` run handlers, until `ReturnFromOneTick` or `YieldInOneTick`.
* `Fork`, `Begin`, `Finish`, `Yield`, `P`, `V`, `Idle`, `RunUserProgram` and
  `OneInstruction` are the routines of those names. `Dispatch` is the end of
  `Sleep`; the actions `ReturnFrom...` continue a routine after `Run`.

Abstractions. `Yield` and `OneTick` nest. All frames but the outermost save and
restore `SystemMode` and nothing runs between their returns, so one `oldStatus`
stands for the stack of them. `Idle` may return without any handler having made
a thread ready: console and network handlers that poll find nothing most of the
time. Not in this module: user registers, `CheckOverflow`, the Halt system call,
and `inHandler` (in Interrupt).

### Semaphore, Monitor, Fifo, EventClock

What `synch.h`, `synchlist.h` and `interrupt.h` promise to callers, with no queue
of threads, no ready list and no lock: a counter on which P waits, a Mesa monitor
with a FIFO condition, a FIFO list, and a clock that takes events in order.

### Condition

`lock` is the value of the lock's semaphore and `waiter[t]` that of the semaphore
`Wait` allocates for its call, NULL when there is none. Locations name the P or V
a thread is at. The abstract holder is the thread between P and V of the lock, so
the window before `lockHolder` is assigned is covered.

### SynchList

Adds the list, each thread's operation, argument and result. `List::Append`
asserts that an item is not on the list already, so callers append only items
that are not on it or on their way to it. This also bounds the list.

### Interrupt

The pending list in relative time: an entry holds its time minus `totalTicks`,
the only thing the code compares, so no bound on the clock is needed. Devices are
of three kinds: the timer, which schedules itself again; pollers, which may; and
the rest, which schedule when a thread makes a request. `Timer::Disable` is an
action although the kernel never calls it: it is the one way to reach `Halt` in
`Idle`.

### SynchDisk, SectorStore, Disk

SynchDisk has the threads in `ReadSector` and `WriteSector`, the lock, the
semaphore the interrupt handler signals, and the sectors. Data moves when the
request is made, as in `disk.cc`; the interrupt comes at any later time, also before
the P. SectorStore is the promise: each operation takes effect at one moment between
call and return. Disk is the timing alone: clock, head position and track buffer,
with `ComputeLatency`, `TimeToSeek`, `ModuloDiff` and `UpdateLast` as operators. A
separate definition of when the sector has passed under the head (`FirstPass`) is
what the latency is compared with.

### SynchConsole

Keyboard and display with their one-character buffers, the callbacks and the threads
of `Kernel::ConsoleTest`. `Type` and `CloseInput` are the user. The input device polls
until it finds a character, then waits for `GetChar` to ask again.

### PostOffice, NetworkTest

Several machines, each with a network device, a postal worker and mailboxes; the
host's datagram sockets between them. `NetworkSend` may lose the packet;
`SendToSocket` tries again while the receiver's socket does not exist and gives up
after `MaxTries`. `handed`, `lost` and `received` are history. NetworkTest adds the
program of `Kernel::NetworkTest` to two machines that may start at different times.

### FileSystem

Bitmap, directory and headers as they are on disk. An operation computes in memory
(one step, as nothing else runs) and leaves a sequence of sector writes in `writes`;
`WriteBack` does one of them and `Crash` may come before any. The directory file has
two sectors and one entry straddles them (`SplitEntry`), so even writing the directory
is not atomic. The operations run one at a time: `filesys.cc:33` excludes concurrent
use. Formatting is the same kind of sequence; a crash in it is outside the model, as
nothing is stored yet. So is a file that does not fit its header, which `filesys.cc:35`
excludes: its sectors would be written (Allocate) and read (Deallocate) behind the array
`dataSectors`. `FileSystemAssumption` says that all files fit.

### OpenFile, ByteFile, CopyFile

`ReadAt` and `WriteAt` with the sector-aligned buffer, the read of a partial first and
last sector and the cut at the end of the file, against an array of bytes.
CopyFile composes them into `Copy` and `Print` of `main.cc`, with a host whose reads
may be short.

### MipsOps, MipsSim, MipsCheck, UserProgram

MipsOps is decoding and word arithmetic, MipsSim `OneInstruction` with all opcodes of
`mipssim.h`, delayed loads, `ReadMem`, `WriteMem`, exceptions and the two system calls.
The width of a byte is a parameter. MipsCheck runs short programs from chosen
registers and memory. `TrapsArePrecise` compares all registers with those before the
instruction that trapped, Hi, Lo and both program counters included, for traps with a load
pending and in the delay slot of a branch too. `InstructionsAreExact` is about the
instructions whose result is easy to get wrong: the unaligned loads and stores, and the
arithmetic that `Exact` lists.

UserProgram adds address spaces, the stubs of `start.S` and `add.c`, and what happens to a
user program between two instructions: an interrupt (`TakeInterrupt`), in which
`CheckIfDue` completes the pending load before it calls a handler (`BeforeHandlers`), and a
switch, in which `SaveUserState` follows that. So the load delay of the machine is one
instruction or none, as interrupts fall, and a program may tell them apart if it uses the
loaded register in the delay slot. `SwitchesAreInvisible` is about programs that do not;
on the MIPS I the delay slot of a load is for another instruction.

### Translation, PageTable, Noff, Mult

`Machine::Translate` and `AddrSpace::Translate` as operators and their effect on one
page table; `coff2noff` section by section followed by `AddrSpace::Load`, byte by byte;
the loop of `Mult` step by step on words of `WordBits` bits.

### LinkedList, ItemList, HashTable, Bitmap

LinkedList has the heap of list elements, `first`, `last` and `numInList`, and is
compared with sequences. HashTable has the buckets through resizing and an iterator;
Bitmap the array of words with its partly used last one.

### Switch, Kernel, SelfTest

Switch is `SWITCH` and `ThreadRoot` for the x86, instruction by instruction in their
effect on registers and stack words, with `StackAllocate`; compiled code is modelled
by its calling convention. Kernel is the two option parsers, the order in which
`Initialize` creates objects, the jobs of `main` and `~Kernel`, with what each constructor
and job reaches through the global `kernel`; a pointer nobody has assigned is garbage or
NULL. `StartsAsTold` is about command lines in which no argument of one parser's option is
an option of the other's (after `-ci -K` main runs the thread test as well), and about all
objects but the post office, for which see Findings.

SelfTest is `Kernel::ThreadSelfTest` over the abstract semaphore and list. Append and
RemoveFront are two steps, up to the Release of the list's lock and the Release itself, so
that a list may be deleted in between; V is one, as it touches nothing of the semaphore
after it has turned interrupts on. `main.cc:273` has the call of ThreadSelfTest commented
out: `-K` runs `ThreadTest`, and the module shows what the self test would do.

## 3. What TLC checks

| Run | Instance | Distinct states | Shows |
|---|---|---|---|
| threads_random | 3 threads, a lock semaphore and a device semaphore, random time slices | 60 771 | ready list and queues exact, finished threads deleted, no lost wakeup, interrupt level and machine status right, time-slice requests consumed, abstract semaphore implemented |
| threads_fair | the device semaphore only, fairness | 12 184 | every ready thread runs; a positive semaphore is not withheld from its waiters |
| threads_yield | 2 threads, the real tick counts | (violation) | Yield need not return, see Findings |
| condition | 4 threads | 2 896 | one holder and `lockHolder` known, no missed signal, Mesa monitor implemented |
| synchlist | 3 threads, 2 items, fairness | 134 838 | no item is left beside waiting threads; FIFO list implemented; items are taken |
| progress | MCProgress: Interrupt with timer, poller and disk; SynchDisk with 3 threads, 2 sectors; SynchConsole with 2 threads, 3 characters; NetworkTest; SelfTest; fairness | 37 624 | interrupts in order, on time, all taken, Halt only without the timer; sectors are atomic and every request returns; the echo is exact and ends (`DevicesAnswer` is both endings); the network test ends unless a packet is lost; the self test ends and deletes nothing in use |
| services | MCServices: Disk 3 x 3 sectors; FileSystem 9 sectors, 3 entries; OpenFile; CopyFile; PostOffice 3 threads on 2 machines | 313 378 | latency exact; disk consistent, a crash hurts one entry, open headers current; a file is a byte array, also through Copy and Print; mail exact but for losses |
| machine | MCMachine: 16-bit words, 64-byte pages, short programs, `add.c`, two threads interrupted and switched anywhere | 132 335 | instructions exact, traps precise, programs compute their results |
| mips_srl | as machine, shifts only | (violation) | SRL is arithmetic, see Findings |
| algorithms | MCAlgorithms: lists of 4 and 5 items, hash table, bitmap, Mult, page tables, COFF files, command lines, SWITCH with 3 threads | 96 247 | each algorithm against its definition |
| kernel | the part Kernel of algorithms | (violation) | the post office is used and not created, see Findings |
| noff | the part Noff of algorithms | (violation) | contiguous .bss sections are refused and others merged, see Findings |

Several of the properties are conjunctions of named ones in the component's module:
`LockIsExclusive` of `MutualExclusion` and `HolderIsKnown`, `ClockIsExact` of `OnTime`
and `ImplementsEventClock`, `SectorsAreAtomic` of the two assertions about the disk and
`ImplementsSectorStore`, `EchoIsExact` of the console's assertions and `EveryCharOnce`,
`DevicesAnswer` of the liveness of SynchDisk and of SynchConsole, `FilesAreSound` of `DiskIsConsistent`, `CrashHurtsOneEntry` and
`OpenHeaderIsCurrent`, and so on. For each conjunct there is a mutant of the code, an
operator marked "Mutant of", that breaks it.

**Bounds.** Three threads are the least for barging: one waits, one signals, one
takes the value first. (What holds of the lists for any number of them is proved, section
4.) `Thread` is a set of addresses, so a finished thread's
address is used again by a later Fork, and runs are of any length. `MaxValue`
bounds semaphore values (in the V guard), 2 being enough for two pending wakeups.
Tick counts are scaled down in all runs but threads_yield. The order of delays
matters, not their size: the delays chosen let the timer be due after one tick or
after several, and let interrupts coincide. Of the other parts:

* Disk: `MaxTicks` is 27, three turns of a 9-tick track; seek and rotation times differ, so
  seeks end inside a sector, and requests hit and miss the track buffer.
* FileSystem: 4 sectors for files and 3 entries for 3 names, so both disk and directory
  get full; files of 0 and 2 sectors (`NumDirect`); one file open at a time.
* PostOffice: `MaxTries` is 2 (10 in the code): one retry, then giving up. One message of
  each kind, so that losses and reorderings can be told apart.
* OpenFile: sectors of 2 bytes, files of 1, 2 and 5, every position and length around
  the sector boundaries and the end.
* Machine: bytes of 4 bits, words of 16; operands around zero and both ends of the range.
  Mult: all pairs of 5-bit words.
* HashTable: one bucket at first, resized twice. Bitmap: 8 bits in words of 3.
* SelfTest uses the loop counts of the code. Kernel: all command lines of up to three words.

**Deadlock** is checked in the Threads and machine runs. It is not in the others, where
all threads may wait (Condition, SynchList, SynchConsole, PostOffice), a bound is reached
(Disk) or the program ends (Interrupt, Kernel, Switch and the other algorithms).

**Fairness.** Threads and Interrupt assume only that the simulator goes on
executing, WF of `Next`: there is one host thread and it never blocks for ever.
That a given thread runs is a result (`ReadyThreadsRun`), from time slices and the
FIFO ready list, and that a scheduled interrupt comes is another (`EveryInterruptTaken`).
The other modules assume of their threads and devices what these runs have
shown: a thread in an operation runs (WF of its own steps), a pending callback is called
(WF of `CallBack`, `InputCallBack`, `SendCallBack`, ...), and someone gets a free lock (WF
of the disjunction over threads, no particular thread being favoured). Calls are never
assumed, nor that the user types or ends the input. NetworkTest assumes that both machines
are started at some time.

### Findings

`Thread::Yield` is documented to return when the thread is re-scheduled
(`threads/thread.cc:189-191`). Its last statement restores the interrupt level,
which is a tick; the tick may find the timer due and yield again inside the first
Yield. In the counterexample of threads_yield the other thread always gives the
CPU back one system tick before the timer is due, and the Yield never returns,
nesting deeper each round.

`OP_SRL` and `OP_SRLV` of `machine/mipssim.cc` (520, 526) shift a signed int, so the
"logical" shifts copy the sign bit like `OP_SRA`. `mipssim.h:16-17` says the opcodes are
those of the MIPS manual; the run mips_srl has the counterexample.

`kernel.cc:109-110`, the lines of `Initialize` that create the post office, are commented
out, and nothing else assigns `postOfficeIn` and `postOfficeOut`. `-N`, "run a two-machine
network test" (`main.cc:23`), calls through them, and `~Kernel` (131-132) deletes them
whatever the options, which is harmless only if they happen to be NULL. The run kernel
checks that no pointer is used before it is assigned (`AssignedBeforeUse`) and has the
counterexample; that the post office is the only one is part of `StartsAsTold`.
NetworkTest, and with it `TestEndsUnlessLost`, models the test with the two lines in place.

`coff2noff.c:268` says of two uninitialized sections "make sure they are contiguous". Line
272 has `==` for `!=`: contiguous ones are refused, and two with a gap between them are
added up to one segment that is too short (run noff, `BssIsContiguous`). A `.sbss` that is
not empty, named beside `.bss` in line 16, is refused as unknown. That the stack is free
(`StackIsFree`) is shown for sections without gaps, which is how `test/script` links; with
gaps the sum of the sizes that `AddrSpace::Load` takes would be too small. Loaded bytes
that fall outside of the memory are not followed.

`ItemsAreTaken` holds only when calls do not go on for ever: `Semaphore::V` keeps
nothing for the thread it wakes, and callers may overtake it again and again.

### Observations

Points where code and comments disagree that came up while the modules were written.
The modules follow the code; the properties are stated so that they hold for it.

* `console.cc:106`: EOF is a value of `char`, so an input byte 0xFF reads as the end of
  the input. `EchoIsExact` is about inputs without it.
* `network.cc:117`: the reliability is the chance of delivery; `network.h:51` calls it the
  chance of loss, `post.cc:260` has it right. `network.cc:158` asserts on `sendBusy`,
  which nothing sets to TRUE: only the post office's lock keeps sends apart.
* `filehdr.cc:51`: Allocate does not compare a file's sectors with `NumDirect`. The model
  has files that fit only.
* `exception.cc:99`: only Halt and Add are implemented; the Exit that `start.S:29` makes
  when `main` returns ends in ASSERTNOTREACHED. `add.c` halts.
* `coff2noff.c:174` tests `fdIn` for `fdOut`.
* The usage message of `main.cc` names `-nf` where the parser knows `-f`; `hash.cc` calls
  the buckets sorted lists, which they are not.
* DIV of the least int by -1 is undefined in C++ and a trap on the x86.

## 4. What is proved

Eight modules prove twenty-three theorems, each for every value of the constants that the
named assumption allows. TLC evaluates all of the assumptions in the runs.

| Module | For | Assumption |
|---|---|---|
| Threads | any finite set of threads, any semaphores and initial values, any tick counts and time slices | `ThreadsAssumption` |
| Condition | any set of threads | `ConditionAssumption`: NULL is no thread |
| SynchList | any finite set of threads, any items | `SynchListAssumption`, `FiniteAssumption` |
| Interrupt | any devices, any sets of delays, any tick lengths | `InterruptAssumption`: delays and ticks are positive, a system tick is not shorter than a user tick |
| FileSystem | disks, directories and headers of any size, any names and contents, files of any size that fits | `FileSystemAssumption`: the disk has room for the two headers and their files, and a header can name all sectors of its file |
| SynchDisk, SynchConsole | any threads, sectors and characters | `SynchDiskAssumption`, `ConsoleAssumption`: NULL and EOF are different from all of these |
| PostOffice | any machines, threads, mailboxes and messages, any number of tries, a network that loses or one that does not | `PostOfficeAssumption`: threads and addresses are on machines that exist, NULL is no thread and no message |
| Switch | any threads, any stack size | `SwitchAssumption`: a stack has at least 16 words (the code's have 8192) |
| PageTable | any page size, memory, addresses and page tables | `TranslationAssumption`: a page is a number of 4-byte words; `PageTableAssumption`: all pages are valid, as AddrSpace makes them |

| Theorem | Statement |
|---|---|
| TypeCorrect | `Spec => []TypeOK` |
| ReadyListCorrect, QueuesCorrect, CarcassCorrect | `[]ReadyListExact`, `[]QueuesExact`, `[]CarcassDeletedByNext` |
| WakeupsCorrect | `[]NoLostWakeup` |
| SemaphoreCorrect | `Spec => ImplementsSemaphore` |
| LevelCorrect, StatusCorrect, RequestCorrect | `[]InterruptLevelRight`, `[]StatusFollowsThread`, `[]YieldRequestConsumed` |
| LockCorrect, SignalsCorrect | `[]LockIsExclusive`, `[]SignalNotMissed` (Condition) |
| MonitorCorrect | `Spec => ImplementsMonitor` (Condition) |
| ListCorrect | `[]SynchListInv` (SynchList) |
| FifoCorrect | `Spec => ImplementsFifo` (SynchList) |
| InterruptInvariant, OnlyWithoutTimer | `[](InterruptTypeOK /\ InterruptInv)`, `[]HaltsOnlyWithoutTimer` (Interrupt) |
| ClockExact | `InterruptSpec => ClockIsExact`, with the refinement of EventClock (Interrupt) |
| FilesSound | `Spec => []FilesAreSound` (FileSystem) |
| DiskAtomic | `Spec => SectorsAreAtomic`, with the refinement of SectorStore (SynchDisk) |
| EchoExact | `ConsoleSpec => []EchoIsExact` (SynchConsole) |
| MailCorrect | `MailSpec => []MailIsExact` (PostOffice) |
| SwitchCorrect | `SwitchSpec => []SwitchIsTransparent` (Switch) |
| TranslationsCorrect | `TableSpec => []TranslationsAgree` (PageTable) |

For Threads (`ThreadsProofs`) the argument goes in three layers, after the lemmas on
lists and the proof that each action keeps the types.

1. *Where threads are*. None of ReadyListExact, QueuesExact and
   CarcassDeletedByNext is inductive alone: that a thread taken off a queue is not
   on the ready list already follows from QueuesExact, and that the thread at the
   head of the ready list is alive from CarcassDeletedByNext. `PlacesInv` joins them
   with `LocationsConsistent`, which relates `pc`, `status` and `waitingOn`. There is
   one lemma for each way a step moves a thread (stay, resume, fork, finish, switch,
   dispatch, block, take, wake), and each action is an instance of one of them.
2. *Wakeups and refinement*. NoLostWakeup is inductive relative to `PlacesInv`: V adds
   one to the value and one thread to `Woken`, a P that takes the value or goes back
   to the queue removes at most one from each. The refinement maps `waitingOn` to
   the abstract `waiting`.
3. *Level and status*. `LevelInv` says what level each location of the current thread
   allows and what level every suspended Yield or P will restore. `StatusInv` says the
   same of the machine status and the outermost `oldStatus`.

Condition (`ConditionProofs`): MutualExclusion and SignalNotMissed count with
`Cardinality` and are proved from `LockInv` and `QueueInv`, which say the same thread by
thread. `LockInv`: the lock's semaphore is 0 or 1, and 0 exactly while one thread has
the lock. `QueueInv`: the queue has no thread twice, and the semaphore of a thread in
Wait is 0 while it is queued and 1 after its signal, so that a signal always finds a
thread that has none. The refinement takes the abstract holder to be the thread past
its P, before lockHolder is set; Acquired, Woken and the end of Wait are stutters.

SynchList (`SynchListProofs`) instantiates `ConditionProofs`: each of its steps is a
step of the lock and condition or leaves them alone, so their invariant is inherited.
On top, `OpInv` says that only RemoveFront waits, whence NoStrandedItem is inductive:
Append adds one item and, through its signal, one thread to `Coming`; RemoveFront takes
one of each, whether or not that thread was the one signalled for the item; and a
thread begins to wait only when the list is empty.

Interrupt (`InterruptProofs`). The lemmas say what `Insert`, `Advance` and taking the first
entry do to a list that is `Ordered`: sorted by time, no device twice. `InterruptInv` adds
to that where the CPU may be when an entry is overdue (only between the tick and the end
of CheckIfDue's loop, and by less than one tick), and that the timer is in the list or
disabled. `OnTime` alone is not inductive: that CheckIfDue may stop at the first entry
that is not due rests on the order. For the refinement, `Shows` relates the list to the
function from devices to ticks left that the event clock has; a tick, the skip in Idle, a
handler and a request each map to one step of it, the other actions to a stutter.

FileSystem (`FileSystemProofs`). `DiskIsConsistent` speaks of the disk between two
operations only, so the invariant has to say what is true in between. `FileSystemInv` says
of every state with pending writes that they are a suffix of those of one formatting,
Create or Remove (`Formatting`, `Creating`, `Removing`) and that what was written before
is on disk. `ToCreate` and `ToRemove` say what the operation has computed: its new sectors
were free, its new bitmap is the old one plus or minus exactly the sectors of the file.
`GoodDisk` of all entries but `slot` holds throughout, which is `CrashHurtsOneEntry`. There
is one lemma for each operation (the state it leaves in `writes`) and one for the writes
of each (`CreateWrites`, `RemoveWrites`, `FormatWrites`). The first of the two sectors of the
directory may hold half of an entry: `FirstPartWritten`. That a header names all sectors
that Allocate marks for it is `AllocateClear`.

SynchDisk and SynchConsole (`DeviceProofs`). `DiskInv`: the lock's holder is the one thread
between Acquire and Release, and from its request until it has left P either the disk is
active or the semaphore is 1, never both. Hence the assertion `!active`, and
the interrupt is for the only thread that can be waiting. `ConsoleInv` is the same for each
direction of the console. `CharsInv` says of each character that may be typed that it is in
exactly one of five places: not yet typed, in the UNIX file, in `incoming`, with one
thread, on the display.

PostOffice (`MailProofs`). `MailIsExact` joins the types, `OneSendAtATime`,
`WorkerFindsPacket`, `InOrderExceptLost` and `NothingElse`. Order is a statement about what
was received and what the mailbox holds; to be inductive it has to speak of all places a
packet can be in before that. `Way(m, b)` is the way to mailbox `b` of machine `m` as five
lists: received, in the mailbox, in the worker's hands, in the device's buffer, in the
socket. A place is a list and a position in it, and `AheadOf` compares places. `WayInv` says
that a packet on the way is on it once and was sent to this machine (`Carries`, `Once`),
that past the worker it is for this mailbox (`Sorted`), that every packet sent here and
not lost is on the way (`Complete`), and that of two packets of one sender the earlier is
ahead (`Ordered`). Every step of the receiver takes the head of one list to the end of
the next, to the way of another mailbox or to nowhere; `Came` says from where a place came
then, and comparing places commutes with it (`CameInOrder`), whatever the lengths of the
lists. No induction over lists is needed for this.

A packet enters at the end of the socket, so order needs that it is the last its machine
has sent. That is `MessageInv`, and it rests on `SendInv`: the thread that sends or tries
again has sendLock, so a machine has one packet that is not in a socket yet, and
`messageSent` is zero until the interrupt for it. `RecvInv` relates the postal worker's
wakeups to the buffer in the same way.

Switch (`MachineProofs`). Words of a stack are named by their position, counted from its
end. `SwitchInv` says of every thread that waits for the processor what the next SWITCH to
it will find: a fresh one has ThreadRoot at position 5 and the four addresses in its
object (`Fresh`), a suspended one has its return address at position 14 and its registers
in its object (`Suspended`). `Frame` says what is on the stack for the returns of
ThreadBegin and of the function, `CurrentInv` what is in the registers at each place the
current thread can be in. SWITCH writes one word on the stack it switches to, above the
return address; it is where a suspended thread had pushed an argument and where a fresh one
has nothing yet, at position 13 or 4, and so in no `Frame` (`Switched`). All writes are at
positions 4 to 14, which is why 16 words are enough for the fencepost.

PageTable (`MachineProofs`). `TableInv`: the entries keep their type and stay valid, and the
bits are exact. That the two translations agree follows for every such table; that an
access which is allowed ends inside of memory rests on `InPage`: an aligned access does not
cross the end of its page.

Only model-checked, and why:

* The liveness properties (`ReadyThreadsRun`, `EveryInterruptTaken`, `ItemsAreTaken`,
  `DevicesAnswer` and the others): the prover does not reason about fairness.
* LinkedList, HashTable, OpenFile, CopyFile and Noff compare loops over data with a
  definition; for every length that is an induction over data, which the installed
  provers cannot do.
* MipsOps, and with it MipsSim, MipsCheck and UserProgram, use `Bitwise`, which the proof
  system cannot load. Mult and Bitmap need powers of two and Disk products and remainders
  of unknowns, which the SMT solver does not decide.
* Kernel, SelfTest and NetworkTest have no theorems. Kernel and SelfTest have no parameter
  that matters: their runs cover the program as it is. What the run of NetworkTest shows
  holds for the bounds of section 3.

## 5. What is not modelled

* `SWITCH` for the MIPS, SPARC, PA-RISC, PowerPC and Alpha: the Makefiles build for the x86.
* The TLB (`USE_TLB` is not defined) and byte swapping for big-endian hosts, which is the
  identity here.
* The stub file system (`FILESYS_STUB`, the default of the Makefiles): each call is a call
  of the host's file system. The real one is modelled.
* Concurrent file system operations: excluded by the restrictions in `filesys.cc`, and
  nothing in the code handles them.
* `Cleanup` on Ctrl-C, a host signal at any instruction.
* `CheckOverflow`, apart from the fencepost it looks for (module Switch).
* `totalTicks` overflow: Interrupt keeps times relative to now.
* Pure output and computation: the debugger and `DumpState`, `stats.cc`, `debug.cc`, the
  List and Print operations, `libtest.cc` (fixed sequences of calls that the runs on lists,
  hash table and bitmap include), the test programs `matmult.c`, `sort.c` and `shell.c`
  (the last needs system calls that do not exist), the C++ examples.
* The rest of `lib/sysdep.cc`: a thin layer over the host's system calls.

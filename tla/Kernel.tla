------------------------------- MODULE Kernel -------------------------------
(***************************************************************************)
(* Starting and stopping Nachos: main (threads/main.cc) and Kernel         *)
(* (threads/kernel.cc).  The command line is read twice, by main for its   *)
(* own options and by the Kernel constructor for the others; each passes   *)
(* over the words it does not know.  Initialize creates the kernel objects *)
(* one after the other; main then does what the options ask for, and       *)
(* `delete kernel' ends the run.  A pointer that was never assigned is     *)
(* garbage or, by luck, NULL.                                              *)
(***************************************************************************)
EXTENDS Integers, Sequences, SequencesExt, Functions

CONSTANTS
  CommandLine,    \* the command lines (without argv[0])
  FILESYS_STUB    \* the file system is the stub, a compile-time choice

KernelAssumption == FILESYS_STUB \in BOOLEAN

VARIABLES
  argv, i,    \* the command line and the position of the parser
  handled,    \* the positions of the options that were recognised
  phase,      \* what main is at
  created,    \* the kernel objects that exist
  todo,       \* what the current phase has still to do
  memory,     \* what is in pointers that were never assigned
  undefined   \* the unassigned pointers that were used, with their use

vars == <<argv, i, handled, phase, created, todo, memory, undefined>>
parseVars == <<argv, i, handled>>

(* The options each parser knows, with the number of their arguments       *)
MainOptions ==
  [o \in {"-d", "-x"} |-> 1] @@ [o \in {"-z", "-K", "-C", "-N", "-u"} |-> 0]
  @@ IF FILESYS_STUB THEN << >>
     ELSE [o \in {"-p", "-r"} |-> 1] @@ [o \in {"-l", "-D"} |-> 0] @@ ("-cp" :> 2)

KernelOptions ==
  [o \in {"-rs", "-ci", "-co", "-n", "-m"} |-> 1] @@ [o \in {"-s", "-u"} |-> 0]
  @@ IF FILESYS_STUB THEN << >> ELSE "-f" :> 0

(* Mutant of Objects: the machine is created after the file system.        *)
ObjectsMachineLast ==
  <<"currentThread", "stats", "interrupt", "scheduler", "alarm",
    "synchConsoleIn", "synchConsoleOut", "synchDisk", "fileSystem", "machine">>

(* Kernel::Initialize, in order.  The post office is commented out.        *)
Objects == <<"currentThread", "stats", "interrupt", "scheduler", "alarm", "machine",
             "synchConsoleIn", "synchConsoleOut", "synchDisk", "fileSystem">>

(* Interrupt::Schedule puts on the list of interrupts a time that counts   *)
(* from the clock in the statistics.                                       *)
Scheduling == {"interrupt", "stats"}

(* Semaphore::P, Yield and Sleep, and the interrupts that may be taken in  *)
(* them: CheckIfDue calls the machine before any handler, unless           *)
(* kernel->machine is NULL.                                                *)
Waiting ==
  {"currentThread", "scheduler"} \cup Scheduling
    \cup IF "machine" \notin created /\ memory = "NULL" THEN {} ELSE {"machine"}

(* A file, and the synchronized disk that a file of the stub does not use  *)
Files == {"fileSystem"} \cup IF FILESYS_STUB THEN {} ELSE {"synchDisk"} \cup Waiting

(* What a constructor reaches through the global `kernel': the timer and   *)
(* the console's input schedule their first interrupt (timer.cc:79,        *)
(* console.cc:40); the file system reads or formats the disk and waits for *)
(* it.                                                                     *)
Needs(object) ==
  CASE object \in {"alarm", "synchConsoleIn"} -> Scheduling
    [] object = "fileSystem" -> Files \ {"fileSystem"}
    [] OTHER -> {}

(* What main does for the options, in its order, and the objects used.     *)
(* The command lines have no -m: -N runs on machine 0, where NetworkTest   *)
(* uses the post office.                                                   *)
Jobs == <<"-K", "-C", "-N", "-r", "-cp", "-D", "-l", "-p", "-x">>

Uses(job) ==
  CASE job = "-K" -> Waiting
    [] job = "-C" -> {"synchConsoleIn", "synchConsoleOut"} \cup Waiting
    [] job = "-N" -> {"postOfficeIn", "postOfficeOut"} \cup Waiting
    [] job = "-x" -> {"machine"} \cup Files \cup Waiting
    [] OTHER -> Files

(* ~Kernel, in order                                                       *)
Deletions == <<"stats", "interrupt", "scheduler", "alarm", "machine", "synchConsoleIn",
               "synchConsoleOut", "synchDisk", "fileSystem", "postOfficeIn", "postOfficeOut">>

Init ==
  /\ argv \in CommandLine /\ i = 1 /\ handled = {} /\ phase = "main options"
  /\ created = {} /\ todo = << >> /\ undefined = {}
  /\ memory \in {"NULL", "garbage"}

(* Mutant of Parse: the argument is looked at as an option again.          *)
ParseEveryWord(from, options, to) ==
  /\ phase = from
  /\ IF i > Len(argv) THEN phase' = to /\ i' = 1 /\ UNCHANGED handled
     ELSE IF argv[i] \notin DOMAIN options THEN i' = i + 1 /\ UNCHANGED <<phase, handled>>
     ELSE IF i + options[argv[i]] > Len(argv) THEN phase' = "aborted" /\ UNCHANGED <<i, handled>>
     ELSE i' = i + 1 /\ handled' = handled \cup {i} /\ UNCHANGED phase
  /\ UNCHANGED <<argv, created, todo, memory, undefined>>

(* One turn of a parser's loop.  A missing argument fails an ASSERT.       *)
Parse(from, options, to) ==
  /\ phase = from
  /\ IF i > Len(argv) THEN phase' = to /\ i' = 1 /\ UNCHANGED handled
     ELSE IF argv[i] \notin DOMAIN options THEN i' = i + 1 /\ UNCHANGED <<phase, handled>>
     ELSE IF i + options[argv[i]] > Len(argv) THEN phase' = "aborted" /\ UNCHANGED <<i, handled>>
     ELSE i' = i + 1 + options[argv[i]] /\ handled' = handled \cup {i} /\ UNCHANGED phase
  /\ UNCHANGED <<argv, created, todo, memory, undefined>>

ParseMain   == Parse("main options", MainOptions, "kernel options")
ParseKernel == Parse("kernel options", KernelOptions, "start")

(* Kernel::Initialize is entered                                           *)
Start ==
  /\ phase = "start"
  /\ phase' = "Initialize" /\ todo' = Objects
  /\ UNCHANGED <<parseVars, created, memory, undefined>>

(* The objects that are used without having been created (history)         *)
Misused(what, objects) == {<<what, o>> : o \in objects \ created}

Construct ==
  /\ phase = "Initialize" /\ todo # << >>
  /\ undefined' = undefined \cup Misused("new", Needs(Head(todo)))
  /\ created' = created \cup {Head(todo)}
  /\ todo' = Tail(todo)
  /\ UNCHANGED <<parseVars, phase, memory>>

(* interrupt->Enable, and back in main                                     *)
Initialized ==
  /\ phase = "Initialize" /\ todo = << >>
  /\ phase' = "jobs"
  /\ todo' = SelectSeq(Jobs, LAMBDA j : \E k \in handled : argv[k] = j)
  /\ UNCHANGED <<parseVars, created, memory, undefined>>

(* A test or a file system command.  RunUserProg does not come back: the   *)
(* program runs, or cannot be loaded, which fails ASSERTNOTREACHED.        *)
DoJob ==
  /\ phase = "jobs" /\ todo # << >>
  /\ undefined' = undefined \cup Misused(Head(todo), Uses(Head(todo)))
  /\ phase' \in IF Head(todo) = "-x" THEN {"user program", "aborted"} ELSE {phase}
  /\ todo' = Tail(todo)
  /\ UNCHANGED <<parseVars, created, memory>>

(* currentThread->Finish in main: other threads go on                      *)
FinishMain ==
  /\ phase = "jobs" /\ todo = << >>
  /\ phase' = "main finished"
  /\ UNCHANGED <<parseVars, created, todo, memory, undefined>>

(* Interrupt::Halt for a user program's Halt, or Cleanup on Ctrl-C         *)
Halt ==
  /\ phase \in {"user program", "jobs", "main finished"}
  /\ phase' = "halting" /\ todo' = Deletions
  /\ UNCHANGED <<parseVars, created, memory, undefined>>

(* `delete' of one member of ~Kernel; NULL may be deleted                  *)
Delete ==
  /\ phase = "halting" /\ todo # << >>
  /\ undefined' = IF memory = "NULL" THEN undefined
                  ELSE undefined \cup Misused("delete", {Head(todo)})
  /\ created' = created \ {Head(todo)}
  /\ todo' = Tail(todo)
  /\ UNCHANGED <<parseVars, phase, memory>>

Exit ==
  /\ phase = "halting" /\ todo = << >>
  /\ phase' = "exited"
  /\ UNCHANGED <<parseVars, created, todo, memory, undefined>>

Next == ParseMain \/ ParseKernel \/ Start \/ Construct \/ Initialized \/ DoJob \/ FinishMain
        \/ Halt \/ Delete \/ Exit

Spec == Init /\ [][Next]_vars

-----------------------------------------------------------------------------
(* The command line read once, with the options of both parsers: where a   *)
(* word is not the argument of an option before it                         *)
Options == KernelOptions @@ MainOptions
Arity(k) == IF argv[k] \in DOMAIN Options THEN Options[argv[k]] ELSE 0
IsStart[k \in 1 .. Len(argv) + 1] ==
  k = 1 \/ \E j \in 1 .. k - 1 : IsStart[j] /\ k = j + 1 + Arity(j)
Given == {k \in DOMAIN argv : IsStart[k] /\ argv[k] \in DOMAIN Options}

(* Every option has its arguments, and none of them is also an option of   *)
(* the parser that does not know the option it belongs to.  After `-ci -K' *)
(* main runs the thread test besides reading the console from file -K.     *)
WellFormed ==
  /\ IsStart[Len(argv) + 1]
  /\ \A k \in Given : \A a \in k + 1 .. k + Arity(k) :
       /\ argv[k] \in DOMAIN MainOptions => argv[a] \notin DOMAIN KernelOptions
       /\ argv[k] \in DOMAIN KernelOptions => argv[a] \notin DOMAIN MainOptions

(* Although each parser knows only its own options and steps over the      *)
(* words of the other one by one, together they recognise every option     *)
(* that is given, once, and take no argument for an option, in every       *)
(* command line in which no argument looks like an option of the other     *)
(* parser.                                                                 *)
OptionsAsGiven ==
  WellFormed =>
    /\ phase = "aborted" => created # {}
    /\ phase \notin {"main options", "kernel options"} => handled = Given

(* Initialize creates the objects in an order in which every constructor   *)
(* finds what it uses; so does everything main does later, but for the     *)
(* post office, which AssignedBeforeUse is about; and ~Kernel deletes      *)
(* every object that was created.                                          *)
CreatedBeforeUse ==
  /\ \A u \in undefined : u[1] # "new" /\ u[2] \in {"postOfficeIn", "postOfficeOut"}
  /\ phase = "exited" => created \subseteq {"currentThread"}

(* main.cc:23 says of -N: "run a two-machine network test (see             *)
(* Kernel::NetworkTest)", and kernel.cc:117 of ~Kernel: "Nachos is         *)
(* halting.  De-allocate global data structures."  Neither uses a pointer  *)
(* that Initialize has not assigned.                                       *)
AssignedBeforeUse == undefined = {}
=============================================================================

---------------------------- MODULE DeviceProofs ----------------------------
(***************************************************************************)
(* Proofs about the synchronous devices (modules SynchDisk, SynchConsole), *)
(* for every set of threads, sectors and characters: requests exclude each *)
(* other, interrupts go to the thread that waits, sectors are read and     *)
(* written atomically, and no character is lost or doubled.                *)
(***************************************************************************)
EXTENDS SynchDisk, SynchConsole, FiniteSetTheorems, TLAPS

-----------------------------------------------------------------------------
(* The inductive invariant: the lock goes with the place of its holder,    *)
(* and the one request that the lock allows is either in progress or       *)
(* counted by the semaphore until its thread has left P.                   *)
DiskInv ==
  /\ \A t \in Thread :
       /\ holder = t <=> pc[t] \in {"request", "wait", "release"}
       /\ op[t] = NULL <=> pc[t] = "out"
       /\ pc[t] \in {"request", "release"} => ~active /\ semaphore = 0
       /\ pc[t] = "wait" => (active /\ semaphore = 0) \/ (~active /\ semaphore = 1)
  /\ holder = NULL => ~active /\ semaphore = 0

LEMMA InitInv ==
  ASSUME SynchDiskAssumption, Init
  PROVE  TypeOK /\ DiskInv
<1>1. ~active /\ active \in BOOLEAN
  BY Zenon DEF Init
<1>. QED  BY <1>1 DEF SynchDiskAssumption, Init, TypeOK, DiskInv

(* Each step of a thread leaves the others where they are.                 *)
LEMMA ThreadInv ==
  ASSUME SynchDiskAssumption, TypeOK, DiskInv, NEW t \in Thread,
         Call(t) \/ Acquire(t) \/ OwnStep(t)
  PROVE  TypeOK' /\ DiskInv'
<1> USE DEF SynchDiskAssumption, TypeOK, DiskInv, Goto
<1>1. CASE Call(t)
  BY <1>1 DEF Call
<1>2. CASE Acquire(t)
  BY <1>2, Zenon DEF Acquire
<1>3. CASE Request(t)
  <2>1. op[t] \in Operation /\ op[t].sector \in Sector
    BY <1>3, Zenon DEF Request, Operation
  <2>2. TypeOK'
    BY <1>3, <2>1 DEF Request, ReadRequest, WriteRequest
  <2>3. DiskInv'
    BY <1>3, Zenon DEF Request
  <2>. QED  BY <2>2, <2>3, Zenon
<1>4. CASE Wakeup(t)
  BY <1>4 DEF Wakeup
<1>5. CASE Release(t)
  BY <1>5, Zenon DEF Release
<1> HIDE DEF SynchDiskAssumption, TypeOK, DiskInv, Goto
<1>. QED  BY <1>1, <1>2, <1>3, <1>4, <1>5, Zenon DEF OwnStep

(* The interrupt finds the thread that waits for it in P.                  *)
LEMMA CallBackInv ==
  ASSUME SynchDiskAssumption, TypeOK, DiskInv, CallBack
  PROVE  TypeOK' /\ DiskInv'
<1>1. holder \in Thread /\ pc[holder] = "wait" /\ semaphore = 0
  BY Zenon DEF CallBack, DiskInv, TypeOK
<1>2. /\ active' = FALSE /\ semaphore' = 1 /\ holder' = holder
      /\ UNCHANGED <<pc, op, data, sectors>>
  BY <1>1 DEF CallBack
<1>3. TypeOK'
  <2>1. active' \in BOOLEAN
    BY <1>2, Zenon
  <2>. QED  BY <1>2, <2>1 DEF TypeOK
<1>4. \A t \in Thread : pc[t] \in {"request", "wait", "release"} => pc[t] = "wait"
  BY <1>1, Zenon DEF DiskInv
<1>. QED  BY <1>1, <1>2, <1>3, <1>4, Zenon DEF DiskInv, SynchDiskAssumption

LEMMA NextInv ==
  ASSUME SynchDiskAssumption, TypeOK, DiskInv, [Next]_vars
  PROVE  TypeOK' /\ DiskInv'
<1>1. CASE UNCHANGED vars
  BY <1>1, Zenon DEF vars, TypeOK, DiskInv
<1>. QED  BY <1>1, ThreadInv, CallBackInv, Zenon DEF Next

(* The thread that waits is the holder of the lock, or there is none.      *)
LEMMA OneWaiter ==
  ASSUME SynchDiskAssumption, TypeOK, DiskInv
  PROVE  OneRequestAtATime /\ InterruptIsForTheWaiter
<1> DEFINE W == {t \in Thread : pc[t] = "wait"}
<1>1. CASE holder # NULL /\ pc[holder] = "wait"
  <2>1. W = {holder}
    BY <1>1, Zenon DEF TypeOK, DiskInv
  <2>2. Cardinality(W) = 1
    BY <2>1, FS_Singleton, Zenon
  <2>3. semaphore + (IF active THEN 1 ELSE 0) = 1
    BY <1>1 DEF TypeOK, DiskInv
  <2>. QED  BY <2>2, <2>3, Zenon DEF InterruptIsForTheWaiter, OneRequestAtATime, DiskInv
<1>2. CASE ~(holder # NULL /\ pc[holder] = "wait")
  <2>1. W = {}
    BY <1>2, Zenon DEF DiskInv, SynchDiskAssumption
  <2>2. Cardinality(W) = 0
    BY <2>1, FS_EmptySet, Zenon
  <2>3. semaphore + (IF active THEN 1 ELSE 0) = 0
    BY <1>2 DEF TypeOK, DiskInv
  <2>. QED  BY <2>2, <2>3, Zenon DEF InterruptIsForTheWaiter, OneRequestAtATime, DiskInv
<1>. QED  BY <1>1, <1>2, Zenon

-----------------------------------------------------------------------------
(* Requests take effect in Request, which moves the data; to a caller, the *)
(* lock, the interrupt and the semaphore are invisible.                    *)
LEMMA DoneMoves ==
  ASSUME TypeOK, NEW t \in Thread, NEW x, Goto(t, x)
  PROVE  Done' = IF x \in {"wait", "release"} THEN Done \cup {t} ELSE Done \ {t}
BY Zenon DEF TypeOK, Goto, Done

LEMMA NextRefines ==
  ASSUME SynchDiskAssumption, TypeOK, DiskInv, [Next]_vars
  PROVE  [Store!Next]_(Store!vars)
<1> USE DEF Store!vars
<1>1. ASSUME NEW t \in Thread, Call(t)
      PROVE  Store!Call(t)
  <2>1. op[t] = NULL /\ Done' = Done
    BY <1>1, DoneMoves DEF Call, Done, DiskInv
  <2>2. PICK o \in Operation, d \in Data :
          op' = [op EXCEPT ![t] = o] /\ data' = [data EXCEPT ![t] = d]
    BY <1>1, Zenon DEF Call
  <2>3. o \in Store!Operation /\ sectors' = sectors
    BY <1>1, Zenon DEF Call, Operation, Store!Operation
  <2>. QED  BY <2>1, <2>2, <2>3, Zenon DEF Store!Call
<1>2. ASSUME NEW t \in Thread, Acquire(t)
      PROVE  UNCHANGED Store!vars
  BY <1>2, DoneMoves DEF Acquire, Done
<1>3. ASSUME NEW t \in Thread, Request(t)
      PROVE  Store!Effect(t)
  BY <1>3, DoneMoves, Zenon
     DEF Request, ReadRequest, WriteRequest, Done, Store!Effect, DiskInv
<1>4. ASSUME NEW t \in Thread, Wakeup(t)
      PROVE  UNCHANGED Store!vars
  BY <1>4, DoneMoves, Zenon DEF Wakeup, Done
<1>5. ASSUME NEW t \in Thread, Release(t)
      PROVE  Store!Return(t)
  BY <1>5, DoneMoves, Zenon DEF Release, Done, Store!Return, DiskInv
<1>6. CASE CallBack
  BY <1>6, Zenon DEF CallBack, Done
<1>7. CASE UNCHANGED vars
  BY <1>7, Zenon DEF vars, Done
<1>. QED  BY <1>1, <1>2, <1>3, <1>4, <1>5, <1>6, <1>7, Zenon DEF Next, OwnStep, Store!Next

-----------------------------------------------------------------------------
(* For every set of threads and every disk: ASSERT(!active) holds in each  *)
(* request, each interrupt wakes the thread whose request has ended, and   *)
(* ReadSector and WriteSector are atomic.                                  *)
THEOREM DiskAtomic ==
  ASSUME SynchDiskAssumption
  PROVE  Spec => SectorsAreAtomic
<1>1. Init => TypeOK /\ DiskInv
  BY InitInv, Zenon
<1>2. TypeOK /\ DiskInv /\ [Next]_vars => (TypeOK /\ DiskInv)'
  BY NextInv, Zenon
<1>3. TypeOK /\ DiskInv => OneRequestAtATime /\ InterruptIsForTheWaiter
  BY OneWaiter, Zenon
<1>4. Init => Store!Init
  BY Zenon DEF Init, Store!Init, Done
<1>5. TypeOK /\ DiskInv /\ [Next]_vars => [Store!Next]_(Store!vars)
  BY NextRefines, Zenon
<1>. QED  BY <1>1, <1>2, <1>3, <1>4, <1>5, PTL
          DEF Spec, SectorsAreAtomic, ImplementsSectorStore, Store!Spec
-----------------------------------------------------------------------------
(* Where a character is: in one place of what may be typed (u), of the     *)
(* keyboard (k), incoming (i), the threads (h) and the display (d).        *)
Positions(s, c) == {j \in 1 .. Len(s) : s[j] = c}
With(h, c)      == {t \in Echoer : h[t] = c}
IsSingle(S)     == \E x : S = {x}

Once(c, u, k, i, h, d) ==
  LET K == Positions(k, c)
      T == With(h, c)
      D == Positions(d, c)
  IN  \/ c \in u    /\ K = {}      /\ i # c /\ T = {}      /\ D = {}
      \/ c \notin u /\ IsSingle(K) /\ i # c /\ T = {}      /\ D = {}
      \/ c \notin u /\ K = {}      /\ i = c /\ T = {}      /\ D = {}
      \/ c \notin u /\ K = {}      /\ i # c /\ IsSingle(T) /\ D = {}
      \/ c \notin u /\ K = {}      /\ i # c /\ T = {}      /\ IsSingle(D)

(* Appending to a list and removing its first element                      *)
LEMMA AppendPositions ==
  ASSUME NEW S, NEW s \in Seq(S), NEW x \in S, NEW c
  PROVE  Positions(Append(s, x), c) =
           IF x = c THEN Positions(s, c) \cup {Len(s) + 1} ELSE Positions(s, c)
<1>1. PICK a, n : a = Append(s, x) /\ n = Len(s)
  BY Zenon
<1>2. /\ Len(a) = n + 1 /\ n \in Nat /\ a[n + 1] = x
      /\ \A j \in 1 .. n : a[j] = s[j]
  BY <1>1
<1>3. 1 .. n + 1 = 1 .. n \cup {n + 1} /\ n + 1 \notin 1 .. n
  BY <1>2
<1>. QED  BY <1>1, <1>2, <1>3, Zenon DEF Positions

LEMMA TailPositions ==
  ASSUME NEW S, NEW s \in Seq(S), s # << >>, NEW c
  PROVE  /\ Positions(s, c) = {} => Positions(Tail(s), c) = {} /\ Head(s) # c
         /\ IsSingle(Positions(s, c)) =>
              IF Head(s) = c THEN Positions(Tail(s), c) = {}
                             ELSE IsSingle(Positions(Tail(s), c))
<1>1. PICK a, n : a = Tail(s) /\ n = Len(s)
  BY Zenon
<1>2. /\ Len(a) = n - 1 /\ n \in Nat \ {0} /\ Head(s) = s[1]
      /\ \A j \in 1 .. n - 1 : a[j] = s[j + 1]
  BY <1>1
<1>3. \A j \in 1 .. n - 1 : j \in Positions(a, c) <=> j + 1 \in Positions(s, c)
  BY <1>1, <1>2 DEF Positions
<1>4. Positions(a, c) \subseteq 1 .. n - 1 /\ Positions(s, c) \subseteq 1 .. n
  BY <1>1, <1>2, Zenon DEF Positions
<1>5. Head(s) = c <=> 1 \in Positions(s, c)
  BY <1>1, <1>2 DEF Positions
<1>6. ASSUME NEW j, Positions(s, c) = {j}
      PROVE  Positions(a, c) = IF j = 1 THEN {} ELSE {j - 1}
  BY <1>2, <1>3, <1>4, <1>6
<1>. QED  BY <1>1, <1>3, <1>4, <1>5, <1>6, Zenon DEF IsSingle

(* A character that is in one of the five is in one place.                 *)
LEMMA OncePlace ==
  ASSUME NEW c, Once(c, unread, keyboard, incoming, ch, display)
  PROVE  \E p \in Places(c) : Places(c) = {p}
<1>1. ASSUME NEW g, NEW S
      PROVE  /\ S = {} => {<<g, x>> : x \in S} = {}
             /\ IsSingle(S) => IsSingle({<<g, x>> : x \in S})
  <2>1. ASSUME NEW y, S = {y}
        PROVE  {<<g, x>> : x \in S} = {<<g, y>>}
    BY <2>1, Zenon
  <2>2. S = {} => {<<g, x>> : x \in S} = {}
    BY Zenon
  <2>. QED  BY <2>1, <2>2, Zenon DEF IsSingle
<1> DEFINE U == {<<"unread", 1>> : x \in {c} \cap unread}
           K == {<<"keyboard", i>> : i \in Positions(keyboard, c)}
           I == {<<"incoming", 1>> : x \in {c} \cap {incoming}}
           T == {<<"thread", t>> : t \in With(ch, c)}
           D == {<<"display", i>> : i \in Positions(display, c)}
<1>2. Places(c) = U \cup K \cup I \cup T \cup D
  BY Zenon DEF Places, Positions, With
<1>3. (c \notin unread => U = {}) /\ (c \in unread => U = {<<"unread", 1>>})
  BY Zenon
<1>4. /\ Positions(keyboard, c) = {} => K = {}
      /\ IsSingle(Positions(keyboard, c)) => IsSingle(K)
  BY <1>1, Zenon
<1>5. (incoming # c => I = {}) /\ (incoming = c => I = {<<"incoming", 1>>})
  BY Zenon
<1>6. (With(ch, c) = {} => T = {}) /\ (IsSingle(With(ch, c)) => IsSingle(T))
  BY <1>1, Zenon
<1>7. /\ Positions(display, c) = {} => D = {}
      /\ IsSingle(Positions(display, c)) => IsSingle(D)
  BY <1>1, Zenon
<1> HIDE DEF U, K, I, T, D
<1>8. IsSingle(Places(c))
  BY <1>2, <1>3, <1>4, <1>5, <1>6, <1>7, Zenon DEF Once, IsSingle
<1>. QED  BY <1>8, Zenon DEF IsSingle
(* The inductive invariant of the console: the locks go with the places of *)
(* their holders; polling, a character that GetChar is about to be woken   *)
(* for, and one that it is about to take exclude each other, as do an      *)
(* output interrupt and its count; and a thread has a character from       *)
(* GetChar to PutChar.                                                     *)
ConsoleInv ==
  /\ \A t \in Echoer :
       /\ inHolder = t <=> consolePc[t] \in {"waitChar", "take"}
       /\ outHolder = t <=> consolePc[t] \in {"write", "waitPut", "putDone"}
       /\ consolePc[t] = "take" => ~polling /\ inWaitFor = 0
       /\ consolePc[t] \in {"write", "putDone"} => ~putBusy /\ outWaitFor = 0
       /\ consolePc[t] = "waitPut" => \/ putBusy /\ outWaitFor = 0
                                      \/ ~putBusy /\ outWaitFor = 1
       /\ ch[t] \in Char <=> consolePc[t] \in {"put", "write"}
  /\ polling => incoming = EOF /\ inWaitFor = 0
  /\ outHolder = None => ~putBusy /\ outWaitFor = 0

CharsInv == \A c \in Char \cap Byte : Once(c, unread, keyboard, incoming, ch, display)

LEMMA ConsoleInitInv ==
  ASSUME ConsoleAssumption, ConsoleInit
  PROVE  ConsoleTypeOK /\ ConsoleInv /\ CharsInv
<1>1. ~putBusy /\ {closed, polling, putBusy} \subseteq BOOLEAN
  BY Zenon DEF ConsoleInit
<1>2. ConsoleTypeOK
  BY <1>1 DEF ConsoleInit, ConsoleTypeOK, Location, ConsoleAssumption
<1>3. ConsoleInv
  BY <1>1, Zenon DEF ConsoleInit, ConsoleInv, ConsoleAssumption
<1>4. ASSUME NEW c \in Char \cap Byte
      PROVE  Once(c, unread, keyboard, incoming, ch, display)
  <2>1. Positions(keyboard, c) = {} /\ Positions(display, c) = {}
    BY DEF ConsoleInit, Positions
  <2>2. c \in unread /\ incoming # c /\ With(ch, c) = {}
    BY Zenon DEF ConsoleInit, With, ConsoleAssumption
  <2>. QED  BY <2>1, <2>2, Zenon DEF Once
<1>. QED  BY <1>2, <1>3, <1>4, Zenon DEF CharsInv

LEMMA TypeStep ==
  ASSUME ConsoleAssumption, ConsoleTypeOK, ConsoleInv, CharsInv,
         NEW b \in Byte, Type(b)
  PROVE  ConsoleTypeOK' /\ ConsoleInv' /\ CharsInv'
<1>1. /\ b \in unread /\ keyboard' = Append(keyboard, b) /\ unread' = unread \ {b}
      /\ UNCHANGED <<closed, polling, incoming, inHolder, inWaitFor>>
      /\ UNCHANGED <<display, putBusy, outHolder, outWaitFor, consolePc, ch>>
  BY Zenon DEF Type, inVars, outVars
<1>2. ConsoleTypeOK'
  BY <1>1 DEF ConsoleTypeOK
<1>3. ConsoleInv'
  BY <1>1, Zenon DEF ConsoleInv
<1>4. ASSUME NEW c \in Char \cap Byte
      PROVE  Once(c, unread', keyboard', incoming, ch, display)
  <2>1. /\ Once(c, unread, keyboard, incoming, ch, display)
        /\ Positions(keyboard', c) = IF b = c THEN Positions(keyboard, c) \cup {Len(keyboard) + 1}
                                              ELSE Positions(keyboard, c)
    BY <1>1, AppendPositions DEF CharsInv, ConsoleTypeOK
  <2>2. CASE b = c
    <3>1. Positions(keyboard', c) = {Len(keyboard) + 1} /\ c \notin unread'
      BY <1>1, <2>1, <2>2, Zenon DEF Once
    <3>. QED  BY <1>1, <2>1, <2>2, <3>1, Zenon DEF Once, IsSingle
  <2>3. CASE b # c
    BY <1>1, <2>1, <2>3, Zenon DEF Once
  <2>. QED  BY <2>2, <2>3, Zenon
<1>. QED  BY <1>1, <1>2, <1>3, <1>4, Zenon DEF CharsInv

LEMMA InputStep ==
  ASSUME ConsoleAssumption, ConsoleTypeOK, ConsoleInv, CharsInv,
         InputCallBack
  PROVE  ConsoleTypeOK' /\ ConsoleInv' /\ CharsInv'
<1>0. /\ polling /\ incoming = EOF /\ inWaitFor = 0
      /\ \A t \in Echoer : consolePc[t] # "take"
      /\ UNCHANGED <<unread, closed, inHolder, display, putBusy, outHolder, outWaitFor>>
      /\ UNCHANGED <<consolePc, ch>>
  BY Zenon DEF InputCallBack, inVars, outVars, ConsoleInv
<1>1. CASE UNCHANGED <<keyboard, polling, incoming, inWaitFor>>
  BY <1>0, <1>1, Zenon DEF ConsoleTypeOK, ConsoleInv, CharsInv
<1>2. ASSUME polling' = FALSE, inWaitFor' = 1
      PROVE  /\ keyboard' \in Seq(Byte) /\ incoming' \in Char \cup {EOF} =>
                  ConsoleTypeOK'
             /\ ConsoleInv'
  <2>1. ~polling' /\ polling' \in BOOLEAN
    BY <1>2, Zenon
  <2>. QED  BY <1>0, <1>2, <2>1 DEF ConsoleTypeOK, ConsoleInv
<1>3. CASE polling' = FALSE /\ inWaitFor' = 1 /\ UNCHANGED <<keyboard, incoming>>
  BY <1>0, <1>2, <1>3, Zenon DEF CharsInv, ConsoleTypeOK
<1>4. CASE /\ polling' = FALSE /\ inWaitFor' = 1
           /\ keyboard # << >> /\ keyboard' = Tail(keyboard) /\ incoming' = Head(keyboard)
  <2>1. keyboard' \in Seq(Byte) /\ incoming' \in Char \cup {EOF}
    BY <1>4 DEF ConsoleTypeOK, ConsoleAssumption
  <2>2. ASSUME NEW c \in Char \cap Byte
        PROVE  Once(c, unread, keyboard', incoming', ch, display)
    <3>1. /\ Once(c, unread, keyboard, incoming, ch, display) /\ incoming # c
          /\ Positions(keyboard, c) = {} =>
               Positions(keyboard', c) = {} /\ incoming' # c
          /\ IsSingle(Positions(keyboard, c)) =>
               IF incoming' = c THEN Positions(keyboard', c) = {}
                                ELSE IsSingle(Positions(keyboard', c))
      BY <1>0, <1>4, TailPositions, SMTT(30)
         DEF CharsInv, ConsoleTypeOK, ConsoleAssumption
    <3>. QED  BY <3>1, Zenon DEF Once
  <2>. QED  BY <1>0, <1>2, <1>4, <2>1, <2>2, Zenon DEF CharsInv
<1>5. CASE ~PollFile
  BY <1>1, <1>5, Zenon DEF InputCallBack, inVars
<1>6. CASE PollFile
  <2>1. /\ polling' = FALSE
        /\ \/ UNCHANGED <<keyboard, incoming>>
           \/ keyboard # << >> /\ keyboard' = Tail(keyboard) /\ incoming' = Head(keyboard)
    BY <1>6, Zenon DEF InputCallBack
  <2>2. inWaitFor' = 1
    BY <1>0, <1>6 DEF InputCallBack
  <2>. QED  BY <1>3, <1>4, <2>1, <2>2, Zenon
<1>. QED  BY <1>5, <1>6, Zenon
(* The lock, and the semaphore, of GetChar                                 *)
LEMMA GetStep ==
  ASSUME ConsoleAssumption, ConsoleTypeOK, ConsoleInv, CharsInv,
         NEW t \in Echoer, GetAcquire(t) \/ GetWakeup(t)
  PROVE  ConsoleTypeOK' /\ ConsoleInv' /\ CharsInv'
<1>1. /\ UNCHANGED <<keyboard, unread, closed, polling, incoming>>
      /\ UNCHANGED <<display, putBusy, outHolder, outWaitFor, ch>>
  BY Zenon DEF GetAcquire, GetWakeup, kbdVars, outVars
<1>2. CharsInv'
  BY <1>1, Zenon DEF CharsInv
<1>3. CASE GetAcquire(t)
  BY <1>1, <1>2, <1>3
     DEF GetAcquire, ConsoleGoto, ConsoleTypeOK, Location, ConsoleInv,
         ConsoleAssumption
<1>4. CASE GetWakeup(t)
  <2>1. ~polling /\ inWaitFor = 1
    BY <1>4 DEF GetWakeup, ConsoleTypeOK, ConsoleInv
  <2>. QED  BY <1>1, <1>2, <1>4, <2>1
            DEF GetWakeup, ConsoleGoto, ConsoleTypeOK, Location, ConsoleInv
<1>. QED  BY <1>3, <1>4, Zenon

(* ConsoleInput::GetChar moves the character to the thread, if there is    *)
(* one, and only then starts to poll again.                                *)
LEMMA GetCharStep ==
  ASSUME ConsoleAssumption, ConsoleTypeOK, ConsoleInv, CharsInv,
         NEW t \in Echoer, GetChar(t)
  PROVE  ConsoleTypeOK' /\ ConsoleInv' /\ CharsInv'
<1>1. /\ consolePc[t] = "take" /\ ch' = [ch EXCEPT ![t] = incoming]
      /\ incoming' = EOF /\ inHolder' = None
      /\ UNCHANGED <<keyboard, unread, closed, inWaitFor>>
      /\ UNCHANGED <<display, putBusy, outHolder, outWaitFor>>
  BY Zenon DEF GetChar, kbdVars, outVars
<1>2. polling' \in BOOLEAN
  BY Zenon DEF GetChar
<1>3. ch'[t] = incoming /\ \A u \in Echoer \ {t} : ch'[u] = ch[u]
  BY <1>1, Zenon DEF ConsoleTypeOK
<1>4. consolePc' = [consolePc EXCEPT ![t] = IF incoming = EOF THEN "done" ELSE "put"]
  BY <1>3, Zenon DEF GetChar, ConsoleGoto
<1>5. ConsoleTypeOK'
  BY <1>1, <1>2, <1>4, Zenon DEF ConsoleTypeOK, Location
<1>6. inWaitFor = 0 /\ ch[t] \notin Char /\ incoming \in Char \cup {EOF}
  BY <1>1, Zenon DEF ConsoleInv, ConsoleTypeOK
<1>7. ConsoleInv'
  BY <1>1, <1>3, <1>4, <1>6 DEF ConsoleInv, ConsoleTypeOK, ConsoleAssumption
<1>8. ASSUME NEW c \in Char \cap Byte
      PROVE  Once(c, unread, keyboard, incoming', ch', display)
  <2>1. Once(c, unread, keyboard, incoming, ch, display) /\ incoming' # c /\ ch[t] # c
    BY <1>1, <1>6, Zenon DEF CharsInv, ConsoleAssumption
  <2>2. With(ch', c) = IF incoming = c THEN With(ch, c) \cup {t} ELSE With(ch, c)
    BY <1>3, <2>1, Zenon DEF With
  <2>. QED  BY <2>1, <2>2, Zenon DEF Once, IsSingle
<1>. QED  BY <1>1, <1>5, <1>7, <1>8, Zenon DEF CharsInv

(* The lock, the semaphore and the interrupt of PutChar                    *)
LEMMA PutStep ==
  ASSUME ConsoleAssumption, ConsoleTypeOK, ConsoleInv, CharsInv,
         NEW t \in Echoer,
         PutAcquire(t) \/ PutWakeup(t) \/ PutRelease(t)
  PROVE  ConsoleTypeOK' /\ ConsoleInv' /\ CharsInv'
<1>1. /\ UNCHANGED <<keyboard, unread, closed, polling, incoming, inHolder, inWaitFor>>
      /\ UNCHANGED <<display, putBusy, ch>>
  BY Zenon DEF PutAcquire, PutWakeup, PutRelease,
         kbdVars, inVars
<1>2. CharsInv'
  BY <1>1, Zenon DEF CharsInv
<1>3. CASE PutAcquire(t)
  BY <1>1, <1>2, <1>3
     DEF PutAcquire, ConsoleGoto, ConsoleTypeOK, Location, ConsoleInv,
         ConsoleAssumption
<1>4. CASE PutWakeup(t)
  <2>1. ~putBusy /\ outWaitFor = 1
    BY <1>4 DEF PutWakeup, ConsoleTypeOK, ConsoleInv
  <2>. QED  BY <1>1, <1>2, <1>4, <2>1
            DEF PutWakeup, ConsoleGoto, ConsoleTypeOK, Location, ConsoleInv
<1>5. CASE PutRelease(t)
  BY <1>1, <1>2, <1>5
     DEF PutRelease, ConsoleGoto, ConsoleTypeOK, Location, ConsoleInv,
         ConsoleAssumption
<1>. QED  BY <1>3, <1>4, <1>5, Zenon
(* ConsoleOutput::PutChar finds the device idle and shows the character.   *)
LEMMA PutCharStep ==
  ASSUME ConsoleAssumption, ConsoleTypeOK, ConsoleInv, CharsInv,
         NEW t \in Echoer, PutChar(t)
  PROVE  ConsoleTypeOK' /\ ConsoleInv' /\ CharsInv'
<1>1. /\ consolePc[t] = "write" /\ display' = Append(display, ch[t])
      /\ ch' = [ch EXCEPT ![t] = None] /\ consolePc' = [consolePc EXCEPT ![t] = "waitPut"]
      /\ UNCHANGED <<keyboard, unread, closed, polling, incoming, inHolder, inWaitFor>>
      /\ UNCHANGED <<outHolder, outWaitFor>>
  BY Zenon DEF PutChar, ConsoleGoto, kbdVars, inVars
<1>2. putBusy' /\ putBusy' \in BOOLEAN
  BY Zenon DEF PutChar
<1>3. ch[t] \in Char /\ outWaitFor = 0
  BY <1>1, Zenon DEF ConsoleInv
<1>4. ch'[t] = None /\ \A u \in Echoer \ {t} : ch'[u] = ch[u]
  BY <1>1, Zenon DEF ConsoleTypeOK
<1>5. ConsoleTypeOK'
  BY <1>1, <1>2, <1>3 DEF ConsoleTypeOK, Location
<1>6. ConsoleInv'
  BY <1>1, <1>2, <1>3, <1>4 DEF ConsoleInv, ConsoleTypeOK, ConsoleAssumption
<1>7. ASSUME NEW c \in Char \cap Byte
      PROVE  Once(c, unread, keyboard, incoming, ch', display')
  <2>1. /\ Once(c, unread, keyboard, incoming, ch, display)
        /\ Positions(display', c) = IF ch[t] = c THEN Positions(display, c) \cup {Len(display) + 1}
                                                 ELSE Positions(display, c)
    BY <1>1, <1>3, AppendPositions DEF CharsInv, ConsoleTypeOK
  <2>2. With(ch', c) = With(ch, c) \ {t} /\ (t \in With(ch, c) <=> ch[t] = c)
    BY <1>4, Zenon DEF With, ConsoleAssumption
  <2>3. CASE ch[t] = c
    <3>1. With(ch', c) = {} /\ Positions(display', c) = {Len(display) + 1}
      BY <2>1, <2>2, <2>3, Zenon DEF Once, IsSingle
    <3>. QED  BY <2>1, <2>2, <2>3, <3>1, Zenon DEF Once, IsSingle
  <2>4. CASE ch[t] # c
    <3>1. With(ch', c) = With(ch, c) /\ Positions(display', c) = Positions(display, c)
      BY <2>1, <2>2, <2>4, Zenon
    <3>. QED  BY <2>1, <3>1, Zenon DEF Once
  <2>. QED  BY <2>3, <2>4, Zenon
<1>. QED  BY <1>1, <1>5, <1>6, <1>7, Zenon DEF CharsInv

(* The output interrupt finds the thread that waits for it in P.           *)
LEMMA OutputStep ==
  ASSUME ConsoleAssumption, ConsoleTypeOK, ConsoleInv, CharsInv,
         OutputCallBack
  PROVE  ConsoleTypeOK' /\ ConsoleInv' /\ CharsInv'
<1>1. /\ UNCHANGED <<keyboard, unread, closed, polling, incoming, inHolder, inWaitFor>>
      /\ UNCHANGED <<display, outHolder, consolePc, ch>>
  BY Zenon DEF OutputCallBack, kbdVars, inVars
<1>2. ~putBusy' /\ putBusy' \in BOOLEAN
  BY Zenon DEF OutputCallBack
<1>3. outHolder \in Echoer /\ consolePc[outHolder] = "waitPut" /\ outWaitFor = 0
  BY Zenon DEF OutputCallBack, ConsoleInv, ConsoleTypeOK
<1>4. outWaitFor' = 1
  BY <1>3 DEF OutputCallBack
<1>5. \A t \in Echoer : consolePc[t] \in {"write", "waitPut", "putDone"} => consolePc[t] = "waitPut"
  BY <1>3, Zenon DEF ConsoleInv
<1>6. ConsoleTypeOK'
  BY <1>1, <1>2, <1>4 DEF ConsoleTypeOK
<1>7. ConsoleInv'
  BY <1>1, <1>2, <1>3, <1>4, <1>5, Zenon DEF ConsoleInv, ConsoleAssumption
<1>. QED  BY <1>1, <1>6, <1>7, Zenon DEF CharsInv

LEMMA ConsoleStep ==
  ASSUME ConsoleAssumption, ConsoleTypeOK, ConsoleInv, CharsInv,
         [ConsoleNext]_(consoleVars)
  PROVE  ConsoleTypeOK' /\ ConsoleInv' /\ CharsInv'
<1>1. CASE CloseInput
  <2>1. closed' \in BOOLEAN
    BY <1>1, Zenon DEF CloseInput
  <2>2. /\ UNCHANGED <<keyboard, unread, polling, incoming, inHolder, inWaitFor>>
        /\ UNCHANGED <<display, putBusy, outHolder, outWaitFor, consolePc, ch>>
    BY <1>1, Zenon DEF CloseInput, inVars, outVars
  <2>. QED  BY <2>1, <2>2, Zenon DEF ConsoleTypeOK, ConsoleInv, CharsInv
<1>2. CASE UNCHANGED consoleVars
  BY <1>2 DEF consoleVars, kbdVars, inVars, outVars,
              ConsoleTypeOK, ConsoleInv, CharsInv
<1>. QED  BY <1>1, <1>2, TypeStep, InputStep, GetStep, GetCharStep, PutStep, PutCharStep,
             OutputStep DEF ConsoleNext, EchoStep

-----------------------------------------------------------------------------
(* For any number of threads that echo any characters: the assertions of   *)
(* ConsoleInput::CallBack and ConsoleOutput::PutChar hold, and a character *)
(* is neither lost nor read or shown twice.                                *)
THEOREM EchoExact ==
  ASSUME ConsoleAssumption
  PROVE  ConsoleSpec => []EchoIsExact
<1> DEFINE Inv == ConsoleTypeOK /\ ConsoleInv /\ CharsInv
<1>1. ConsoleInit => Inv
  BY ConsoleInitInv, Zenon
<1>2. Inv /\ [ConsoleNext]_(consoleVars) => Inv'
  BY ConsoleStep, Zenon
<1>3. Inv => EchoIsExact
  <2>1. Inv => NoOverrun
    BY Zenon DEF ConsoleInv, NoOverrun
  <2>2. Inv => EveryCharOnce
    BY OncePlace, Zenon DEF CharsInv, EveryCharOnce
  <2>. QED  BY <2>1, <2>2, Zenon DEF EchoIsExact
<1>. QED  BY <1>1, <1>2, <1>3, PTL DEF ConsoleSpec
=============================================================================

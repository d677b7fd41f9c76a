---------------------------- MODULE SynchConsole ----------------------------
(***************************************************************************)
(* SynchConsoleInput and SynchConsoleOutput (userprog/synchconsole.cc)     *)
(* over the keyboard and the display of machine/console.cc, used by        *)
(* threads that run Kernel::ConsoleTest: read a character, echo it, until  *)
(* the end of the input.                                                   *)
(*                                                                         *)
(* The locks are those of module Condition and the semaphores those of     *)
(* module Semaphore; a thread loses the CPU only at the end of a P or V.   *)
(***************************************************************************)
EXTENDS Naturals, Sequences

CONSTANTS Echoer,  \* the threads that run ConsoleTest
          Char, EOF, None,
          Byte   \* what may be typed: characters, each at most once (a bound),
                 \* and perhaps the byte 0xFF, which as a char equals EOF

ConsoleAssumption ==
  /\ EOF \notin Char /\ Byte \subseteq Char \cup {EOF}
  /\ None \notin Echoer /\ None \notin Char

VARIABLES
  keyboard,   \* what has been typed and not been read from the UNIX file
  unread,     \* the bytes that may still be typed
  closed,     \* whether the end of the input has been typed
  polling,    \* whether the interrupt of ConsoleInput is pending
  incoming,   \* ConsoleInput::incoming
  inHolder,   \* the thread that holds SynchConsoleInput::lock
  inWaitFor,  \* the value of SynchConsoleInput::waitFor
  display,    \* what has been written to the UNIX file
  putBusy,    \* ConsoleOutput::putBusy, and its interrupt is pending
  outHolder,  \* the thread that holds SynchConsoleOutput::lock
  outWaitFor, \* the value of SynchConsoleOutput::waitFor
  consolePc, ch  \* where each thread is, and its local variable ch

kbdVars == <<keyboard, unread, closed>>
inVars  == <<polling, incoming, inHolder, inWaitFor>>
outVars == <<display, putBusy, outHolder, outWaitFor>>
consoleVars == <<kbdVars, inVars, outVars, consolePc, ch>>

(* In GetChar: get (before the lock), waitChar (in P), take (back from P). *)
(* In PutChar: put, write (holding the lock), waitPut, putDone.            *)
Location == {"get", "waitChar", "take", "put", "write", "waitPut", "putDone", "done"}

ConsoleTypeOK ==
  /\ keyboard \in Seq(Byte) /\ unread \subseteq Byte /\ closed \in BOOLEAN
  /\ polling \in BOOLEAN /\ incoming \in Char \cup {EOF}
  /\ {inHolder, outHolder} \subseteq Echoer \cup {None}
  /\ inWaitFor \in 0 .. 1 /\ outWaitFor \in 0 .. 1
  /\ display \in Seq(Char) /\ putBusy \in BOOLEAN
  /\ consolePc \in [Echoer -> Location] /\ ch \in [Echoer -> Char \cup {EOF, None}]

(* The constructors; ConsoleInput starts to poll.                          *)
ConsoleInit ==
  /\ keyboard = << >> /\ unread = Byte /\ closed = FALSE
  /\ polling = TRUE /\ incoming = EOF /\ inHolder = None /\ inWaitFor = 0
  /\ display = << >> /\ putBusy = FALSE /\ outHolder = None /\ outWaitFor = 0
  /\ consolePc = [t \in Echoer |-> "get"]
  /\ ch = [t \in Echoer |-> None]

ConsoleGoto(t, where) == consolePc' = [consolePc EXCEPT ![t] = where]

-----------------------------------------------------------------------------
(* The user types a character, or ends the input.                          *)
Type(b) ==
  /\ ~closed /\ b \in unread
  /\ keyboard' = Append(keyboard, b)
  /\ unread' = unread \ {b}
  /\ UNCHANGED <<closed, inVars, outVars, consolePc, ch>>

CloseInput ==
  /\ ~closed
  /\ closed' = TRUE
  /\ UNCHANGED <<keyboard, unread, inVars, outVars, consolePc, ch>>

(* PollFile: there is a byte to be read, or the end of the file.           *)
PollFile == keyboard # << >> \/ closed

(* Mutant of InputCallBack: polling goes on after a character was read.    *)
InputCallBackPolling ==
  /\ polling
  /\ \/ /\ ~PollFile
        /\ UNCHANGED <<keyboard, inVars>>
     \/ /\ PollFile
        /\ IF keyboard = << >> THEN UNCHANGED <<keyboard, incoming>>
           ELSE keyboard' = Tail(keyboard) /\ incoming' = Head(keyboard)
        /\ inWaitFor' = inWaitFor + 1
        /\ UNCHANGED <<polling, inHolder>>
  /\ UNCHANGED <<unread, closed, outVars, consolePc, ch>>

(* Mutant of InputCallBack: the handler is not called at end of file.      *)
InputCallBackSilentEnd ==
  /\ polling
  /\ \/ /\ ~PollFile
        /\ UNCHANGED <<keyboard, inVars>>
     \/ /\ PollFile
        /\ polling' = FALSE
        /\ IF keyboard = << >> THEN UNCHANGED <<keyboard, incoming, inWaitFor>>
           ELSE /\ keyboard' = Tail(keyboard) /\ incoming' = Head(keyboard)
                /\ inWaitFor' = inWaitFor + 1
        /\ UNCHANGED inHolder
  /\ UNCHANGED <<unread, closed, outVars, consolePc, ch>>

(* ConsoleInput::CallBack: polls again, or reads a byte (none at the end   *)
(* of the file) and calls SynchConsoleInput::CallBack.                     *)
InputCallBack ==
  /\ polling
  /\ \/ /\ ~PollFile
        /\ UNCHANGED <<keyboard, inVars>>
     \/ /\ PollFile
        /\ polling' = FALSE
        /\ IF keyboard = << >> THEN UNCHANGED <<keyboard, incoming>>
           ELSE keyboard' = Tail(keyboard) /\ incoming' = Head(keyboard)
        /\ inWaitFor' = inWaitFor + 1
        /\ UNCHANGED inHolder
  /\ UNCHANGED <<unread, closed, outVars, consolePc, ch>>

(* SynchConsoleInput::GetChar, up to its P, from there to the return of P, *)
(* and to its end.  ConsoleTest echoes the character or ends.              *)
GetAcquire(t) ==
  /\ consolePc[t] = "get" /\ inHolder = None
  /\ inHolder' = t
  /\ ConsoleGoto(t, "waitChar")
  /\ UNCHANGED <<kbdVars, polling, incoming, inWaitFor, outVars, ch>>

GetWakeup(t) ==
  /\ consolePc[t] = "waitChar" /\ inWaitFor > 0
  /\ inWaitFor' = inWaitFor - 1
  /\ ConsoleGoto(t, "take")
  /\ UNCHANGED <<kbdVars, polling, incoming, inHolder, outVars, ch>>

(* Mutant of GetChar: incoming is cleared before it is read.               *)
GetCharCleared(t) ==
  /\ consolePc[t] = "take"
  /\ incoming' = EOF
  /\ ch' = [ch EXCEPT ![t] = incoming']
  /\ polling' = (polling \/ incoming # EOF)
  /\ inHolder' = None
  /\ ConsoleGoto(t, IF ch'[t] = EOF THEN "done" ELSE "put")
  /\ UNCHANGED <<kbdVars, inWaitFor, outVars>>

(* ConsoleInput::GetChar, lock->Release and the test of ConsoleTest.       *)
GetChar(t) ==
  /\ consolePc[t] = "take"
  /\ ch' = [ch EXCEPT ![t] = incoming]
  /\ polling' = (polling \/ incoming # EOF)
  /\ incoming' = EOF
  /\ inHolder' = None
  /\ ConsoleGoto(t, IF ch'[t] = EOF THEN "done" ELSE "put")
  /\ UNCHANGED <<kbdVars, inWaitFor, outVars>>

(* SynchConsoleOutput::PutChar: its Acquire, ConsoleOutput::PutChar and    *)
(* the call of P, the return of P, Release.                                *)
PutAcquire(t) ==
  /\ consolePc[t] = "put" /\ outHolder = None
  /\ outHolder' = t
  /\ ConsoleGoto(t, "write")
  /\ UNCHANGED <<kbdVars, inVars, display, putBusy, outWaitFor, ch>>

PutChar(t) ==
  /\ consolePc[t] = "write"
  /\ display' = Append(display, ch[t])
  /\ ch' = [ch EXCEPT ![t] = None]
  /\ putBusy' = TRUE
  /\ ConsoleGoto(t, "waitPut")
  /\ UNCHANGED <<kbdVars, inVars, outHolder, outWaitFor>>

(* ConsoleOutput::CallBack, which calls SynchConsoleOutput::CallBack.      *)
OutputCallBack ==
  /\ putBusy
  /\ putBusy' = FALSE
  /\ outWaitFor' = outWaitFor + 1
  /\ UNCHANGED <<kbdVars, inVars, display, outHolder, consolePc, ch>>

PutWakeup(t) ==
  /\ consolePc[t] = "waitPut" /\ outWaitFor > 0
  /\ outWaitFor' = outWaitFor - 1
  /\ ConsoleGoto(t, "putDone")
  /\ UNCHANGED <<kbdVars, inVars, display, putBusy, outHolder, ch>>

PutRelease(t) ==
  /\ consolePc[t] = "putDone"
  /\ outHolder' = None
  /\ ConsoleGoto(t, "get")
  /\ UNCHANGED <<kbdVars, inVars, display, putBusy, outWaitFor, ch>>

EchoStep(t) ==
  GetWakeup(t) \/ GetChar(t) \/ PutChar(t) \/ PutWakeup(t) \/ PutRelease(t)

ConsoleNext ==
  \/ \E b \in Byte : Type(b)
  \/ CloseInput \/ InputCallBack \/ OutputCallBack
  \/ \E t \in Echoer : GetAcquire(t) \/ PutAcquire(t) \/ EchoStep(t)

ConsoleSpec == ConsoleInit /\ [][ConsoleNext]_consoleVars

(* Pending interrupts come, ready threads run, a free lock is taken by     *)
(* some waiting thread.  The user need not type anything.                  *)
ConsoleFairness ==
  /\ WF_consoleVars(InputCallBack) /\ WF_consoleVars(OutputCallBack)
  /\ WF_consoleVars(\E t \in Echoer : GetAcquire(t))
  /\ WF_consoleVars(\E t \in Echoer : PutAcquire(t))
  /\ \A t \in Echoer : WF_consoleVars(EchoStep(t))

-----------------------------------------------------------------------------
(* ASSERT(incoming == EOF) of ConsoleInput::CallBack and                   *)
(* ASSERT(putBusy == FALSE) of ConsoleOutput::PutChar: no character is     *)
(* overrun, on the way in or out.                                          *)
NoOverrun ==
  /\ polling => incoming = EOF
  /\ \A t \in Echoer : consolePc[t] = "write" => ~putBusy

(* Where a character may be on its way from the keyboard to the display.   *)
Places(c) ==
  {<<"unread", 1>> : x \in {c} \cap unread}
    \cup {<<"keyboard", i>> : i \in {j \in 1 .. Len(keyboard) : keyboard[j] = c}}
    \cup {<<"incoming", 1>> : x \in {c} \cap {incoming}}
    \cup {<<"thread", t>> : t \in {u \in Echoer : ch[u] = c}}
    \cup {<<"display", i>> : i \in {j \in 1 .. Len(display) : display[j] = c}}

(* No character is lost, read twice or shown twice, whichever threads read *)
(* and write between its interrupts.                                       *)
EveryCharOnce == \A c \in Char \cap Byte : \E p \in Places(c) : Places(c) = {p}

(* ConsoleTest, in any number of threads: no character is overrun, lost or *)
(* shown twice on its way through the one-character buffers.               *)
EchoIsExact == ConsoleTypeOK /\ NoOverrun /\ EveryCharOnce

(* Once the input has ended, all that was typed is displayed and           *)
(* ConsoleTest ends, in the thread that reads the end.                     *)
EchoEnds ==
  closed ~> /\ \E t \in Echoer : consolePc[t] = "done"
            /\ \A c \in (Char \cap Byte) \ unread :
                 \E i \in 1 .. Len(display) : display[i] = c
=============================================================================

----------------------------- MODULE MCProgress -----------------------------
(***************************************************************************)
(* The parts whose threads wait for devices and for each other, for TLC.   *)
(* A behaviour is one of a single part; the others are at their end, where *)
(* they have nothing to do.                                                *)
(***************************************************************************)
EXTENDS SynchDisk, SynchConsole, Interrupt

VARIABLES
  part,   \* the part that runs: "disk", "console", "interrupt", "network" or "self test"
  power, socket, inHdr, avail, worker, boxes, sendHolder, sendInt, sent,
  clientPc, msg, tries, handed, lost, received, step,
  selfAt, loop, value, waiting, list, listHolder, alive

networkVars  == <<power, socket, inHdr, avail, worker, boxes, sendHolder, sendInt, sent,
                  clientPc, msg, tries, handed, lost, received, step>>
selfVars     == <<selfAt, loop, value, waiting, list, listHolder, alive>>
progressVars == <<part, vars, consoleVars, interruptVars, networkVars, selfVars>>

-----------------------------------------------------------------------------
(* Machines 0 and 1, with a thread each.  A packet may be lost, and a      *)
(* machine may be started late, after the tries of the other one.          *)
Messages == [from : {0, 1}, to : {0, 1}, box : {0, 1}, reply : {1},
             id : {"Hello there!", "Got it!"}]
Test == INSTANCE NetworkTest
          WITH Machine <- {0, 1}, Client <- {0, 1}, Host <- [t \in {0, 1} |-> t],
               Box <- {0, 1}, Message <- Messages, Reliability <- 50, MaxTries <- 2,
               holder <- sendHolder, pc <- clientPc

(* The loops of the code                                                   *)
Self == INSTANCE SelfTest WITH Rounds <- 10, Loops <- 5, at <- selfAt

ASSUME
  /\ SynchDiskAssumption /\ ConsoleAssumption
  /\ Test!PostOfficeAssumption /\ Self!SelfTestAssumption

-----------------------------------------------------------------------------
(* The ends: no request, the input closed, no interrupt pending and the    *)
(* machine idle, the machines of the network halted, the tests over.       *)
DiskEnd ==
  /\ Init
  /\ LET d == CHOOSE d \in Data : TRUE
     IN  data = [t \in Thread |-> d] /\ sectors = [s \in Sector |-> d]
ConsoleEnd ==
  /\ keyboard = << >> /\ unread = Byte /\ closed = TRUE
  /\ polling = FALSE /\ incoming = EOF /\ inHolder = None /\ inWaitFor = 0
  /\ display = << >> /\ putBusy = FALSE /\ outHolder = None /\ outWaitFor = 0
  /\ consolePc = [t \in Echoer |-> "done"] /\ ch = [t \in Echoer |-> None]
InterruptEnd ==
  /\ at = "halted" /\ pending = << >> /\ disable = TRUE
  /\ level = "IntOff" /\ status = "IdleMode" /\ inHandler = FALSE /\ yieldOnReturn = FALSE
NetworkEnd ==
  /\ power = [m \in {0, 1} |-> "halted"] /\ step = [t \in {0, 1} |-> "done"]
  /\ Test!Quiet
SelfEnd ==
  /\ Self!Quiet
  /\ selfAt = [t \in Self!Tester |-> "finished"]

ProgressInit ==
  /\ part \in {"disk", "console", "interrupt", "network", "self test"}
  /\ IF part = "disk" THEN Init ELSE DiskEnd
  /\ IF part = "console" THEN ConsoleInit ELSE ConsoleEnd
  /\ IF part = "interrupt" THEN InterruptInit ELSE InterruptEnd
  /\ IF part = "network" THEN Test!TestInit ELSE NetworkEnd
  /\ IF part = "self test" THEN Self!Init ELSE SelfEnd

ProgressNext ==
  /\ UNCHANGED part
  /\ \/ part = "disk" /\ Next
        /\ UNCHANGED <<consoleVars, interruptVars, networkVars, selfVars>>
     \/ part = "console" /\ ConsoleNext
        /\ UNCHANGED <<vars, interruptVars, networkVars, selfVars>>
     \/ part = "interrupt" /\ InterruptNext
        /\ UNCHANGED <<vars, consoleVars, networkVars, selfVars>>
     \/ part = "network" /\ Test!TestNext
        /\ UNCHANGED <<vars, consoleVars, interruptVars, selfVars>>
     \/ part = "self test" /\ Self!Next
        /\ UNCHANGED <<vars, consoleVars, interruptVars, networkVars>>

ProgressSpec ==
  /\ ProgressInit /\ [][ProgressNext]_progressVars
  /\ Fairness /\ ConsoleFairness /\ InterruptFairness /\ Test!Fairness /\ Self!Fairness

-----------------------------------------------------------------------------
(* ReadSector and WriteSector return, unless other threads take the lock   *)
(* first for ever, and once the input of the console has ended all of it   *)
(* is shown and ConsoleTest ends.                                          *)
DevicesAnswer == EveryRequestReturns /\ EchoEnds

(* Kernel::NetworkTest ends on both machines unless a packet is lost.      *)
TestEndsUnlessLost == Test!TestEndsUnlessLost

(* ThreadSelfTest ends, with all the threads it forked, and deletes no     *)
(* semaphore or list that one of them still uses.                          *)
SelfTestEnds ==
  /\ [](part = "self test" => Self!DeletedWhenDone)
  /\ Self!SelfTestEnds
=============================================================================

----------------------------- MODULE PostOffice -----------------------------
(***************************************************************************)
(* The post office (network/post.cc) over the network device               *)
(* (machine/network.cc) and the host's datagram sockets (lib/sysdep.cc):   *)
(* threads on several machines send messages to each other's mailboxes     *)
(* over a network that loses packets.                                      *)
(*                                                                         *)
(* Mailboxes are the lists of module Fifo, which module SynchList          *)
(* implements; locks and semaphores are those of Condition and Semaphore.  *)
(***************************************************************************)
EXTENDS Integers, Sequences

CONSTANTS
  Machine, Box, NULL,
  Client,       \* the threads that use the post offices,
  Host,         \* and the machine each of them runs on
  Message,      \* the messages: from, to (machines), box, reply (mailboxes), id
  Reliability,  \* the argument of NetworkOutput, in percent
  MaxTries      \* how often SendToSocket tries (10 in the code)

PostOfficeAssumption ==
  /\ Host \in [Client -> Machine]
  /\ \A m \in Message : m.from \in Machine /\ m.to \in Machine /\ m.box \in Box
  /\ Reliability \in Int /\ MaxTries \in Nat \ {0}
  /\ NULL \notin Client /\ NULL \notin Message

VARIABLES
  power,    \* whether a machine is off (its socket does not exist yet), on or halted
  socket,   \* the packets waiting in a machine's socket
  inHdr,    \* the packet NetworkInput has buffered, NULL if inHdr.length is 0
  avail,    \* the value of messageAvailable
  worker,   \* where the postal worker is, and the packet in its buffer
  boxes,    \* the mailboxes
  holder,   \* the thread that holds sendLock
  sendInt,  \* whether NetworkOutput's interrupt is pending
  sent,     \* the value of messageSent
  pc, msg,  \* where each thread is, and the message it sends or has received
  tries,    \* how often SendToSocket has tried
  handed, lost, received   \* history: what each machine has handed to the
                           \* network, what of it was lost, what was taken out
                           \* of its mailboxes

inVars   == <<socket, inHdr, avail, worker, boxes>>
outVars  == <<holder, sendInt, sent, tries>>
history  == <<handed, lost, received>>
mailVars == <<power, inVars, outVars, pc, msg, history>>

MailTypeOK ==
  /\ power \in [Machine -> {"off", "on", "halted"}]
  /\ inHdr \in [Machine -> Message \cup {NULL}]
  /\ avail \in [Machine -> 0 .. 1] /\ sent \in [Machine -> 0 .. 1]
  /\ worker \in [Machine -> [at : {"wait", "receive", "put"}, buffer : Message \cup {NULL}]]
  /\ holder \in [Machine -> Client \cup {NULL}]
  /\ sendInt \in [Machine -> BOOLEAN] /\ tries \in [Machine -> 0 .. MaxTries]
  /\ pc \in [Client -> {"idle", "acquire", "send", "retry", "waitSent", "release"}]
  /\ msg \in [Client -> Message \cup {NULL}]
  /\ socket \in [Machine -> Seq(Message)] /\ boxes \in [Machine -> [Box -> Seq(Message)]]
  /\ handed \in [Machine -> Seq(Message)] /\ lost \subseteq Message
  /\ received \in [Machine -> [Box -> Seq(Message)]]

(* PostOfficeInput, PostOfficeOutput, NetworkInput, NetworkOutput          *)
Quiet ==
  /\ socket = [m \in Machine |-> << >>]
  /\ inHdr = [m \in Machine |-> NULL]
  /\ avail = [m \in Machine |-> 0]
  /\ worker = [m \in Machine |-> [at |-> "wait", buffer |-> NULL]]
  /\ boxes = [m \in Machine |-> [b \in Box |-> << >>]]
  /\ holder = [m \in Machine |-> NULL]
  /\ sendInt = [m \in Machine |-> FALSE]
  /\ sent = [m \in Machine |-> 0]
  /\ tries = [m \in Machine |-> 0]
  /\ pc = [t \in Client |-> "idle"]
  /\ msg = [t \in Client |-> NULL]
  /\ handed = [m \in Machine |-> << >>]
  /\ lost = {}
  /\ received = [m \in Machine |-> [b \in Box |-> << >>]]
MailInit == power \in [Machine -> {"off", "on"}] /\ Quiet

Elements(s) == {s[i] : i \in 1 .. Len(s)}

Goto(t, where) == pc' = [pc EXCEPT ![t] = where]

(* SendToSocket sleeps between its tries, and the whole machine with it.   *)
Running(m) == power[m] = "on" /\ \A t \in Client : Host[t] = m => pc[t] # "retry"

(* AssignNameToSocket, when a machine is started.                          *)
Start(m) ==
  /\ power[m] = "off"
  /\ power' = [power EXCEPT ![m] = "on"]
  /\ UNCHANGED <<inVars, outVars, pc, msg, history>>

(* The user stops a machine: DeAssignNameToSocket removes its socket.      *)
Halt(m) ==
  /\ Running(m)
  /\ power' = [power EXCEPT ![m] = "halted"]
  /\ lost' = lost \cup Elements(socket[m])
  /\ socket' = [socket EXCEPT ![m] = << >>]
  /\ UNCHANGED <<inHdr, avail, worker, boxes, outVars, pc, msg, handed, received>>

-----------------------------------------------------------------------------
(* PostOfficeOutput::Send up to sendLock->Acquire.                         *)
CallSend(t, x) ==
  /\ Running(Host[t]) /\ pc[t] = "idle" /\ x.from = Host[t]
  /\ msg' = [msg EXCEPT ![t] = x]
  /\ Goto(t, "acquire")
  /\ UNCHANGED <<power, inVars, outVars, history>>

(* Mutant of Acquire: Send does without the lock.                          *)
AcquireAtOnce(t) ==
  /\ Running(Host[t]) /\ pc[t] = "acquire"
  /\ holder' = [holder EXCEPT ![Host[t]] = t]
  /\ Goto(t, "send")
  /\ UNCHANGED <<power, inVars, sendInt, sent, tries, msg, history>>

Acquire(t) ==
  /\ Running(Host[t]) /\ pc[t] = "acquire" /\ holder[Host[t]] = NULL
  /\ holder' = [holder EXCEPT ![Host[t]] = t]
  /\ Goto(t, "send")
  /\ UNCHANGED <<power, inVars, sendInt, sent, tries, msg, history>>

(* chanceToWork of NetworkOutput::NetworkOutput, in percent.               *)
ChanceToWork == IF Reliability < 0 THEN 0 ELSE IF Reliability > 100 THEN 100 ELSE Reliability

(* NetworkOutput::Send: schedule the interrupt, lose the packet (if the    *)
(* random number, between 0 and 99, is at least the chance) or go on to    *)
(* SendToSocket.  Then P of messageSent.                                   *)
NetworkSend(t) ==
  LET m == Host[t] IN
  /\ Running(m) /\ pc[t] = "send"
  /\ sendInt' = [sendInt EXCEPT ![m] = TRUE]
  /\ handed' = [handed EXCEPT ![m] = Append(@, msg[t])]
  /\ \/ 99 >= ChanceToWork /\ lost' = lost \cup {msg[t]} /\ Goto(t, "waitSent")
     \/ 0 < ChanceToWork /\ UNCHANGED lost /\ Goto(t, "retry")
  /\ UNCHANGED <<power, inVars, holder, sent, tries, msg, received>>

(* One turn of the loop of SendToSocket: the packet goes into the socket   *)
(* of the other machine if that exists.  After the last try the packet is  *)
(* dropped.                                                                *)
SendToSocket(t) ==
  LET m == Host[t]
      to == msg[t].to
      n  == tries[m] + 1
  IN
  /\ pc[t] = "retry"
  /\ IF power[to] = "on"
     THEN /\ socket' = [socket EXCEPT ![to] = Append(@, msg[t])]
          /\ tries' = [tries EXCEPT ![m] = 0]
          /\ Goto(t, "waitSent")
          /\ UNCHANGED lost
     ELSE /\ tries' = [tries EXCEPT ![m] = IF n = MaxTries THEN 0 ELSE n]
          /\ Goto(t, IF n = MaxTries THEN "waitSent" ELSE "retry")
          /\ lost' = IF n = MaxTries THEN lost \cup {msg[t]} ELSE lost
          /\ UNCHANGED socket
  /\ UNCHANGED <<power, inHdr, avail, worker, boxes, holder, sendInt, sent, msg,
                 handed, received>>

(* NetworkOutput::CallBack, which calls PostOfficeOutput::CallBack.        *)
SendCallBack(m) ==
  /\ Running(m) /\ sendInt[m]
  /\ sendInt' = [sendInt EXCEPT ![m] = FALSE]
  /\ sent' = [sent EXCEPT ![m] = @ + 1]
  /\ UNCHANGED <<power, inVars, holder, tries, pc, msg, history>>

Sent(t) ==
  /\ Running(Host[t]) /\ pc[t] = "waitSent" /\ sent[Host[t]] > 0
  /\ sent' = [sent EXCEPT ![Host[t]] = @ - 1]
  /\ Goto(t, "release")
  /\ UNCHANGED <<power, inVars, holder, sendInt, tries, msg, history>>

Release(t) ==
  /\ Running(Host[t]) /\ pc[t] = "release"
  /\ holder' = [holder EXCEPT ![Host[t]] = NULL]
  /\ Goto(t, "idle")
  /\ UNCHANGED <<power, inVars, sendInt, sent, tries, msg, history>>

-----------------------------------------------------------------------------
(* Mutant of RecvCallBack: the post office is called without a packet.     *)
RecvCallBackEmpty(m) ==
  /\ Running(m) /\ inHdr[m] = NULL /\ avail[m] = 0
  /\ inHdr' = [inHdr EXCEPT ![m] = IF socket[m] = << >> THEN NULL ELSE Head(socket[m])]
  /\ socket' = [socket EXCEPT ![m] = IF @ = << >> THEN @ ELSE Tail(@)]
  /\ avail' = [avail EXCEPT ![m] = @ + 1]
  /\ UNCHANGED <<power, worker, boxes, outVars, pc, msg, history>>

(* NetworkInput::CallBack, when there is room for a packet and one to be   *)
(* read, and PostOfficeInput::CallBack.  Otherwise it only polls again.    *)
RecvCallBack(m) ==
  /\ Running(m) /\ inHdr[m] = NULL /\ socket[m] # << >>
  /\ inHdr' = [inHdr EXCEPT ![m] = Head(socket[m])]
  /\ socket' = [socket EXCEPT ![m] = Tail(@)]
  /\ avail' = [avail EXCEPT ![m] = @ + 1]
  /\ UNCHANGED <<power, worker, boxes, outVars, pc, msg, history>>

(* PostalDelivery: P of messageAvailable, NetworkInput::Receive, which     *)
(* empties the device's buffer, and MailBox::Put, which may have to wait   *)
(* for the lock of the mailbox.                                            *)
WorkerWakeup(m) ==
  /\ Running(m) /\ worker[m].at = "wait" /\ avail[m] > 0
  /\ avail' = [avail EXCEPT ![m] = @ - 1]
  /\ worker' = [worker EXCEPT ![m].at = "receive"]
  /\ UNCHANGED <<power, socket, inHdr, boxes, outVars, pc, msg, history>>

(* Mutant of WorkerReceive: the length of the packet is left as it is.     *)
WorkerReceiveKeeping(m) ==
  /\ Running(m) /\ worker[m].at = "receive"
  /\ worker' = [worker EXCEPT ![m] = [at |-> "put", buffer |-> inHdr[m]]]
  /\ UNCHANGED <<power, socket, inHdr, avail, boxes, outVars, pc, msg, history>>

WorkerReceive(m) ==
  /\ Running(m) /\ worker[m].at = "receive"
  /\ worker' = [worker EXCEPT ![m] = [at |-> "put", buffer |-> inHdr[m]]]
  /\ inHdr' = [inHdr EXCEPT ![m] = NULL]
  /\ UNCHANGED <<power, socket, avail, boxes, outVars, pc, msg, history>>

WorkerPut(m) ==
  LET x == worker[m].buffer IN
  /\ Running(m) /\ worker[m].at = "put"
  /\ boxes' = [boxes EXCEPT ![m][x.box] = Append(@, x)]
  /\ worker' = [worker EXCEPT ![m] = [at |-> "wait", buffer |-> NULL]]
  /\ UNCHANGED <<power, socket, inHdr, avail, outVars, pc, msg, history>>

(* PostOfficeInput::Receive and MailBox::Get: wait for a message in the    *)
(* mailbox and take it.                                                    *)
Receive(t, b) ==
  LET m == Host[t] IN
  /\ Running(m) /\ pc[t] = "idle" /\ boxes[m][b] # << >>
  /\ msg' = [msg EXCEPT ![t] = Head(boxes[m][b])]
  /\ boxes' = [boxes EXCEPT ![m][b] = Tail(@)]
  /\ received' = [received EXCEPT ![m][b] = Append(@, Head(boxes[m][b]))]
  /\ UNCHANGED <<power, socket, inHdr, avail, worker, outVars, pc, handed, lost>>

-----------------------------------------------------------------------------
(* What a thread in Send and a machine do without being called.            *)
SendStep(t) == Acquire(t) \/ NetworkSend(t) \/ SendToSocket(t) \/ Sent(t) \/ Release(t)
MachineStep(m) ==
  SendCallBack(m) \/ RecvCallBack(m) \/ WorkerWakeup(m) \/ WorkerReceive(m) \/ WorkerPut(m)

(* Each message is sent at most once: a bound.                             *)
Fresh(x) ==
  /\ \A m \in Machine : x \notin Elements(handed[m])
  /\ \A t \in Client : ~(pc[t] \in {"acquire", "send"} /\ msg[t] = x)

MailNext ==
  \/ \E m \in Machine : Start(m) \/ Halt(m) \/ MachineStep(m)
  \/ \E t \in Client :
       \/ SendStep(t)
       \/ \E x \in Message : Fresh(x) /\ CallSend(t, x)
       \/ \E b \in Box : Receive(t, b)

MailSpec == MailInit /\ [][MailNext]_mailVars

-----------------------------------------------------------------------------
(* ASSERT(sendBusy == FALSE) of NetworkOutput::Send says that one packet   *)
(* is sent at a time, but the code never sets sendBusy to TRUE, so that    *)
(* the assertion checks nothing; sendLock and messageSent see to it.       *)
OneSendAtATime ==
  \A t \in Client : pc[t] = "send" => ~sendInt[Host[t]] /\ sent[Host[t]] = 0

(* When the postal worker calls NetworkInput::Receive there is a packet:   *)
(* otherwise it would deliver what its buffer still holds.                 *)
WorkerFindsPacket == \A m \in Machine : worker[m].at = "receive" => inHdr[m] # NULL

(* The way of a message to mailbox b of machine m, its end first: taken    *)
(* out of the mailbox, in the mailbox, in the worker's hands, in the       *)
(* device's buffer, in the socket.  And the places of x on such a way.     *)
InHand(x) == IF x = NULL THEN << >> ELSE <<x>>
Way(m, b) ==
  <<received[m][b], boxes[m][b], InHand(worker[m].buffer), InHand(inHdr[m]), socket[m]>>
Positions(s, x) == {i \in 1 .. Len(s) : s[i] = x}
Places(way, x) == UNION {{k} \X Positions(way[k], x) : k \in 1 .. 5}
AheadOf(p, q) == p[1] < q[1] \/ (p[1] = q[1] /\ p[2] < q[2])

(* A thread in SendToSocket has not put x into a socket yet.               *)
Retrying(x) == \E t \in Client : pc[t] = "retry" /\ msg[t] = x

(* network.h: "delivering fixed sized packets, in order but unreliably".   *)
(* A message that was sent is lost, still to be put into the socket, or in *)
(* one place on its way, ahead of what its machine has sent after it; none *)
(* is overwritten in the device's one-packet buffer.                       *)
InOrderExceptLost ==
  \A from \in Machine : \A i \in 1 .. Len(handed[from]) :
    LET x   == handed[from][i]
        way == Way(x.to, x.box)
    IN
    /\ IF x \in lost \/ Retrying(x)
       THEN Places(way, x) = {}
       ELSE \E p \in Places(way, x) : Places(way, x) = {p}
    /\ \A j \in i + 1 .. Len(handed[from]) :
         \A p \in Places(way, x), q \in Places(way, handed[from][j]) : AheadOf(p, q)

(* A mailbox holds only what was sent to it.                               *)
NothingElse ==
  \A m \in Machine, b \in Box :
    \A x \in Elements(boxes[m][b]) \cup Elements(received[m][b]) :
      x.to = m /\ x.box = b /\ x \in Elements(handed[x.from])

(* Mailboxes get what was sent and not lost, once and in order: sendLock   *)
(* and messageSent let one packet at a time out, and the postal worker is  *)
(* woken for a packet that is there.                                       *)
MailIsExact ==
  MailTypeOK /\ OneSendAtATime /\ WorkerFindsPacket /\ InOrderExceptLost /\ NothingElse
=============================================================================

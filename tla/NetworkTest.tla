---------------------------- MODULE NetworkTest ----------------------------
(***************************************************************************)
(* Kernel::NetworkTest (threads/kernel.cc) on machines 0 and 1, over the   *)
(* post office: send a message to mailbox 0 of the other machine, wait for *)
(* the other's message, acknowledge it to the mailbox it names, and wait   *)
(* for the acknowledgement of the own message in mailbox 1.                *)
(***************************************************************************)
EXTENDS PostOffice

VARIABLE step   \* how far the test of each machine's thread has come

testVars == <<mailVars, step>>

Greeting(m) == [from |-> m, to |-> 1 - m, box |-> 0, reply |-> 1, id |-> "Hello there!"]

(* Mutant of Ack: the acknowledgement goes to mailbox 0.                   *)
AckToBox0(m, x) == [from |-> m, to |-> x.from, box |-> 0, reply |-> 1, id |-> "Got it!"]

(* outMailHdr.from is still 1 when the acknowledgement is sent.            *)
Ack(m, x) == [from |-> m, to |-> x.from, box |-> x.reply, reply |-> 1, id |-> "Got it!"]

TestInit == MailInit /\ step = [t \in Client |-> "greet"]

Advance(t, from, to) == step[t] = from /\ step' = [step EXCEPT ![t] = to]

(* The four statements of the test; a Send is over when the thread is idle *)
(* again.                                                                  *)
Greet(t)         == Advance(t, "greet", "wait") /\ CallSend(t, Greeting(Host[t]))
WaitGreeting(t)  == Advance(t, "wait", "ack") /\ Receive(t, 0)
Acknowledge(t)   == Advance(t, "ack", "waitAck") /\ CallSend(t, Ack(Host[t], msg[t]))
WaitAck(t)       == Advance(t, "waitAck", "done") /\ Receive(t, 1)

TestStep(t) == Greet(t) \/ WaitGreeting(t) \/ Acknowledge(t) \/ WaitAck(t)

TestNext ==
  \/ \E t \in Client : TestStep(t)
  \/ (\E m \in Machine : Start(m) \/ MachineStep(m)) /\ UNCHANGED step
  \/ (\E t \in Client : SendStep(t)) /\ UNCHANGED step

TestSpec == TestInit /\ [][TestNext]_testVars

(* Both machines are started, their interrupts come and their threads run. *)
Fairness ==
  /\ \A m \in Machine :
       /\ WF_testVars(Start(m) /\ UNCHANGED step)
       /\ WF_testVars(SendCallBack(m) /\ UNCHANGED step)
       /\ WF_testVars(RecvCallBack(m) /\ UNCHANGED step)
       /\ WF_testVars((WorkerWakeup(m) \/ WorkerReceive(m) \/ WorkerPut(m)) /\ UNCHANGED step)
  /\ \A t \in Client : WF_testVars(TestStep(t)) /\ WF_testVars(SendStep(t) /\ UNCHANGED step)

(* Nobody retransmits, so a lost packet leaves both machines waiting.  But *)
(* only a lost packet does: if none is lost, both tests end.               *)
TestEndsUnlessLost ==
  <>(lost # {}) \/ <>(\A t \in Client : step[t] = "done")
=============================================================================

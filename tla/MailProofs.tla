----------------------------- MODULE MailProofs -----------------------------
(***************************************************************************)
(* Proofs about module PostOffice, for any number of machines, threads,    *)
(* mailboxes and messages: what is sent and not lost arrives once and in   *)
(* order, whatever the threads of a machine do meanwhile.                  *)
(***************************************************************************)
EXTENDS PostOffice, TLAPS

-----------------------------------------------------------------------------
(* A way is five lists of messages; a place on it is a list and a position *)
(* in that.                                                                *)
IsWay(w) == w \in [1 .. 5 -> Seq(Message)]
Place == (1 .. 5) \X (Nat \ {0})

LEMMA PlaceOf ==
  ASSUME NEW w, IsWay(w), NEW x
  PROVE  /\ \A k \in 1 .. 5 : Len(w[k]) \in Nat
         /\ \A k \in 1 .. 5 : \A i \in 1 .. Len(w[k]) : w[k][i] = x => <<k, i>> \in Places(w, x)
         /\ \A p \in Places(w, x) :
              /\ p \in Place /\ p[1] \in 1 .. 5 /\ p[2] \in 1 .. Len(w[p[1]])
              /\ w[p[1]][p[2]] = x /\ p = <<p[1], p[2]>>
<1>1. \A k \in 1 .. 5 : Len(w[k]) \in Nat
  BY DEF IsWay
<1>2. ASSUME NEW k \in 1 .. 5, NEW i \in 1 .. Len(w[k]), w[k][i] = x
      PROVE  <<k, i>> \in Places(w, x)
  <2>1. <<k, i>> \in {k} \X Positions(w[k], x)
    BY <1>2 DEF Positions
  <2>. QED  BY <2>1, Zenon DEF Places
<1>3. ASSUME NEW p \in Places(w, x)
      PROVE  /\ p \in Place /\ p[1] \in 1 .. 5 /\ p[2] \in 1 .. Len(w[p[1]])
             /\ w[p[1]][p[2]] = x /\ p = <<p[1], p[2]>>
  <2>1. PICK k \in 1 .. 5 : p \in {k} \X Positions(w[k], x)
    BY <1>3, Zenon DEF Places
  <2>2. PICK i \in 1 .. Len(w[k]) : p = <<k, i>> /\ w[k][i] = x
    BY <2>1 DEF Positions
  <2>3. i \in Nat \ {0}
    BY <1>1
  <2>. QED  BY <2>2, <2>3 DEF Place
<1>. QED  BY <1>1, <1>2, <1>3, Zenon

At(w, x, p) ==
  /\ p[1] \in 1 .. 5 /\ p[2] \in Nat \ {0} /\ p = <<p[1], p[2]>>
  /\ p[2] \in 1 .. Len(w[p[1]]) /\ w[p[1]][p[2]] = x

LEMMA AtPlace ==
  ASSUME NEW w, IsWay(w), NEW x, NEW p \in Places(w, x)
  PROVE  At(w, x, p)
<1>1. /\ p \in Place /\ p[1] \in 1 .. 5 /\ p[2] \in 1 .. Len(w[p[1]])
      /\ w[p[1]][p[2]] = x /\ p = <<p[1], p[2]>>
  BY PlaceOf, Zenon
<1>2. p[2] \in Nat \ {0}
  BY <1>1 DEF Place
<1>. QED  BY <1>1, <1>2, Zenon DEF At

(* Where the message at place p was before a step that takes the first     *)
(* message of list k and may put it behind the len messages of the list    *)
(* before that.                                                            *)
Came(len, k, p, q) ==
  \/ p[1] = k /\ q = <<k, p[2] + 1>>
  \/ p = <<k - 1, len + 1>> /\ q = <<k, 1>>
  \/ p[1] = k - 1 /\ p[2] <= len /\ q = p
  \/ p[1] # k /\ p[1] # k - 1 /\ q = p

(* Two places keep their order.                                            *)
LEMMA CameInOrder ==
  ASSUME NEW len \in Nat, NEW k \in Int, NEW p \in Place, NEW q \in Place,
         NEW p1 \in Place, NEW q1 \in Place, Came(len, k, p, q), Came(len, k, p1, q1)
  PROVE  (q = q1 => p = p1) /\ (AheadOf(q, q1) => AheadOf(p, p1))
BY DEF Came, AheadOf, Place

(* So a message that was on the way once is on it at most once, and the    *)
(* order of the messages remains.                                          *)
Once(P) == \A p, q \in P : p = q
Ahead(P, Q) == \A p \in P, q \in Q : AheadOf(p, q)

LEMMA CameOnce ==
  ASSUME NEW len \in Nat, NEW k \in Int, NEW P \in SUBSET Place, NEW P1 \in SUBSET Place,
         \A p \in P1 : \E q \in P : Came(len, k, p, q), Once(P)
  PROVE  Once(P1)
<1> SUFFICES ASSUME NEW p \in P1, NEW p1 \in P1  PROVE  p = p1
  BY Zenon DEF Once
<1>1. PICK q \in P, q1 \in P : Came(len, k, p, q) /\ Came(len, k, p1, q1)
  BY Zenon
<1>2. q = q1
  BY Zenon DEF Once
<1>. QED  BY <1>1, <1>2, CameInOrder

LEMMA CameAhead ==
  ASSUME NEW len \in Nat, NEW k \in Int, NEW P \in SUBSET Place, NEW Q \in SUBSET Place,
         NEW P1 \in SUBSET Place, NEW Q1 \in SUBSET Place,
         \A p \in P1 : \E q \in P : Came(len, k, p, q),
         \A p \in Q1 : \E q \in Q : Came(len, k, p, q), Ahead(P, Q)
  PROVE  Ahead(P1, Q1)
<1> SUFFICES ASSUME NEW p \in P1, NEW p1 \in Q1  PROVE  AheadOf(p, p1)
  BY Zenon DEF Ahead
<1>1. PICK q \in P, q1 \in Q : Came(len, k, p, q) /\ Came(len, k, p1, q1)
  BY Zenon
<1>2. AheadOf(q, q1)
  BY Zenon DEF Ahead
<1>. QED  BY <1>1, <1>2, CameInOrder

-----------------------------------------------------------------------------
(* The steps on a way.  The device, the worker and a receiving thread move *)
(* the first message of a list to the end of the one before it; the worker *)
(* may take a message to another mailbox; a message enters the socket; the *)
(* socket is removed.                                                      *)
Same(w, v, K) == \A l \in (1 .. 5) \ K : v[l] = w[l]
Moves(w, v, k) ==
  /\ w[k] # << >> /\ v[k] = Tail(w[k]) /\ v[k - 1] = Append(w[k - 1], Head(w[k]))
  /\ Same(w, v, {k - 1, k})
Drops(w, v, k) == w[k] # << >> /\ v[k] = Tail(w[k]) /\ Same(w, v, {k})
Enters(w, v, y) == v[5] = Append(w[5], y) /\ Same(w, v, {5})
Clears(w, v) == v[5] = << >> /\ Same(w, v, {5})

(* Of the messages of v, each was in w.                                    *)
FromWay(w, v, len, k, x) == \A p \in Places(v, x) : \E q \in Places(w, x) : Came(len, k, p, q)

LEMMA MoveStep ==
  ASSUME NEW w, IsWay(w), NEW v, IsWay(v), NEW k \in 2 .. 5, Moves(w, v, k), NEW x
  PROVE  /\ FromWay(w, v, Len(w[k - 1]), k, x)
         /\ Places(w, x) # {} => Places(v, x) # {}
<1>1. k \in 1 .. 5 /\ k - 1 \in 1 .. 5 /\ k - 1 # k
  OBVIOUS
<1>2. PICK a, c : a = w[k] /\ c = w[k - 1]
  BY Zenon
<1>3. a \in Seq(Message) /\ c \in Seq(Message) /\ a # << >>
  BY <1>1, <1>2, Zenon DEF Moves, IsWay
<1>4. PICK y \in Message : y = Head(a) /\ y = a[1]
  BY <1>3
<1>5. v[k] = Tail(a) /\ v[k - 1] = Append(c, y)
  BY <1>2, <1>4, Zenon DEF Moves
<1>6. ASSUME NEW p \in Places(v, x)
      PROVE  \E q \in Places(w, x) : Came(Len(c), k, p, q)
  <2>0. At(v, x, p)
    BY AtPlace, Zenon
  <2>1. PICK l \in 1 .. 5, i \in Nat \ {0} : p = <<l, i>> /\ i \in 1 .. Len(v[l]) /\ v[l][i] = x
    BY <2>0, Zenon DEF At
  <2>2. CASE l = k
    <3>0. \A j \in 1 .. Len(Tail(a)) : j + 1 \in 1 .. Len(a) /\ Tail(a)[j] = a[j + 1]
      BY <1>3
    <3>1. i + 1 \in 1 .. Len(a) /\ a[i + 1] = x
      BY <1>5, <2>1, <2>2, <3>0, Zenon
    <3>2. <<k, i + 1>> \in Places(w, x)
      BY <1>1, <1>2, <3>1, PlaceOf
    <3>. QED  BY <2>1, <2>2, <3>2 DEF Came
  <2>3. CASE l = k - 1 /\ i = Len(c) + 1
    <3>1. 1 \in 1 .. Len(a) /\ a[1] = x
      BY <1>3, <1>4, <1>5, <2>1, <2>3
    <3>2. <<k, 1>> \in Places(w, x)
      BY <1>1, <1>2, <3>1, PlaceOf
    <3>. QED  BY <2>1, <2>3, <3>2 DEF Came
  <2>4. CASE l = k - 1 /\ i # Len(c) + 1
    <3>1. i \in 1 .. Len(c) /\ c[i] = x /\ i <= Len(c)
      BY <1>3, <1>4, <1>5, <2>1, <2>4
    <3>2. <<k - 1, i>> \in Places(w, x)
      BY <1>1, <1>2, <3>1, PlaceOf
    <3>. QED  BY <2>1, <2>4, <3>1, <3>2 DEF Came
  <2>5. CASE l # k /\ l # k - 1
    <3>1. v[l] = w[l]
      BY <2>5, Zenon DEF Moves, Same
    <3>2. <<l, i>> \in Places(w, x)
      BY <2>1, <3>1, PlaceOf
    <3>. QED  BY <2>1, <2>5, <3>2 DEF Came
  <2>. QED  BY <2>2, <2>3, <2>4, <2>5, Zenon
<1>7. ASSUME NEW q \in Places(w, x)
      PROVE  Places(v, x) # {}
  <2>0. At(w, x, q)
    BY AtPlace, Zenon
  <2>1. PICK l \in 1 .. 5, i \in Nat \ {0} : q = <<l, i>> /\ i \in 1 .. Len(w[l]) /\ w[l][i] = x
    BY <2>0, Zenon DEF At
  <2>2. CASE l = k /\ i = 1
    <3>1. Len(c) + 1 \in 1 .. Len(v[k - 1]) /\ v[k - 1][Len(c) + 1] = x
      BY <1>2, <1>3, <1>4, <1>5, <2>1, <2>2
    <3>. QED  BY <1>1, <3>1, PlaceOf, Zenon
  <2>3. CASE l = k /\ i # 1
    <3>1. i - 1 \in 1 .. Len(v[k]) /\ v[k][i - 1] = x
      BY <1>2, <1>3, <1>5, <2>1, <2>3
    <3>. QED  BY <1>1, <3>1, PlaceOf, Zenon
  <2>4. CASE l = k - 1
    <3>1. i \in 1 .. Len(v[k - 1]) /\ v[k - 1][i] = x
      BY <1>2, <1>3, <1>4, <1>5, <2>1, <2>4
    <3>. QED  BY <1>1, <3>1, PlaceOf, Zenon
  <2>5. CASE l # k /\ l # k - 1
    <3>1. v[l] = w[l]
      BY <2>5, Zenon DEF Moves, Same
    <3>. QED  BY <2>1, <3>1, PlaceOf, Zenon
  <2>. QED  BY <2>2, <2>3, <2>4, <2>5, Zenon
<1>. QED  BY <1>2, <1>6, <1>7, Zenon DEF FromWay

LEMMA DropStep ==
  ASSUME NEW w, IsWay(w), NEW v, IsWay(v), NEW k \in 2 .. 5, Drops(w, v, k), NEW x
  PROVE  /\ FromWay(w, v, Len(w[k - 1]), k, x)
         /\ x # Head(w[k]) /\ Places(w, x) # {} => Places(v, x) # {}
<1>1. k \in 1 .. 5 /\ k - 1 \in 1 .. 5 /\ k - 1 # k
  OBVIOUS
<1>2. PICK a : a = w[k]
  BY Zenon
<1>3. a \in Seq(Message) /\ a # << >> /\ v[k] = Tail(a) /\ Head(a) = a[1]
  BY <1>1, <1>2, SMTT(20) DEF Drops, IsWay
<1>4. \A l \in 1 .. 5 : l # k => v[l] = w[l]
  BY DEF Drops, Same
<1>5. ASSUME NEW p \in Places(v, x)
      PROVE  \E q \in Places(w, x) : Came(Len(w[k - 1]), k, p, q)
  <2>0. At(v, x, p)
    BY AtPlace, Zenon
  <2>1. PICK l \in 1 .. 5, i \in Nat \ {0} : p = <<l, i>> /\ i \in 1 .. Len(v[l]) /\ v[l][i] = x
    BY <2>0, Zenon DEF At
  <2>2. CASE l = k
    <3>0. \A j \in 1 .. Len(Tail(a)) : j + 1 \in 1 .. Len(a) /\ Tail(a)[j] = a[j + 1]
      BY <1>3
    <3>1. i + 1 \in 1 .. Len(a) /\ a[i + 1] = x
      BY <1>3, <2>1, <2>2, <3>0, Zenon
    <3>2. <<k, i + 1>> \in Places(w, x)
      BY <1>1, <1>2, <3>1, PlaceOf
    <3>. QED  BY <2>1, <2>2, <3>2 DEF Came
  <2>3. CASE l # k
    <3>1. v[l] = w[l]
      BY <1>4, <2>3, Zenon
    <3>2. <<l, i>> \in Places(w, x) /\ i <= Len(w[l])
      BY <2>1, <3>1, PlaceOf
    <3>. QED  BY <2>1, <2>3, <3>2 DEF Came
  <2>. QED  BY <2>2, <2>3, Zenon
<1>6. ASSUME x # Head(w[k]), NEW q \in Places(w, x)
      PROVE  Places(v, x) # {}
  <2>0. At(w, x, q)
    BY AtPlace, Zenon
  <2>1. PICK l \in 1 .. 5, i \in Nat \ {0} : q = <<l, i>> /\ i \in 1 .. Len(w[l]) /\ w[l][i] = x
    BY <2>0, Zenon DEF At
  <2>2. CASE l = k
    <3>1. i - 1 \in 1 .. Len(v[k]) /\ v[k][i - 1] = x
      BY <1>2, <1>3, <1>6, <2>1, <2>2
    <3>. QED  BY <1>1, <3>1, PlaceOf, Zenon
  <2>3. CASE l # k
    <3>1. v[l] = w[l]
      BY <1>4, <2>3, Zenon
    <3>. QED  BY <2>1, <3>1, PlaceOf, Zenon
  <2>. QED  BY <2>2, <2>3, Zenon
<1>. QED  BY <1>5, <1>6, Zenon DEF FromWay

LEMMA ClearStep ==
  ASSUME NEW w, IsWay(w), NEW v, IsWay(v), Clears(w, v), NEW x
  PROVE  /\ FromWay(w, v, 0, 0, x)
         /\ x \notin Elements(w[5]) /\ Places(w, x) # {} => Places(v, x) # {}
         /\ x \in Elements(w[5]) /\ Once(Places(w, x)) => Places(v, x) = {}
<1>1. \A l \in 1 .. 5 : l # 5 => v[l] = w[l]
  BY DEF Clears, Same
<1>2. ASSUME NEW p \in Places(v, x)
      PROVE  p[1] # 5 /\ p \in Places(w, x) /\ p \in Place
  <2>0. At(v, x, p)
    BY AtPlace, Zenon
  <2>1. PICK l \in 1 .. 5, i \in Nat \ {0} : p = <<l, i>> /\ i \in 1 .. Len(v[l]) /\ v[l][i] = x
    BY <2>0, Zenon DEF At
  <2>2. l # 5
    BY <2>1 DEF Clears
  <2>. QED  BY <1>1, <2>1, <2>2, PlaceOf, Zenon DEF Place
<1>3. FromWay(w, v, 0, 0, x)
  BY <1>2 DEF FromWay, Came, Place
<1>4. ASSUME x \notin Elements(w[5]), NEW q \in Places(w, x)
      PROVE  Places(v, x) # {}
  <2>0. At(w, x, q)
    BY AtPlace, Zenon
  <2>1. PICK l \in 1 .. 5, i \in Nat \ {0} : q = <<l, i>> /\ i \in 1 .. Len(w[l]) /\ w[l][i] = x
    BY <2>0, Zenon DEF At
  <2>2. l # 5
    BY <1>4, <2>1, Zenon DEF Elements
  <2>. QED  BY <1>1, <2>1, <2>2, PlaceOf, Zenon
<1>5. ASSUME x \in Elements(w[5]), Once(Places(w, x)), NEW p \in Places(v, x)
      PROVE  FALSE
  <2>1. PICK i \in 1 .. Len(w[5]) : w[5][i] = x
    BY <1>5, Zenon DEF Elements
  <2>2. <<5, i>> \in Places(w, x)
    BY <2>1, PlaceOf
  <2>3. p = <<5, i>>
    BY <1>2, <1>5, <2>2, Zenon DEF Once
  <2>. QED  BY <1>2, <2>3
<1>. QED  BY <1>3, <1>4, <1>5, Zenon

LEMMA EnterStep ==
  ASSUME NEW w, IsWay(w), NEW v, IsWay(v), NEW y \in Message, Enters(w, v, y)
  PROVE  /\ \A x : x # y => Places(v, x) = Places(w, x)
         /\ Places(w, y) = {} =>
              /\ Places(v, y) = {<<5, Len(w[5]) + 1>>}
              /\ \A x : x # y => Ahead(Places(v, x), Places(v, y))
<1>1. \A l \in 1 .. 5 : l # 5 => v[l] = w[l]
  BY DEF Enters, Same
<1>2. PICK c : c = w[5] /\ c \in Seq(Message) /\ v[5] = Append(c, y)
  BY SMTT(20) DEF Enters, IsWay
<1>3. /\ Len(c) + 1 \in 1 .. Len(v[5]) /\ v[5][Len(c) + 1] = y
      /\ \A i \in 1 .. Len(c) : i \in 1 .. Len(v[5]) /\ v[5][i] = c[i]
      /\ \A i \in 1 .. Len(v[5]) : i \in 1 .. Len(c) \/ i = Len(c) + 1
  BY <1>2
<1>4. ASSUME NEW x, NEW p \in Places(w, x)  PROVE  p \in Places(v, x)
  <2>0. At(w, x, p)
    BY AtPlace, Zenon
  <2>1. PICK l \in 1 .. 5, i \in Nat \ {0} : p = <<l, i>> /\ i \in 1 .. Len(w[l]) /\ w[l][i] = x
    BY <2>0, Zenon DEF At
  <2>2. CASE l = 5
    BY <1>2, <1>3, <2>1, <2>2, PlaceOf, Zenon
  <2>3. CASE l # 5
    BY <1>1, <2>1, <2>3, PlaceOf, Zenon
  <2>. QED  BY <2>2, <2>3, Zenon
<1>5. ASSUME NEW x, NEW p \in Places(v, x)
      PROVE  p \in Places(w, x) \/ (x = y /\ p = <<5, Len(c) + 1>>)
  <2>0. At(v, x, p)
    BY AtPlace, Zenon
  <2>1. PICK l \in 1 .. 5, i \in Nat \ {0} : p = <<l, i>> /\ i \in 1 .. Len(v[l]) /\ v[l][i] = x
    BY <2>0, Zenon DEF At
  <2>2. CASE l = 5
    BY <1>2, <1>3, <2>1, <2>2, PlaceOf, Zenon
  <2>3. CASE l # 5
    BY <1>1, <2>1, <2>3, PlaceOf, Zenon
  <2>. QED  BY <2>2, <2>3, Zenon
<1>6. <<5, Len(c) + 1>> \in Places(v, y)
  BY <1>3, PlaceOf
<1>7. ASSUME NEW x, NEW p \in Places(w, x)
      PROVE  AheadOf(p, <<5, Len(c) + 1>>)
  <2>1. p \in Place /\ p[1] \in 1 .. 5 /\ p[2] \in 1 .. Len(w[p[1]]) /\ Len(c) \in Nat
    BY <1>2, PlaceOf
  <2>. QED  BY <1>2, <2>1 DEF AheadOf
<1>8. ASSUME NEW x, x # y
      PROVE  Places(v, x) = Places(w, x)
  <2>1. \A p : p \in Places(v, x) <=> p \in Places(w, x)
    BY <1>4, <1>5, <1>8, Zenon
  <2>. QED  BY <2>1, Zenon
<1>9. ASSUME Places(w, y) = {}
      PROVE  /\ Places(v, y) = {<<5, Len(c) + 1>>}
             /\ \A x : x # y => Ahead(Places(v, x), Places(v, y))
  <2>1. Places(v, y) = {<<5, Len(c) + 1>>}
    BY <1>5, <1>6, <1>9, Zenon
  <2>. QED  BY <1>7, <1>8, <2>1, Zenon DEF Ahead
<1>. QED  BY <1>2, <1>8, <1>9, Zenon

-----------------------------------------------------------------------------
(* The sender's side.  A thread between Acquire and Release holds sendLock *)
(* of its machine; as long as no packet is on its way out the interrupt is *)
(* not pending and messageSent is zero.                                    *)
Holding == {"send", "retry", "waitSent", "release"}
Clear(m) == ~sendInt[m] /\ sent[m] = 0
SendInv ==
  /\ \A m \in Machine :
       /\ holder[m] # NULL => Host[holder[m]] = m
       /\ holder[m] = NULL => Clear(m)
       /\ sendInt[m] => sent[m] = 0
       /\ tries[m] < MaxTries
  /\ \A t \in Client :
       /\ pc[t] \in Holding <=> holder[Host[t]] = t
       /\ pc[t] \in {"send", "release"} => Clear(Host[t])

(* The receiver's side.  A wakeup of the postal worker, whether it is      *)
(* still to come or just taken, is one for the packet in the buffer.       *)
RecvInv ==
  \A m \in Machine :
    /\ avail[m] # 0 => inHdr[m] # NULL /\ worker[m].at # "receive"
    /\ worker[m].at = "receive" => inHdr[m] # NULL /\ avail[m] = 0
    /\ worker[m].at = "put" <=> worker[m].buffer # NULL

(* The messages.  Threads send different ones, none is sent again, and one *)
(* that is being put into a socket is the last its machine has sent.       *)
Unsent == {"acquire", "send"}
OwnMessage ==
  \A t \in Client :
    pc[t] \in Unsent \cup {"retry"} => msg[t] \in Message /\ msg[t].from = Host[t]
NotSentYet ==
  \A t \in Client : pc[t] \in Unsent => \A m \in Machine : msg[t] \notin Elements(handed[m])
DifferentMessages ==
  \A t, u \in Client : pc[t] \in Unsent /\ pc[u] \in Unsent /\ msg[t] = msg[u] => t = u
SentLast ==
  \A t \in Client : pc[t] = "retry" =>
    LET out == handed[Host[t]] IN
    Len(out) > 0 /\ out[Len(out)] = msg[t] /\ msg[t] \notin lost
SentOnce(m) ==
  /\ \A i \in 1 .. Len(handed[m]) : handed[m][i].from = m
  /\ \A i, j \in 1 .. Len(handed[m]) : handed[m][i] = handed[m][j] => i = j
LostWasSent == \A x \in lost : x \in Elements(handed[x.from])
MessageInv ==
  /\ OwnMessage /\ NotSentYet /\ DifferentMessages /\ SentLast /\ LostWasSent
  /\ \A m \in Machine : SentOnce(m)

(* The ways.  What is on one was sent to that machine, is not lost and not *)
(* to be sent again; what was sent to the mailbox is on it.                *)
Underway(x) == x \in Elements(handed[x.from]) /\ x \notin lost /\ ~Retrying(x)
Carries(w, m) == \A x \in Message : Places(w, x) # {} => x.to = m /\ Underway(x)
Sorted(w, b) == \A x \in Message : \A p \in Places(w, x) : p[1] <= 2 => x.box = b
Complete(w, m, b) ==
  \A x \in Message : Underway(x) /\ x.to = m /\ x.box = b => Places(w, x) # {}
Ordered(w, out) ==
  \A i, j \in 1 .. Len(out) : i < j => Ahead(Places(w, out[i]), Places(w, out[j]))
WayOK(w, m, b) ==
  /\ Carries(w, m) /\ Sorted(w, b) /\ Complete(w, m, b)
  /\ \A x \in Message : Once(Places(w, x))
  /\ \A from \in Machine : Ordered(w, handed[from])
WayInv(m, b) == WayOK(Way(m, b), m, b)

MailInv ==
  /\ MailTypeOK /\ SendInv /\ RecvInv /\ MessageInv
  /\ \A m \in Machine, b \in Box : WayInv(m, b)

-----------------------------------------------------------------------------
(* The outcomes of a turn of SendToSocket's loop.                          *)
Rest == <<power, inHdr, avail, worker, boxes, holder, sendInt, sent, msg, handed, received>>
PutsIntoSocket(t) ==
  /\ socket' = [socket EXCEPT ![msg[t].to] = Append(socket[msg[t].to], msg[t])]
  /\ tries' = [tries EXCEPT ![Host[t]] = 0]
  /\ pc' = [pc EXCEPT ![t] = "waitSent"]
  /\ UNCHANGED <<lost, Rest>>
TriesAgain(t) ==
  /\ tries[Host[t]] + 1 # MaxTries
  /\ tries' = [tries EXCEPT ![Host[t]] = tries[Host[t]] + 1]
  /\ pc' = [pc EXCEPT ![t] = "retry"]
  /\ UNCHANGED <<lost, socket, Rest>>
GivesUp(t) ==
  /\ tries' = [tries EXCEPT ![Host[t]] = 0]
  /\ pc' = [pc EXCEPT ![t] = "waitSent"]
  /\ lost' = lost \cup {msg[t]}
  /\ UNCHANGED <<socket, Rest>>

LEMMA SocketCases ==
  ASSUME NEW t, SendToSocket(t)
  PROVE  pc[t] = "retry" /\ (PutsIntoSocket(t) \/ TriesAgain(t) \/ GivesUp(t))
BY Zenon DEF SendToSocket, Goto, PutsIntoSocket, TriesAgain, GivesUp, Rest

(* The worker's record in a wakeup.                                        *)
LEMMA WokenWorker ==
  ASSUME MailTypeOK, NEW m \in Machine, worker' = [worker EXCEPT ![m].at = "receive"]
  PROVE  /\ worker' \in [Machine -> [at : {"wait", "receive", "put"}, buffer : Message \cup {NULL}]]
         /\ worker'[m].at = "receive" /\ worker'[m].buffer = worker[m].buffer
         /\ \A n \in Machine : n # m => worker'[n] = worker[n]
<1>1. PICK q \in [at : {"wait", "receive", "put"}, buffer : Message \cup {NULL}] : q = worker[m]
  BY DEF MailTypeOK
<1>2. PICK r : r = [at |-> "receive", buffer |-> q.buffer]
  BY Zenon
<1>3. [q EXCEPT !.at = "receive"] = r
  BY <1>2
<1>4. worker' = [worker EXCEPT ![m] = r] /\ worker \in
         [Machine -> [at : {"wait", "receive", "put"}, buffer : Message \cup {NULL}]]
  BY <1>1, <1>3, Zenon DEF MailTypeOK
<1>. QED  BY <1>1, <1>2, <1>4

(* One step per action of the model.                                       *)
LEMMA TypeStep ==
  ASSUME PostOfficeAssumption, MailTypeOK, SendInv, RecvInv, MessageInv, [MailNext]_mailVars
  PROVE  MailTypeOK'
<1> USE DEF PostOfficeAssumption, MailTypeOK, inVars, outVars, history, Goto
<1>1. ASSUME NEW m \in Machine, Start(m)  PROVE  MailTypeOK'
  BY <1>1 DEF Start
<1>2. ASSUME NEW m \in Machine, Halt(m)  PROVE  MailTypeOK'
  BY <1>2 DEF Halt, Elements
<1>3. ASSUME NEW m \in Machine, SendCallBack(m)  PROVE  MailTypeOK'
  BY <1>3 DEF SendCallBack, SendInv
<1>4. ASSUME NEW m \in Machine, RecvCallBack(m)  PROVE  MailTypeOK'
  BY <1>4 DEF RecvCallBack, RecvInv
<1>5. ASSUME NEW m \in Machine, WorkerWakeup(m)  PROVE  MailTypeOK'
  <2>1. avail' \in [Machine -> 0 .. 1]
    BY <1>5 DEF WorkerWakeup
  <2>. QED  BY <1>5, <2>1, WokenWorker, Zenon DEF WorkerWakeup
<1>6. ASSUME NEW m \in Machine, WorkerReceive(m)  PROVE  MailTypeOK'
  BY <1>6 DEF WorkerReceive
<1>7. ASSUME NEW m \in Machine, WorkerPut(m)  PROVE  MailTypeOK'
  <2>1. PICK x \in Message : x = worker[m].buffer /\ x.box \in Box
    BY <1>7 DEF WorkerPut, RecvInv
  <2>2. /\ UNCHANGED <<power, socket, inHdr, avail, outVars, pc, msg, history>>
        /\ boxes' = [boxes EXCEPT ![m][x.box] = Append(boxes[m][x.box], x)]
        /\ worker' = [worker EXCEPT ![m] = [at |-> "wait", buffer |-> NULL]]
    BY <1>7, <2>1 DEF WorkerPut
  <2>3. boxes' \in [Machine -> [Box -> Seq(Message)]]
    BY <2>2
  <2>4. worker' \in [Machine -> [at : {"wait", "receive", "put"}, buffer : Message \cup {NULL}]]
    BY <2>2
  <2>. QED  BY <2>2, <2>3, <2>4, Zenon
<1>8. ASSUME NEW t \in Client, Acquire(t)  PROVE  MailTypeOK'
  BY <1>8 DEF Acquire
<1>9. ASSUME NEW t \in Client, NetworkSend(t)  PROVE  MailTypeOK'
  <2>1. msg[t] \in Message
    BY <1>9 DEF NetworkSend, MessageInv, OwnMessage, Unsent
  <2>2. handed' \in [Machine -> Seq(Message)]
    BY <1>9, <2>1 DEF NetworkSend
  <2>. QED  BY <1>9, <2>1, <2>2, Zenon DEF NetworkSend
<1>10. ASSUME NEW t \in Client, SendToSocket(t)  PROVE  MailTypeOK'
  <2>1. msg[t] \in Message
    BY <1>10 DEF SendToSocket, MessageInv, OwnMessage
  <2>2. tries[Host[t]] < MaxTries
    BY Zenon DEF SendInv
  <2>3. CASE PutsIntoSocket(t)
    BY <2>1, <2>3 DEF PutsIntoSocket, Rest
  <2>4. CASE TriesAgain(t)
    BY <2>2, <2>4 DEF TriesAgain, Rest
  <2>5. CASE GivesUp(t)
    BY <2>1, <2>5 DEF GivesUp, Rest
  <2>. QED  BY <1>10, <2>3, <2>4, <2>5, SocketCases, Zenon
<1>11. ASSUME NEW t \in Client, Sent(t)  PROVE  MailTypeOK'
  BY <1>11 DEF Sent
<1>12. ASSUME NEW t \in Client, Release(t)  PROVE  MailTypeOK'
  BY <1>12 DEF Release
<1>13. ASSUME NEW t \in Client, NEW x \in Message, CallSend(t, x)  PROVE  MailTypeOK'
  BY <1>13 DEF CallSend
<1>14. ASSUME NEW t \in Client, NEW b \in Box, Receive(t, b)  PROVE  MailTypeOK'
  <2>a. boxes[Host[t]][b] # << >>
    BY <1>14, Zenon DEF Receive
  <2>b. Host[t] \in Machine /\ boxes[Host[t]][b] \in Seq(Message)
    OBVIOUS
  <2>c. Head(boxes[Host[t]][b]) \in Message
    BY <2>a, <2>b
  <2>1. PICK m \in Machine, x \in Message :
             /\ boxes[m][b] # << >> /\ boxes[m][b] \in Seq(Message)
             /\ msg' = [msg EXCEPT ![t] = x]
             /\ boxes' = [boxes EXCEPT ![m][b] = Tail(boxes[m][b])]
             /\ received' = [received EXCEPT ![m][b] = Append(received[m][b], x)]
    BY <1>14, <2>a, <2>b, <2>c, Zenon DEF Receive
  <2>2. boxes' \in [Machine -> [Box -> Seq(Message)]]
    BY <2>1
  <2>3. received' \in [Machine -> [Box -> Seq(Message)]]
    BY <2>1, SMTT(20)
  <2>4. msg' \in [Client -> Message \cup {NULL}]
    BY <2>1
  <2>. QED  BY <1>14, <2>2, <2>3, <2>4, Zenon DEF Receive
<1>15. CASE UNCHANGED mailVars
  BY <1>15 DEF mailVars
<1> HIDE DEF PostOfficeAssumption, MailTypeOK, inVars, outVars, history, Goto
<1>. QED  BY <1>1, <1>2, <1>3, <1>4, <1>5, <1>6, <1>7, <1>8, <1>9, <1>10, <1>11, <1>12,
             <1>13, <1>14, <1>15, Zenon DEF MailNext, MachineStep, SendStep

LEMMA SendStepInv ==
  ASSUME PostOfficeAssumption, MailTypeOK, SendInv, [MailNext]_mailVars
  PROVE  SendInv'
<1> USE DEF PostOfficeAssumption, MailTypeOK, inVars, outVars, history, Goto, SendInv, Holding, Clear
<1>1. ASSUME NEW m \in Machine, Start(m)  PROVE  SendInv'
  BY <1>1, Zenon DEF Start
<1>2. ASSUME NEW m \in Machine, Halt(m)  PROVE  SendInv'
  BY <1>2, Zenon DEF Halt
<1>3. ASSUME NEW m \in Machine, SendCallBack(m)  PROVE  SendInv'
  BY <1>3 DEF SendCallBack
<1>4. ASSUME NEW m \in Machine, RecvCallBack(m)  PROVE  SendInv'
  BY <1>4, Zenon DEF RecvCallBack
<1>5. ASSUME NEW m \in Machine, WorkerWakeup(m)  PROVE  SendInv'
  BY <1>5, Zenon DEF WorkerWakeup
<1>6. ASSUME NEW m \in Machine, WorkerReceive(m)  PROVE  SendInv'
  BY <1>6, Zenon DEF WorkerReceive
<1>7. ASSUME NEW m \in Machine, WorkerPut(m)  PROVE  SendInv'
  BY <1>7, Zenon DEF WorkerPut
<1>8. ASSUME NEW t \in Client, Acquire(t)  PROVE  SendInv'
  BY <1>8 DEF Acquire
<1>9. ASSUME NEW t \in Client, NetworkSend(t)  PROVE  SendInv'
  BY <1>9 DEF NetworkSend
<1>10. ASSUME NEW t \in Client, SendToSocket(t)  PROVE  SendInv'
  <2>1. pc[t] = "retry"
    BY <1>10, SocketCases, Zenon
  <2>2. CASE PutsIntoSocket(t)
    BY <2>1, <2>2 DEF PutsIntoSocket, Rest
  <2>3. CASE TriesAgain(t)
    BY <2>1, <2>3 DEF TriesAgain, Rest
  <2>4. CASE GivesUp(t)
    BY <2>1, <2>4 DEF GivesUp, Rest
  <2>. QED  BY <1>10, <2>2, <2>3, <2>4, SocketCases, Zenon
<1>11. ASSUME NEW t \in Client, Sent(t)  PROVE  SendInv'
  BY <1>11 DEF Sent
<1>12. ASSUME NEW t \in Client, Release(t)  PROVE  SendInv'
  BY <1>12 DEF Release
<1>13. ASSUME NEW t \in Client, NEW x \in Message, CallSend(t, x)  PROVE  SendInv'
  BY <1>13 DEF CallSend
<1>14. ASSUME NEW t \in Client, NEW b \in Box, Receive(t, b)  PROVE  SendInv'
  BY <1>14, Zenon DEF Receive
<1>15. CASE UNCHANGED mailVars
  BY <1>15, Zenon DEF mailVars
<1> HIDE DEF PostOfficeAssumption, MailTypeOK, inVars, outVars, history, Goto, SendInv, Holding, Clear
<1>. QED  BY <1>1, <1>2, <1>3, <1>4, <1>5, <1>6, <1>7, <1>8, <1>9, <1>10, <1>11, <1>12,
             <1>13, <1>14, <1>15, Zenon DEF MailNext, MachineStep, SendStep

LEMMA RecvStepInv ==
  ASSUME PostOfficeAssumption, MailTypeOK, RecvInv, [MailNext]_mailVars
  PROVE  RecvInv'
<1> USE DEF PostOfficeAssumption, MailTypeOK, inVars, outVars, history, RecvInv
<1>1. ASSUME NEW m \in Machine, Start(m) \/ Halt(m) \/ SendCallBack(m)  PROVE  RecvInv'
  BY <1>1, Zenon DEF Start, Halt, SendCallBack
<1>2. ASSUME NEW t \in Client,
             \/ Acquire(t) \/ NetworkSend(t) \/ SendToSocket(t) \/ Sent(t) \/ Release(t)
             \/ \E x \in Message : CallSend(t, x)
             \/ \E b \in Box : Receive(t, b)
      PROVE  RecvInv'
  <2>1. UNCHANGED <<avail, inHdr, worker>>
    BY <1>2, Zenon DEF Acquire, NetworkSend, SendToSocket, Sent, Release, CallSend, Receive
  <2>. QED  BY <2>1, Zenon
<1>3. ASSUME NEW m \in Machine, RecvCallBack(m)  PROVE  RecvInv'
  <2>1. Head(socket[m]) \in Message
    BY <1>3 DEF RecvCallBack
  <2>. QED  BY <1>3, <2>1 DEF RecvCallBack
<1>4. ASSUME NEW m \in Machine, WorkerWakeup(m)  PROVE  RecvInv'
  BY <1>4 DEF WorkerWakeup
<1>5. ASSUME NEW m \in Machine, WorkerReceive(m)  PROVE  RecvInv'
  BY <1>5 DEF WorkerReceive
<1>6. ASSUME NEW m \in Machine, WorkerPut(m)  PROVE  RecvInv'
  BY <1>6 DEF WorkerPut
<1>7. CASE UNCHANGED mailVars
  BY <1>7, Zenon DEF mailVars
<1> HIDE DEF PostOfficeAssumption, MailTypeOK, inVars, outVars, history, RecvInv
<1>. QED  BY <1>1, <1>2, <1>3, <1>4, <1>5, <1>6, <1>7, Zenon
          DEF MailNext, MachineStep, SendStep

(* What is in a list after Append.                                         *)
LEMMA AppendElements ==
  ASSUME NEW s \in Seq(Message), NEW x \in Message
  PROVE  /\ Elements(Append(s, x)) = Elements(s) \cup {x} /\ Append(s, x) \in Seq(Message)
         /\ Len(s) \in Nat /\ Len(Append(s, x)) = Len(s) + 1 /\ Append(s, x)[Len(s) + 1] = x
         /\ \A i \in 1 .. Len(s) : Append(s, x)[i] = s[i]
         /\ \A i \in 1 .. Len(s) + 1 : i \in 1 .. Len(s) \/ i = Len(s) + 1
<1>1. /\ Append(s, x) \in Seq(Message) /\ Len(s) \in Nat
      /\ Len(Append(s, x)) = Len(s) + 1 /\ Append(s, x)[Len(s) + 1] = x
      /\ \A i \in 1 .. Len(s) : Append(s, x)[i] = s[i]
      /\ \A i \in 1 .. Len(s) + 1 : i \in 1 .. Len(s) \/ i = Len(s) + 1
      /\ \A i \in 1 .. Len(s) : i \in 1 .. Len(s) + 1
      /\ Len(s) + 1 \in 1 .. Len(s) + 1
  OBVIOUS
<1>2. \A y : y \in Elements(Append(s, x)) <=> y \in Elements(s) \cup {x}
  BY <1>1, Zenon DEF Elements
<1>. QED  BY <1>1, <1>2, Zenon

LEMMA LastIndex ==
  ASSUME NEW s \in Seq(Message), Len(s) > 0
  PROVE  Len(s) \in 1 .. Len(s)
OBVIOUS

(* The lists on the way are lists of messages.                             *)
LEMMA WayLists ==
  ASSUME NEW r \in Seq(Message), NEW c \in Seq(Message), NEW y \in Message \cup {NULL},
         NEW z \in Message \cup {NULL}, NEW s \in Seq(Message)
  PROVE  IsWay(<<r, c, InHand(y), InHand(z), s>>)
<1>1. InHand(y) \in Seq(Message) /\ InHand(z) \in Seq(Message)
  BY DEF InHand
<1>. QED  BY <1>1 DEF IsWay

LEMMA WayTypes ==
  ASSUME MailTypeOK, NEW m \in Machine, NEW b \in Box
  PROVE  IsWay(Way(m, b))
<1>1. /\ received[m][b] \in Seq(Message) /\ boxes[m][b] \in Seq(Message) /\ socket[m] \in Seq(Message)
      /\ inHdr[m] \in Message \cup {NULL} /\ worker[m].buffer \in Message \cup {NULL}
  BY DEF MailTypeOK
<1>. QED  BY <1>1, WayLists, Zenon DEF Way

LEMMA WayTypesNext ==
  ASSUME MailTypeOK', NEW m \in Machine, NEW b \in Box
  PROVE  IsWay(Way(m, b)')
<1>1. /\ received'[m][b] \in Seq(Message) /\ boxes'[m][b] \in Seq(Message) /\ socket'[m] \in Seq(Message)
      /\ inHdr'[m] \in Message \cup {NULL} /\ worker'[m].buffer \in Message \cup {NULL}
  BY DEF MailTypeOK
<1>. QED  BY <1>1, WayLists, Zenon DEF Way

(* Threads that are not in SendToSocket, before or after, do not matter.   *)
LEMMA SameRetrying ==
  ASSUME NEW t \in Client, \A u \in Client : u # t => pc'[u] = pc[u] /\ msg'[u] = msg[u],
         pc[t] # "retry", pc'[t] # "retry", NEW x
  PROVE  Retrying(x)' <=> Retrying(x)
BY Zenon DEF Retrying

(* Messages in a socket were sent to that machine, and are underway.       *)
LEMMA InSocket ==
  ASSUME PostOfficeAssumption, MailInv, NEW m \in Machine, NEW x \in Elements(socket[m])
  PROVE  x \in Message /\ x.to = m /\ Underway(x) /\ x.box \in Box
         /\ Places(Way(m, x.box), x) # {}
<1>1. x \in Message /\ socket[m] \in Seq(Message)
  BY DEF MailInv, MailTypeOK, Elements
<1>2. x.box \in Box
  BY <1>1, Zenon DEF PostOfficeAssumption
<1>3. IsWay(Way(m, x.box)) /\ Way(m, x.box)[5] = socket[m]
  BY <1>2, WayTypes DEF Way, MailInv
<1>4. Places(Way(m, x.box), x) # {}
  <2>1. PICK i \in 1 .. Len(socket[m]) : socket[m][i] = x
    BY Zenon DEF Elements
  <2>2. PICK w : w = Way(m, x.box)
    BY Zenon
  <2>3. <<5, i>> \in Places(w, x)
    BY <1>3, <2>1, <2>2, PlaceOf
  <2>. QED  BY <2>2, <2>3, Zenon
<1>. QED  BY <1>1, <1>2, <1>4, Zenon DEF MailInv, WayInv, WayOK, Carries

LEMMA MessageStepInv ==
  ASSUME PostOfficeAssumption, MailInv, [MailNext]_mailVars
  PROVE  MessageInv'
<1> USE DEF inVars, outVars, history, Goto, Unsent
<1>0. /\ MailTypeOK /\ MessageInv /\ SendInv /\ Host \in [Client -> Machine]
      /\ pc \in [Client -> {"idle", "acquire", "send", "retry", "waitSent", "release"}]
      /\ msg \in [Client -> Message \cup {NULL}] /\ handed \in [Machine -> Seq(Message)]
  BY Zenon DEF MailInv, MailTypeOK, PostOfficeAssumption
<1>a. /\ OwnMessage /\ NotSentYet /\ DifferentMessages /\ SentLast /\ LostWasSent
      /\ \A m \in Machine : SentOnce(m)
  BY <1>0, Zenon DEF MessageInv
<1>1. ASSUME UNCHANGED <<pc, msg, handed, lost>>
      PROVE  MessageInv'
  BY <1>a, <1>1, Zenon DEF MessageInv, OwnMessage, NotSentYet, DifferentMessages, SentLast,
     LostWasSent, SentOnce
<1>b. ASSUME UNCHANGED <<handed, lost>>, NEW t \in Client,
             \A u \in Client : u # t => pc'[u] = pc[u] /\ msg'[u] = msg[u],
             pc'[t] \in Unsent => pc[t] \in Unsent /\ msg'[t] = msg[t],
             pc'[t] # "retry"
      PROVE  MessageInv'
  BY <1>a, <1>b DEF MessageInv, OwnMessage, NotSentYet, DifferentMessages, SentLast,
     LostWasSent, SentOnce
<1>2. ASSUME NEW m \in Machine, Halt(m)  PROVE  MessageInv'
  <2>1. UNCHANGED <<pc, msg, handed>> /\ lost' = lost \cup Elements(socket[m])
    BY <1>2, Zenon DEF Halt
  <2>2. \A x \in Elements(socket[m]) : x \in Elements(handed[x.from]) /\ ~Retrying(x)
    BY InSocket DEF Underway
  <2>. QED  BY <1>a, <2>1, <2>2, Zenon DEF MessageInv, OwnMessage, NotSentYet,
               DifferentMessages, SentLast, LostWasSent, SentOnce, Retrying
<1>3. ASSUME NEW t \in Client, Acquire(t)  PROVE  MessageInv'
  BY <1>0, <1>b, <1>3 DEF Acquire
<1>4. ASSUME NEW t \in Client, NetworkSend(t)  PROVE  MessageInv'
  <2>1. PICK n \in Machine, y \in Message :
          /\ n = Host[t] /\ y = msg[t] /\ y.from = n /\ \A m \in Machine : y \notin Elements(handed[m])
    BY <1>0, <1>a, <1>4, Zenon DEF NetworkSend, OwnMessage, NotSentYet
  <2>2. PICK where \in {"waitSent", "retry"} :
          /\ pc[t] = "send" /\ pc' = [pc EXCEPT ![t] = where] /\ UNCHANGED msg
          /\ handed' = [handed EXCEPT ![n] = Append(handed[n], y)]
          /\ lost' = IF where = "retry" THEN lost ELSE lost \cup {y}
    BY <1>4, <2>1 DEF NetworkSend
  <2>3. PICK out, new :
          out \in Seq(Message) /\ out = handed[n] /\ new = Append(out, y) /\ handed'[n] = new
    BY <1>0, <2>2, Zenon
  <2>4. \A m \in Machine : m # n => handed'[m] = handed[m]
    BY <1>0, <2>2
  <2>5. /\ Elements(new) = Elements(out) \cup {y} /\ Len(out) \in Nat /\ Len(new) = Len(out) + 1
        /\ new[Len(out) + 1] = y /\ \A i \in 1 .. Len(out) : new[i] = out[i]
        /\ \A i \in 1 .. Len(new) : i \in 1 .. Len(out) \/ i = Len(out) + 1
    BY <2>3, AppendElements
  <2>6. pc'[t] = where /\ \A u \in Client : u # t => pc'[u] = pc[u]
    BY <1>0, <2>2
  <2>7. ASSUME NEW m \in Machine, NEW x, x # y, x \notin Elements(handed[m])
        PROVE  x \notin Elements(handed'[m])
    BY <2>3, <2>4, <2>5, <2>7, Zenon
  <2>8. ASSUME NEW u \in Client, pc'[u] \in Unsent
        PROVE  u # t /\ pc[u] \in Unsent /\ msg[u] # y
    <3>1. u # t /\ pc[u] \in Unsent
      BY <2>6, <2>8
    <3>. QED  BY <1>a, <2>1, <2>2, <3>1 DEF DifferentMessages
  <2>9. OwnMessage'
    BY <1>a, <2>1, <2>2, <2>6 DEF OwnMessage
  <2>10. NotSentYet' /\ DifferentMessages'
    <3>1. NotSentYet'
      BY <1>a, <2>2, <2>7, <2>8, Zenon DEF NotSentYet
    <3>2. DifferentMessages'
      BY <1>a, <2>2, <2>8, Zenon DEF DifferentMessages
    <3>. QED  BY <3>1, <3>2
  <2>11. SentLast'
    <3> SUFFICES ASSUME NEW u \in Client, pc'[u] = "retry"
                 PROVE  LET s == handed'[Host[u]] IN
                        Len(s) > 0 /\ s[Len(s)] = msg'[u] /\ msg'[u] \notin lost'
      BY Zenon DEF SentLast
    <3>1. CASE u = t
      <4>1. y \notin lost
        BY <1>a, <2>1, Zenon DEF LostWasSent
      <4>2. Len(new) > 0 /\ new[Len(new)] = y
        BY <2>5
      <4>3. lost' = lost
        BY <2>2, <2>6, <3>1, Zenon
      <4>4. handed'[Host[u]] = new /\ msg'[u] = y
        BY <2>1, <2>2, <2>3, <3>1, Zenon
      <4>. QED  BY <4>1, <4>2, <4>3, <4>4, Zenon
    <3>2. CASE u # t
      <4>1. pc[u] = "retry" /\ Host[u] \in Machine
        BY <1>0, <2>6, <3>2
      <4>2. holder[Host[u]] = u /\ holder[n] = t
        BY <1>0, <2>1, <2>2, <4>1, Zenon DEF SendInv, Holding
      <4>3. Host[u] # n
        BY <3>2, <4>2, Zenon
      <4>4. msg[u] # y
        BY <1>a, <2>1, <4>1, <4>3 DEF OwnMessage
      <4>5. handed'[Host[u]] = handed[Host[u]]
        BY <2>4, <4>1, <4>3, Zenon
      <4>. QED  BY <1>a, <2>2, <4>1, <4>4, <4>5, Zenon DEF SentLast
    <3>. QED  BY <3>1, <3>2, Zenon
  <2>12. ASSUME NEW m \in Machine  PROVE  SentOnce(m)'
    <3>1. CASE m = n
      <4>0. SentOnce(n)
        BY <1>a, Zenon
      <4>1. \A i \in 1 .. Len(new) : new[i].from = n
        BY <4>0, <2>1, <2>3, <2>5, Zenon DEF SentOnce
      <4>2. \A i \in 1 .. Len(out) : out[i] # y
        BY <2>1, <2>3, Zenon DEF Elements
      <4>3. \A i, j \in 1 .. Len(out) : out[i] = out[j] => i = j
        BY <4>0, <2>3, Zenon DEF SentOnce
      <4>4. \A i, j \in 1 .. Len(new) : new[i] = new[j] => i = j
        BY <2>5, <4>2, <4>3
      <4>5. handed'[m] = new
        BY <2>3, <3>1, Zenon
      <4>. QED  BY <3>1, <4>1, <4>4, <4>5, Zenon DEF SentOnce
    <3>2. CASE m # n
      BY <1>a, <2>4, <3>2, Zenon DEF SentOnce
    <3>. QED  BY <3>1, <3>2, Zenon
  <2>13. LostWasSent'
    <3>1. ASSUME NEW x \in lost  PROVE  x \in Elements(handed'[x.from])
      <4>1. x \in Elements(handed[x.from]) /\ x.from \in Machine
        BY <1>a, <1>0, Zenon DEF LostWasSent, MailTypeOK, PostOfficeAssumption
      <4>. QED  BY <2>3, <2>4, <2>5, <4>1, Zenon
    <3>2. y \in Elements(handed'[y.from])
      BY <2>1, <2>3, <2>5, Zenon
    <3>. QED  BY <2>2, <3>1, <3>2 DEF LostWasSent
  <2>. QED  BY <2>9, <2>10, <2>11, <2>12, <2>13, Zenon DEF MessageInv
<1>5. ASSUME NEW t \in Client, SendToSocket(t)  PROVE  MessageInv'
  <2>1. pc[t] = "retry"
    BY <1>5, SocketCases, Zenon
  <2>2. CASE PutsIntoSocket(t)
    BY <1>0, <1>b, <2>2 DEF PutsIntoSocket, Rest
  <2>3. CASE TriesAgain(t)
    <3>1. pc' = pc /\ UNCHANGED <<msg, handed, lost>>
      BY <1>0, <2>1, <2>3 DEF TriesAgain, Rest
    <3>. QED  BY <1>1, <3>1, Zenon
  <2>4. CASE GivesUp(t)
    <3>1. /\ pc' = [pc EXCEPT ![t] = "waitSent"] /\ UNCHANGED <<msg, handed>>
          /\ lost' = lost \cup {msg[t]}
      BY <2>4, Zenon DEF GivesUp, Rest
    <3>2. msg[t] \in Elements(handed[msg[t].from])
      <4>1. PICK out \in Seq(Message) :
              out = handed[Host[t]] /\ Len(out) > 0 /\ out[Len(out)] = msg[t] /\ msg[t].from = Host[t]
        BY <1>0, <1>a, <2>1 DEF SentLast, OwnMessage
      <4>2. Len(out) \in 1 .. Len(out)
        BY <4>1, LastIndex, Zenon
      <4>. QED  BY <4>1, <4>2, Zenon DEF Elements
    <3>3. \A u \in Client : u # t /\ pc[u] = "retry" => msg[u] # msg[t]
      <4> SUFFICES ASSUME NEW u \in Client, u # t, pc[u] = "retry", msg[u] = msg[t]
                   PROVE  FALSE
        BY Zenon
      <4>1. Host[u] = Host[t]
        BY <1>a, <2>1 DEF OwnMessage
      <4>2. holder[Host[u]] = u /\ holder[Host[t]] = t
        BY <1>0, <2>1, Zenon DEF SendInv, Holding
      <4>. QED  BY <4>1, <4>2, Zenon
    <3>. QED  BY <1>0, <1>a, <3>1, <3>2, <3>3 DEF MessageInv, OwnMessage, NotSentYet,
                 DifferentMessages, SentLast, LostWasSent, SentOnce
  <2>. QED  BY <1>5, <2>2, <2>3, <2>4, SocketCases, Zenon
<1>6. ASSUME NEW t \in Client, Sent(t) \/ Release(t)  PROVE  MessageInv'
  BY <1>0, <1>b, <1>6, Zenon DEF Sent, Release
<1>7. ASSUME NEW t \in Client, NEW x \in Message, Fresh(x), CallSend(t, x)  PROVE  MessageInv'
  BY <1>0, <1>a, <1>7 DEF CallSend, Fresh, MessageInv, OwnMessage, NotSentYet,
     DifferentMessages, SentLast, LostWasSent, SentOnce
<1>8. ASSUME NEW t \in Client, NEW b \in Box, Receive(t, b)  PROVE  MessageInv'
  BY <1>0, <1>b, <1>8, Zenon DEF Receive
<1>9. ASSUME NEW m \in Machine, Start(m) \/ MachineStep(m)  PROVE  MessageInv'
  BY <1>1, <1>9, Zenon DEF Start, MachineStep, SendCallBack, RecvCallBack, WorkerWakeup,
     WorkerReceive, WorkerPut
<1>. QED  BY <1>1, <1>2, <1>3, <1>4, <1>5, <1>6, <1>7, <1>8, <1>9, Zenon
          DEF MailNext, SendStep, mailVars


-----------------------------------------------------------------------------
(* The order on a way after each kind of step.                             *)
LEMMA MovedInOrder ==
  ASSUME NEW w, IsWay(w), NEW v, IsWay(v), NEW len \in Nat, NEW k \in Int,
         \A x \in Message : FromWay(w, v, len, k, x), NEW out \in Seq(Message), Ordered(w, out)
  PROVE  Ordered(v, out)
<1> SUFFICES ASSUME NEW i \in 1 .. Len(out), NEW j \in 1 .. Len(out), i < j
             PROVE  Ahead(Places(v, out[i]), Places(v, out[j]))
  BY Zenon DEF Ordered
<1>1. out[i] \in Message /\ out[j] \in Message
  OBVIOUS
<1>2. Ahead(Places(w, out[i]), Places(w, out[j]))
  BY Zenon DEF Ordered
<1>3. \A x : Places(w, x) \in SUBSET Place /\ Places(v, x) \in SUBSET Place
  BY PlaceOf
<1>. QED  BY <1>1, <1>2, <1>3, CameAhead, Zenon DEF FromWay

LEMMA EnterInOrder ==
  ASSUME NEW w, IsWay(w), NEW v, IsWay(v), NEW y \in Message, Enters(w, v, y), Places(w, y) = {},
         NEW out \in Seq(Message), Ordered(w, out),
         \A i \in 1 .. Len(out) : out[i] = y => i = Len(out)
  PROVE  Ordered(v, out)
<1> SUFFICES ASSUME NEW i \in 1 .. Len(out), NEW j \in 1 .. Len(out), i < j
             PROVE  Ahead(Places(v, out[i]), Places(v, out[j]))
  BY Zenon DEF Ordered
<1>1. out[i] # y
  OBVIOUS
<1>2. Ahead(Places(w, out[i]), Places(w, out[j]))
  BY Zenon DEF Ordered
<1>3. CASE out[j] = y
  BY <1>1, <1>3, EnterStep, Zenon
<1>4. CASE out[j] # y
  <2>1. \A x : x # y => Places(v, x) = Places(w, x)
    BY EnterStep
  <2>2. Places(v, out[i]) = Places(w, out[i]) /\ Places(v, out[j]) = Places(w, out[j])
    BY <1>1, <1>4, <2>1, Zenon
  <2>. QED  BY <1>2, <2>2, Zenon
<1>. QED  BY <1>3, <1>4, Zenon

LEMMA AppendInOrder ==
  ASSUME NEW w, NEW y \in Message, Places(w, y) = {}, NEW out \in Seq(Message), Ordered(w, out)
  PROVE  Ordered(w, Append(out, y))
<1> SUFFICES ASSUME NEW new, new = Append(out, y),
                    NEW i \in 1 .. Len(new), NEW j \in 1 .. Len(new), i < j
             PROVE  Ahead(Places(w, new[i]), Places(w, new[j]))
  BY Zenon DEF Ordered
<1>1. i \in 1 .. Len(out) /\ new[i] = out[i]
  OBVIOUS
<1>2. CASE j \in 1 .. Len(out)
  <2>1. new[j] = out[j]
    BY <1>2
  <2>. QED  BY <1>1, <1>2, <2>1, Zenon DEF Ordered
<1>3. CASE j \notin 1 .. Len(out)
  <2>1. new[j] = y
    BY <1>3
  <2>. QED  BY <2>1, Zenon DEF Ahead
<1>. QED  BY <1>2, <1>3, Zenon

(* A step that moves messages along a way, or leaves it as it is.          *)
LEMMA WayMoved ==
  ASSUME NEW m \in Machine, NEW b \in Box, NEW w, IsWay(w), NEW v, IsWay(v),
         WayOK(w, m, b), NEW len \in Nat, NEW k \in Int,
         \A x \in Message : FromWay(w, v, len, k, x),
         \A x \in Message : x.box = b /\ Places(w, x) # {} /\ Underway(x)' => Places(v, x) # {},
         \A x \in Message : k = 3 /\ <<2, len + 1>> \in Places(v, x) => x.box = b,
         \A x \in Message : x.to = m /\ Underway(x)' => Underway(x),
         \A x \in Message : Places(v, x) # {} /\ x.to = m /\ Underway(x) => Underway(x)',
         handed' = handed, handed \in [Machine -> Seq(Message)]
  PROVE  WayOK(v, m, b)'
<1>1. ASSUME NEW x \in Message, NEW p \in Places(v, x)
      PROVE  \E q \in Places(w, x) : Came(len, k, p, q)
  BY <1>1, Zenon DEF FromWay
<1>2. Carries(v, m)'
  BY <1>1, Zenon DEF WayOK, Carries
<1>3. Sorted(v, b)'
  <2> SUFFICES ASSUME NEW x \in Message, NEW p \in Places(v, x), p[1] <= 2
               PROVE  x.box = b
    BY Zenon DEF Sorted
  <2>1. PICK q \in Places(w, x) : Came(len, k, p, q)
    BY <1>1, Zenon
  <2>2. q \in Place /\ p \in Place
    BY PlaceOf, Zenon
  <2>3. q[1] <= 2 \/ (k = 3 /\ p = <<2, len + 1>>)
    BY <2>1, <2>2 DEF Came, Place
  <2>. QED  BY <2>3, Zenon DEF WayOK, Sorted
<1>4. Complete(v, m, b)'
  BY Zenon DEF WayOK, Complete
<1>5. ASSUME NEW x \in Message  PROVE  Once(Places(v, x))
  <2>1. Once(Places(w, x)) /\ Places(w, x) \in SUBSET Place /\ Places(v, x) \in SUBSET Place
    BY PlaceOf, Zenon DEF WayOK
  <2>2. \A p \in Places(v, x) : \E q \in Places(w, x) : Came(len, k, p, q)
    BY <1>1, Zenon
  <2>. QED  BY <2>1, <2>2, CameOnce, Zenon
<1>6. ASSUME NEW from \in Machine  PROVE  Ordered(v, handed[from])
  <2>1. Ordered(w, handed[from]) /\ handed[from] \in Seq(Message)
    BY DEF WayOK
  <2>. QED  BY <2>1, MovedInOrder
<1>. QED  BY <1>2, <1>3, <1>4, <1>5, <1>6, Zenon DEF WayOK


(* What a step does not change for a message that is on its way.           *)
LEMMA SameWay ==
  ASSUME NEW m, NEW b, NEW w, WayOK(w, m, b), handed' = handed,
         \A x \in Message : x.to = m => (Underway(x)' <=> Underway(x))
  PROVE  WayOK(w, m, b)'
<1>1. Carries(w, m)' /\ Complete(w, m, b)'
  BY Zenon DEF WayOK, Carries, Complete
<1>. QED  BY <1>1, Zenon DEF WayOK, Sorted

LEMMA ListBefore ==
  ASSUME NEW k \in 2 .. 5
  PROVE  k \in 1 .. 5 /\ k - 1 \in 1 .. 5 /\ k \in Int
OBVIOUS

(* Moves along the way while no message changes its state.                 *)
LEMMA MovedWay ==
  ASSUME NEW m \in Machine, NEW b \in Box, NEW w, IsWay(w), NEW v, IsWay(v), WayOK(w, m, b),
         handed' = handed, handed \in [Machine -> Seq(Message)],
         \A x \in Message : Underway(x)' <=> Underway(x),
         NEW k \in 2 .. 5,
         \/ Moves(w, v, k) /\ (k = 3 => Head(w[3]).box = b)
         \/ Drops(w, v, k) /\ Head(w[k]).box # b
  PROVE  WayOK(v, m, b)'
<1>0. k \in 1 .. 5 /\ k - 1 \in 1 .. 5 /\ k \in Int
  BY ListBefore, Zenon
<1>1. PICK len \in Nat : len = Len(w[k - 1])
  BY <1>0, PlaceOf, Zenon
<1>2. \A x \in Message : FromWay(w, v, len, k, x)
  BY <1>1, MoveStep, DropStep, Zenon
<1>3. \A x \in Message : x.box = b /\ Places(w, x) # {} => Places(v, x) # {}
  BY MoveStep, DropStep, Zenon
<1>4. ASSUME NEW x \in Message, k = 3, <<2, len + 1>> \in Places(v, x)
      PROVE  x.box = b
  <2>1. len + 1 \in 1 .. Len(v[2]) /\ v[2][len + 1] = x
    BY <1>4, PlaceOf
  <2>2. CASE Moves(w, v, 3) /\ Head(w[3]).box = b
    <3>1. w[2] \in Seq(Message) /\ w[3] \in Seq(Message) /\ w[3] # << >>
      BY <2>2 DEF IsWay, Moves
    <3>2. v[2] = Append(w[2], Head(w[3])) /\ Head(w[3]) \in Message /\ len = Len(w[2])
      BY <1>1, <1>4, <2>2, <3>1 DEF Moves
    <3>3. v[2][len + 1] = Head(w[3])
      BY <3>1, <3>2, AppendElements
    <3>. QED  BY <2>1, <2>2, <3>3, Zenon
  <2>3. CASE Drops(w, v, 3)
    <3>1. v[2] = w[2] /\ len = Len(w[2])
      BY <1>1, <1>4, <2>3 DEF Drops, Same
    <3>. QED  BY <2>1, <3>1
  <2>. QED  BY <1>4, <2>2, <2>3
<1>. QED  BY <1>0, <1>2, <1>3, <1>4, WayMoved, Zenon


-----------------------------------------------------------------------------
(* The message a thread in SendToSocket has: no other thread has it, and   *)
(* it is the last that was sent.                                           *)
LEMMA BeingSent ==
  ASSUME PostOfficeAssumption, MailInv, NEW t \in Client, pc[t] = "retry"
  PROVE  /\ msg[t] \in Message /\ msg[t] \notin lost /\ Retrying(msg[t])
         /\ msg[t] \in Elements(handed[msg[t].from])
         /\ \A u \in Client : pc[u] = "retry" /\ msg[u] = msg[t] => u = t
         /\ \A from \in Machine : \A i \in 1 .. Len(handed[from]) :
              handed[from][i] = msg[t] => i = Len(handed[from])
<1>1. OwnMessage /\ SentLast /\ SendInv /\ \A m \in Machine : SentOnce(m)
  BY Zenon DEF MailInv, MessageInv
<1>2. Host[t] \in Machine /\ handed \in [Machine -> Seq(Message)]
  BY DEF PostOfficeAssumption, MailInv, MailTypeOK
<1>3. msg[t] \in Message /\ msg[t].from = Host[t]
  BY <1>1 DEF OwnMessage
<1>4. PICK out \in Seq(Message) :
        out = handed[Host[t]] /\ Len(out) > 0 /\ out[Len(out)] = msg[t] /\ msg[t] \notin lost
  BY <1>1, <1>2 DEF SentLast
<1>5. Len(out) \in 1 .. Len(out)
  BY <1>4, LastIndex, Zenon
<1>6. msg[t] \in Elements(handed[msg[t].from])
  BY <1>3, <1>4, <1>5, Zenon DEF Elements
<1>7. ASSUME NEW u \in Client, pc[u] = "retry", msg[u] = msg[t]  PROVE  u = t
  <2>1. Host[u] = Host[t]
    BY <1>1, <1>3, <1>7 DEF OwnMessage
  <2>2. holder[Host[u]] = u /\ holder[Host[t]] = t
    BY <1>1, <1>7, Zenon DEF SendInv, Holding
  <2>. QED  BY <2>1, <2>2, Zenon
<1>8. ASSUME NEW from \in Machine, NEW i \in 1 .. Len(handed[from]), handed[from][i] = msg[t]
      PROVE  i = Len(handed[from])
  <2>1. from = Host[t]
    BY <1>1, <1>3, <1>8, Zenon DEF SentOnce
  <2>2. out[i] = out[Len(out)] /\ i \in 1 .. Len(out) /\ SentOnce(Host[t])
    BY <1>1, <1>2, <1>4, <1>8, <2>1, Zenon
  <2>. QED  BY <1>4, <1>5, <2>1, <2>2, Zenon DEF SentOnce
<1>. QED  BY <1>3, <1>4, <1>6, <1>7, <1>8, Zenon DEF Retrying

(* A turn of SendToSocket's loop.                                          *)
LEMMA SocketStep ==
  ASSUME PostOfficeAssumption, MailInv, MailTypeOK', NEW t \in Client, SendToSocket(t),
         NEW m \in Machine, NEW b \in Box
  PROVE  WayInv(m, b)'
<1>1. PICK w, v : w = Way(m, b) /\ v = Way(m, b)'
  BY Zenon
<1>2. IsWay(w) /\ IsWay(v)
  BY <1>1, WayTypes, WayTypesNext, Zenon DEF MailInv
<1>3. WayOK(w, m, b)
  BY <1>1, Zenon DEF MailInv, WayInv
<1> SUFFICES WayOK(v, m, b)'
  BY <1>1, Zenon DEF WayInv
<1>4. /\ pc[t] = "retry" /\ Host \in [Client -> Machine]
      /\ pc \in [Client -> {"idle", "acquire", "send", "retry", "waitSent", "release"}]
      /\ socket \in [Machine -> Seq(Message)] /\ handed \in [Machine -> Seq(Message)]
  BY SocketCases, Zenon DEF MailInv, MailTypeOK, PostOfficeAssumption
<1>5. PICK y \in Message :
        /\ y = msg[t] /\ y \notin lost /\ Retrying(y) /\ y \in Elements(handed[y.from])
        /\ \A u \in Client : pc[u] = "retry" /\ msg[u] = y => u = t
        /\ \A from \in Machine : \A i \in 1 .. Len(handed[from]) :
             handed[from][i] = y => i = Len(handed[from])
  BY <1>4, BeingSent, Zenon
<1>6. ASSUME pc' = [pc EXCEPT ![t] = "waitSent"], msg' = msg
      PROVE  ~Retrying(y)' /\ \A x : x # y => (Retrying(x)' <=> Retrying(x))
  <2>1. pc'[t] = "waitSent" /\ \A u \in Client : u # t => pc'[u] = pc[u]
    BY <1>4, <1>6
  <2>. QED  BY <1>5, <1>6, <2>1 DEF Retrying
<1>7. CASE TriesAgain(t)
  <2>1. pc' = pc /\ UNCHANGED <<socket, lost, Rest>>
    BY <1>4, <1>7 DEF TriesAgain
  <2>2. v = w /\ handed' = handed /\ \A x : Underway(x)' <=> Underway(x)
    BY <1>1, <2>1, Zenon DEF Rest, Way, Underway, Retrying
  <2>. QED  BY <1>3, <2>2, SameWay, Zenon
<1>8. CASE GivesUp(t)
  <2>1. /\ pc' = [pc EXCEPT ![t] = "waitSent"] /\ lost' = lost \cup {y} /\ UNCHANGED <<socket, Rest>>
    BY <1>5, <1>8, Zenon DEF GivesUp
  <2>2. v = w /\ handed' = handed /\ msg' = msg
    BY <1>1, <2>1, Zenon DEF Rest, Way
  <2>3. \A x : Underway(x)' <=> Underway(x)
    BY <1>5, <1>6, <2>1, <2>2, Zenon DEF Underway
  <2>. QED  BY <1>3, <2>2, <2>3, SameWay, Zenon
<1>9. CASE PutsIntoSocket(t)
  <2>1. /\ pc' = [pc EXCEPT ![t] = "waitSent"] /\ lost' = lost /\ UNCHANGED Rest
        /\ socket' = [socket EXCEPT ![y.to] = Append(socket[y.to], y)]
    BY <1>5, <1>9, Zenon DEF PutsIntoSocket
  <2>2. handed' = handed /\ msg' = msg
    BY <2>1, Zenon DEF Rest
  <2>3. ~Underway(y) /\ Underway(y)' /\ \A x : x # y => (Underway(x)' <=> Underway(x))
    BY <1>5, <1>6, <2>1, <2>2, Zenon DEF Underway
  <2>4. CASE y.to # m
    <3>1. socket'[m] = socket[m]
      BY <1>4, <2>1, <2>4
    <3>2. v = w
      BY <1>1, <2>1, <3>1, Zenon DEF Rest, Way
    <3>. QED  BY <1>3, <2>2, <2>3, <2>4, <3>2, SameWay, Zenon
  <2>5. CASE y.to = m
    <3>1. socket'[m] = Append(socket[m], y)
      BY <1>4, <2>1, <2>5
    <3>2. Enters(w, v, y)
      <4>0. UNCHANGED <<received, boxes, worker, inHdr>>
        BY <2>1, Zenon DEF Rest
      <4>1. w[5] = socket[m] /\ v[5] = socket'[m]
        BY <1>1 DEF Way
      <4>2. v[1] = w[1] /\ v[2] = w[2] /\ v[3] = w[3] /\ v[4] = w[4]
        BY <1>1, <4>0 DEF Way
      <4>. QED  BY <3>1, <4>1, <4>2 DEF Enters, Same
    <3>3. Places(w, y) = {}
      BY <1>3, <2>3, Zenon DEF WayOK, Carries
    <3>4. \A x : x # y => Places(v, x) = Places(w, x)
      BY <1>2, <3>2, EnterStep
    <3>5. Places(v, y) = {<<5, Len(w[5]) + 1>>}
      BY <1>2, <3>2, <3>3, EnterStep
    <3>6. Carries(v, m)' /\ Complete(v, m, b)'
      BY <1>3, <2>3, <2>5, <3>4, <3>5, Zenon DEF WayOK, Carries, Complete
    <3>7. Sorted(v, b)'
      BY <1>3, <3>4, <3>5 DEF WayOK, Sorted
    <3>8. \A x \in Message : Once(Places(v, x))
      <4>1. Once(Places(v, y))
        BY <3>5, Zenon DEF Once
      <4>. QED  BY <1>3, <3>4, <4>1, Zenon DEF WayOK
    <3>9. ASSUME NEW from \in Machine  PROVE  Ordered(v, handed[from])
      <4>1. handed[from] \in Seq(Message) /\ Ordered(w, handed[from])
        BY <1>3, <1>4 DEF WayOK
      <4>2. \A i \in 1 .. Len(handed[from]) : handed[from][i] = y => i = Len(handed[from])
        BY <1>5, Zenon
      <4>. QED  BY <1>2, <3>2, <3>3, <4>1, <4>2, EnterInOrder
    <3>. QED  BY <2>2, <3>6, <3>7, <3>8, <3>9, Zenon DEF WayOK
  <2>. QED  BY <2>4, <2>5, Zenon
<1>. QED  BY <1>7, <1>8, <1>9, SocketCases, Zenon


(* NetworkOutput::Send: the message is on no way, and is lost or still to  *)
(* be put into a socket afterwards.                                        *)
LEMMA NetworkStep ==
  ASSUME PostOfficeAssumption, MailInv, NEW t \in Client, NetworkSend(t),
         NEW m \in Machine, NEW b \in Box
  PROVE  WayInv(m, b)'
<1> USE DEF inVars, outVars, Goto
<1>1. OwnMessage /\ NotSentYet /\ WayOK(Way(m, b), m, b)
  BY Zenon DEF MailInv, MessageInv, WayInv
<1>2. /\ Host \in [Client -> Machine] /\ handed \in [Machine -> Seq(Message)]
      /\ pc \in [Client -> {"idle", "acquire", "send", "retry", "waitSent", "release"}]
  BY Zenon DEF MailInv, MailTypeOK, PostOfficeAssumption
<1>3. PICK n \in Machine, y \in Message :
        /\ n = Host[t] /\ y = msg[t] /\ y.from = n /\ \A l \in Machine : y \notin Elements(handed[l])
  BY <1>1, <1>2 DEF NetworkSend, OwnMessage, NotSentYet, Unsent
<1>4. PICK where \in {"waitSent", "retry"} :
        /\ pc[t] = "send" /\ pc' = [pc EXCEPT ![t] = where] /\ UNCHANGED msg
        /\ handed' = [handed EXCEPT ![n] = Append(handed[n], y)]
        /\ lost' = IF where = "retry" THEN lost ELSE lost \cup {y}
  BY <1>3 DEF NetworkSend
<1>5. PICK w : w = Way(m, b) /\ w = Way(m, b)'
  BY Zenon DEF NetworkSend, Way
<1>6. PICK out, new : out \in Seq(Message) /\ out = handed[n] /\ new = Append(out, y) /\ handed'[n] = new
  BY <1>2, <1>4, Zenon
<1>7. Elements(new) = Elements(out) \cup {y}
  BY <1>6, AppendElements
<1>8. \A l \in Machine : l # n => handed'[l] = handed[l]
  BY <1>2, <1>4
<1>9. pc'[t] = where /\ \A u \in Client : u # t => pc'[u] = pc[u]
  BY <1>2, <1>4
<1>10. ~Underway(y) /\ ~Underway(y)'
  <2>1. where = "retry" => Retrying(y)'
    BY <1>3, <1>4, <1>9, Zenon DEF Retrying
  <2>2. where # "retry" => y \in lost'
    BY <1>4
  <2>. QED  BY <1>3, <2>1, <2>2, Zenon DEF Underway
<1>11. ASSUME NEW x \in Message, x # y
       PROVE  Underway(x)' <=> Underway(x)
  <2>1. Retrying(x)' <=> Retrying(x)
    BY <1>3, <1>4, <1>9, <1>11 DEF Retrying
  <2>2. x \in lost' <=> x \in lost
    BY <1>4, <1>11
  <2>3. x.from \in Machine
    BY Zenon DEF PostOfficeAssumption
  <2>4. x \in Elements(handed'[x.from]) <=> x \in Elements(handed[x.from])
    BY <1>6, <1>7, <1>8, <1>11, <2>3, Zenon
  <2>. QED  BY <2>1, <2>2, <2>4, Zenon DEF Underway
<1>12. Carries(w, m)' /\ Complete(w, m, b)'
  BY <1>1, <1>5, <1>10, <1>11, Zenon DEF WayOK, Carries, Complete
<1>13. ASSUME NEW from \in Machine  PROVE  Ordered(w, handed'[from])
  <2>1. Ordered(w, handed[from]) /\ Places(w, y) = {}
    BY <1>1, <1>5, <1>10, Zenon DEF WayOK, Carries
  <2>2. CASE from = n
    <3>1. Ordered(w, out)
      BY <1>6, <2>1, <2>2, Zenon
    <3>2. Ordered(w, new)
      BY <1>6, <2>1, <3>1, AppendInOrder
    <3>. QED  BY <1>6, <2>2, <3>2, Zenon
  <2>3. CASE from # n
    BY <1>8, <2>1, <2>3, Zenon
  <2>. QED  BY <2>2, <2>3, Zenon
<1>14. WayOK(w, m, b)'
  BY <1>1, <1>5, <1>12, <1>13, Zenon DEF WayOK, Sorted
<1>. QED  BY <1>5, <1>14, Zenon DEF WayInv

(* A halting machine: what was in its socket is lost.                      *)
LEMMA HaltStep ==
  ASSUME PostOfficeAssumption, MailInv, MailTypeOK', NEW n \in Machine, Halt(n),
         NEW m \in Machine, NEW b \in Box
  PROVE  WayInv(m, b)'
<1> USE DEF outVars
<1>1. PICK w, v : w = Way(m, b) /\ v = Way(m, b)'
  BY Zenon
<1>2. IsWay(w) /\ IsWay(v) /\ WayOK(w, m, b)
  BY <1>1, WayTypes, WayTypesNext, Zenon DEF MailInv, WayInv
<1>3. socket \in [Machine -> Seq(Message)] /\ handed \in [Machine -> Seq(Message)]
  BY Zenon DEF MailInv, MailTypeOK
<1>4. /\ lost' = lost \cup Elements(socket[n]) /\ socket' = [socket EXCEPT ![n] = << >>]
      /\ UNCHANGED <<inHdr, worker, boxes, received, pc, msg, handed>>
  BY Zenon DEF Halt
<1>5. \A x : Underway(x)' <=> Underway(x) /\ x \notin Elements(socket[n])
  BY <1>4, Zenon DEF Underway, Retrying
<1>6. CASE m # n
  <2>1. socket'[m] = socket[m]
    BY <1>3, <1>4, <1>6
  <2>2. v = w
    BY <1>1, <1>4, <2>1, Zenon DEF Way
  <2>3. \A x \in Message : x.to = m => x \notin Elements(socket[n])
    BY <1>6, InSocket, Zenon
  <2>4. WayOK(v, m, b)'
    BY <1>2, <1>4, <1>5, <2>2, <2>3, SameWay, Zenon
  <2>. QED  BY <1>1, <2>4, Zenon DEF WayInv
<1>7. CASE m = n
  <2>1. socket'[m] = << >> /\ w[5] = socket[m]
    BY <1>1, <1>3, <1>4, <1>7 DEF Way
  <2>2. Clears(w, v)
    BY <1>1, <1>4, <2>1 DEF Clears, Same, Way
  <2>3. \A x \in Message : FromWay(w, v, 0, 0, x)
    BY <1>2, <2>2, ClearStep
  <2>4. \A x \in Message : Places(w, x) # {} /\ Underway(x)' => Places(v, x) # {}
    BY <1>2, <1>5, <1>7, <2>1, <2>2, ClearStep, Zenon
  <2>5. ASSUME NEW x \in Message, Places(v, x) # {}, Underway(x)  PROVE  Underway(x)'
    <3>1. Once(Places(w, x))
      BY <1>2, Zenon DEF WayOK
    <3>2. x \notin Elements(w[5])
      BY <1>2, <2>2, <2>5, <3>1, ClearStep, Zenon
    <3>. QED  BY <1>5, <1>7, <2>1, <2>5, <3>2, Zenon
  <2>6. \A x \in Message : Underway(x)' => Underway(x)
    BY <1>5, Zenon
  <2>7. WayOK(v, m, b)'
    <3>1. \A x \in Message : x.box = b /\ Places(w, x) # {} /\ Underway(x)' => Places(v, x) # {}
      BY <2>4, Zenon
    <3>2. \A x \in Message : 0 = 3 /\ <<2, 0 + 1>> \in Places(v, x) => x.box = b
      OBVIOUS
    <3>3. \A x \in Message : x.to = m /\ Underway(x)' => Underway(x)
      BY <2>6, Zenon
    <3>4. \A x \in Message : Places(v, x) # {} /\ x.to = m /\ Underway(x) => Underway(x)'
      BY <2>5, Zenon
    <3>5. 0 \in Nat /\ 0 \in Int /\ handed' = handed
      BY <1>4
    <3>. QED  BY <1>2, <1>3, <2>3, <3>1, <3>2, <3>3, <3>4, <3>5, WayMoved, Zenon
  <2>. QED  BY <1>1, <2>7, Zenon DEF WayInv
<1>. QED  BY <1>6, <1>7, Zenon


LEMMA HandLists ==
  ASSUME PostOfficeAssumption, NEW x \in Message
  PROVE  /\ InHand(x) # << >> /\ Head(InHand(x)) = x /\ Tail(InHand(x)) = InHand(NULL)
         /\ InHand(NULL) = << >> /\ Append(InHand(NULL), x) = InHand(x)
<1>1. x # NULL
  BY Zenon DEF PostOfficeAssumption
<1>2. InHand(x) = <<x>> /\ InHand(NULL) = << >>
  BY <1>1, Zenon DEF InHand
<1>3. <<x>> # << >> /\ Head(<<x>>) = x /\ Tail(<<x>>) = << >> /\ Append(<< >>, x) = <<x>>
  OBVIOUS
<1>. QED  BY <1>2, <1>3, Zenon

LEMMA WayStepInv ==
  ASSUME PostOfficeAssumption, MailInv, MailTypeOK', [MailNext]_mailVars,
         NEW m \in Machine, NEW b \in Box
  PROVE  WayInv(m, b)'
<1> USE DEF inVars, outVars, history, Goto
<1>1. PICK w, v : w = Way(m, b) /\ v = Way(m, b)'
  BY Zenon
<1>2. IsWay(w) /\ IsWay(v) /\ WayOK(w, m, b) /\ RecvInv
  BY <1>1, WayTypes, WayTypesNext, Zenon DEF MailInv, WayInv
<1>3. /\ Host \in [Client -> Machine] /\ handed \in [Machine -> Seq(Message)]
      /\ pc \in [Client -> {"idle", "acquire", "send", "retry", "waitSent", "release"}]
      /\ msg \in [Client -> Message \cup {NULL}] /\ inHdr \in [Machine -> Message \cup {NULL}]
      /\ worker \in [Machine -> [at : {"wait", "receive", "put"}, buffer : Message \cup {NULL}]]
      /\ socket \in [Machine -> Seq(Message)] /\ boxes \in [Machine -> [Box -> Seq(Message)]]
      /\ received \in [Machine -> [Box -> Seq(Message)]]
  BY Zenon DEF MailInv, MailTypeOK, PostOfficeAssumption
<1>4. /\ w[1] = received[m][b] /\ w[2] = boxes[m][b] /\ w[3] = InHand(worker[m].buffer)
      /\ w[4] = InHand(inHdr[m]) /\ w[5] = socket[m]
  BY <1>1 DEF Way
<1>5. /\ v[1] = received'[m][b] /\ v[2] = boxes'[m][b] /\ v[3] = InHand(worker'[m].buffer)
      /\ v[4] = InHand(inHdr'[m]) /\ v[5] = socket'[m]
  BY <1>1 DEF Way
<1>6. ASSUME v = w, UNCHANGED <<handed, lost>>, \A x : Retrying(x)' <=> Retrying(x)
      PROVE  WayInv(m, b)'
  <2>1. \A x : Underway(x)' <=> Underway(x)
    BY <1>6, Zenon DEF Underway
  <2>2. WayOK(v, m, b)'
    BY <1>2, <1>6, <2>1, SameWay, Zenon
  <2>. QED  BY <1>1, <2>2, Zenon DEF WayInv
<1>7. ASSUME UNCHANGED <<handed, lost>>, \A x : Retrying(x)' <=> Retrying(x), NEW k \in 2 .. 5,
             \/ Moves(w, v, k) /\ (k = 3 => Head(w[3]).box = b)
             \/ Drops(w, v, k) /\ Head(w[k]).box # b
      PROVE  WayInv(m, b)'
  <2>1. \A x \in Message : Underway(x)' <=> Underway(x)
    BY <1>7, Zenon DEF Underway
  <2>2. WayOK(v, m, b)'
    BY <1>2, <1>3, <1>7, <2>1, MovedWay, Zenon
  <2>. QED  BY <1>1, <2>2, Zenon DEF WayInv
<1>8. ASSUME UNCHANGED <<pc, msg>>  PROVE  \A x : Retrying(x)' <=> Retrying(x)
  BY <1>8, Zenon DEF Retrying
<1>9. ASSUME NEW n \in Machine, Start(n) \/ SendCallBack(n)  PROVE  WayInv(m, b)'
  <2>1. UNCHANGED <<inVars, pc, msg, history>>
    BY <1>9, Zenon DEF Start, SendCallBack
  <2>2. v = w
    BY <1>1, <2>1, Zenon DEF Way
  <2>. QED  BY <1>6, <1>8, <2>1, <2>2, Zenon
<1>10. ASSUME NEW n \in Machine, RecvCallBack(n)  PROVE  WayInv(m, b)'
  <2>1. UNCHANGED <<worker, boxes, pc, msg, history>> /\ inHdr[n] = NULL /\ socket[n] # << >>
    BY <1>10, Zenon DEF RecvCallBack
  <2>2. /\ inHdr' = [inHdr EXCEPT ![n] = Head(socket[n])]
        /\ socket' = [socket EXCEPT ![n] = Tail(socket[n])]
    BY <1>10, Zenon DEF RecvCallBack
  <2>3. CASE n # m
    <3>1. inHdr'[m] = inHdr[m] /\ socket'[m] = socket[m]
      BY <1>3, <2>2, <2>3
    <3>2. v = w
      BY <1>1, <2>1, <3>1, Zenon DEF Way
    <3>. QED  BY <1>6, <1>8, <2>1, <3>2, Zenon
  <2>4. CASE n = m
    <3>1. inHdr'[m] = Head(socket[m]) /\ socket'[m] = Tail(socket[m]) /\ Head(socket[m]) \in Message
      BY <1>3, <2>1, <2>2, <2>4
    <3>2. v[4] = Append(w[4], Head(w[5])) /\ v[5] = Tail(w[5]) /\ w[5] # << >>
      BY <1>4, <1>5, <2>1, <2>4, <3>1, HandLists, Zenon
    <3>3. Moves(w, v, 5)
      <4>1. v[1] = w[1] /\ v[2] = w[2] /\ v[3] = w[3]
        BY <1>4, <1>5, <2>1, Zenon
      <4>. QED  BY <3>2, <4>1 DEF Moves, Same
    <3>4. 5 \in 2 .. 5 /\ 5 # 3
      OBVIOUS
    <3>. QED  BY <1>7, <1>8, <2>1, <3>3, <3>4, Zenon
  <2>. QED  BY <2>3, <2>4, Zenon
<1>11. ASSUME NEW n \in Machine, WorkerWakeup(n)  PROVE  WayInv(m, b)'
  <2>1. /\ UNCHANGED <<socket, inHdr, boxes, pc, msg, history>>
        /\ worker' = [worker EXCEPT ![n].at = "receive"]
    BY <1>11, Zenon DEF WorkerWakeup
  <2>2. worker'[m].buffer = worker[m].buffer
    BY <2>1, WokenWorker, Zenon DEF MailInv
  <2>3. v = w
    BY <1>1, <2>1, <2>2, Zenon DEF Way
  <2>. QED  BY <1>6, <1>8, <2>1, <2>3, Zenon
<1>12. ASSUME NEW n \in Machine, WorkerReceive(n)  PROVE  WayInv(m, b)'
  <2>1. /\ UNCHANGED <<socket, boxes, pc, msg, history>> /\ worker[n].at = "receive"
        /\ worker' = [worker EXCEPT ![n] = [at |-> "put", buffer |-> inHdr[n]]]
        /\ inHdr' = [inHdr EXCEPT ![n] = NULL]
    BY <1>12, Zenon DEF WorkerReceive
  <2>2. CASE n # m
    <3>1. inHdr'[m] = inHdr[m] /\ worker'[m] = worker[m]
      BY <1>3, <2>1, <2>2
    <3>2. v = w
      BY <1>1, <2>1, <3>1, Zenon DEF Way
    <3>. QED  BY <1>6, <1>8, <2>1, <3>2, Zenon
  <2>3. CASE n = m
    <3>1. PICK x \in Message : x = inHdr[m] /\ worker[m].buffer = NULL
      BY <1>2, <1>3, <2>1, <2>3 DEF RecvInv
    <3>2. inHdr'[m] = NULL /\ worker'[m].buffer = x
      BY <1>3, <2>1, <2>3, <3>1
    <3>3. v[3] = Append(w[3], Head(w[4])) /\ v[4] = Tail(w[4]) /\ w[4] # << >>
      BY <1>4, <1>5, <3>1, <3>2, HandLists, Zenon
    <3>4. Moves(w, v, 4)
      <4>1. v[1] = w[1] /\ v[2] = w[2] /\ v[5] = w[5]
        BY <1>4, <1>5, <2>1, Zenon
      <4>. QED  BY <3>3, <4>1 DEF Moves, Same
    <3>5. 4 \in 2 .. 5 /\ 4 # 3
      OBVIOUS
    <3>. QED  BY <1>7, <1>8, <2>1, <3>4, <3>5, Zenon
  <2>. QED  BY <2>2, <2>3, Zenon
<1>13. ASSUME NEW n \in Machine, WorkerPut(n)  PROVE  WayInv(m, b)'
  <2>1. PICK x \in Message : x = worker[n].buffer /\ x.box \in Box
    BY <1>2, <1>3, <1>13, Zenon DEF WorkerPut, RecvInv, PostOfficeAssumption
  <2>2. /\ UNCHANGED <<socket, inHdr, pc, msg, history>>
        /\ boxes' = [boxes EXCEPT ![n][x.box] = Append(boxes[n][x.box], x)]
        /\ worker' = [worker EXCEPT ![n] = [at |-> "wait", buffer |-> NULL]]
    BY <1>13, <2>1 DEF WorkerPut
  <2>3. CASE n # m
    <3>1. boxes'[m] = boxes[m] /\ worker'[m] = worker[m]
      BY <1>3, <2>2, <2>3
    <3>2. v = w
      BY <1>1, <2>2, <3>1, Zenon DEF Way
    <3>. QED  BY <1>6, <1>8, <2>2, <3>2, Zenon
  <2>4. CASE n = m
    <3>1. worker'[m].buffer = NULL /\ worker[m].buffer = x
      BY <1>3, <2>1, <2>2, <2>4
    <3>2. v[3] = Tail(w[3]) /\ w[3] # << >> /\ Head(w[3]) = x
      BY <1>4, <1>5, <3>1, HandLists, Zenon
    <3>3. 3 \in 2 .. 5
      OBVIOUS
    <3>4. CASE x.box = b
      <4>1. boxes'[m][b] = Append(boxes[m][b], x)
        BY <1>3, <2>2, <2>4, <3>4
      <4>2. Moves(w, v, 3)
        <5>1. v[2] = Append(w[2], Head(w[3]))
          BY <1>4, <1>5, <3>2, <4>1, Zenon
        <5>2. v[1] = w[1] /\ v[4] = w[4] /\ v[5] = w[5]
          BY <1>4, <1>5, <2>2, Zenon
        <5>. QED  BY <3>2, <5>1, <5>2 DEF Moves, Same
      <4>. QED  BY <1>7, <1>8, <2>2, <3>2, <3>3, <3>4, <4>2, Zenon
    <3>5. CASE x.box # b
      <4>1. boxes'[m][b] = boxes[m][b]
        BY <1>3, <2>2, <2>4, <3>5
      <4>2. Drops(w, v, 3)
        <5>1. v[1] = w[1] /\ v[2] = w[2] /\ v[4] = w[4] /\ v[5] = w[5]
          BY <1>4, <1>5, <2>2, <4>1, Zenon
        <5>. QED  BY <3>2, <5>1 DEF Drops, Same
      <4>. QED  BY <1>7, <1>8, <2>2, <3>2, <3>3, <3>5, <4>2, Zenon
    <3>. QED  BY <3>4, <3>5, Zenon
  <2>. QED  BY <2>3, <2>4, Zenon
<1>14. ASSUME NEW t \in Client,
              Acquire(t) \/ Sent(t) \/ Release(t) \/ \E x \in Message : CallSend(t, x)
       PROVE  WayInv(m, b)'
  <2>1. UNCHANGED <<inVars, history>>
    BY <1>14, Zenon DEF Acquire, Sent, Release, CallSend
  <2>2. /\ pc[t] # "retry" /\ pc'[t] # "retry"
        /\ \A u \in Client : u # t => pc'[u] = pc[u] /\ msg'[u] = msg[u]
    BY <1>3, <1>14, Zenon DEF Acquire, Sent, Release, CallSend
  <2>3. v = w
    BY <1>1, <2>1, Zenon DEF Way
  <2>. QED  BY <1>6, <2>1, <2>2, <2>3, SameRetrying, Zenon
<1>15. ASSUME NEW t \in Client, NEW c \in Box, Receive(t, c)  PROVE  WayInv(m, b)'
  <2>1. PICK n \in Machine : n = Host[t]
    BY <1>3, Zenon
  <2>2. /\ UNCHANGED <<socket, inHdr, worker, pc, handed, lost>>
        /\ pc[t] = "idle" /\ boxes[n][c] # << >>
        /\ msg' = [msg EXCEPT ![t] = Head(boxes[n][c])]
        /\ boxes' = [boxes EXCEPT ![n][c] = Tail(boxes[n][c])]
        /\ received' = [received EXCEPT ![n][c] = Append(received[n][c], Head(boxes[n][c]))]
    BY <1>15, <2>1 DEF Receive
  <2>3. /\ pc[t] # "retry" /\ pc'[t] # "retry"
        /\ \A u \in Client : u # t => pc'[u] = pc[u] /\ msg'[u] = msg[u]
    BY <1>3, <2>2
  <2>4. \A x : Retrying(x)' <=> Retrying(x)
    BY <2>3, SameRetrying, Zenon
  <2>5. CASE n = m /\ c = b
    <3>1. /\ boxes'[m][b] = Tail(boxes[m][b])
          /\ received'[m][b] = Append(received[m][b], Head(boxes[m][b]))
      BY <1>3, <2>2, <2>5
    <3>2. Moves(w, v, 2)
      <4>1. v[1] = Append(w[1], Head(w[2])) /\ v[2] = Tail(w[2]) /\ w[2] # << >>
        BY <1>4, <1>5, <2>2, <2>5, <3>1, Zenon
      <4>2. v[3] = w[3] /\ v[4] = w[4] /\ v[5] = w[5]
        BY <1>4, <1>5, <2>2, Zenon
      <4>. QED  BY <4>1, <4>2 DEF Moves, Same
    <3>3. 2 \in 2 .. 5 /\ 2 # 3
      OBVIOUS
    <3>. QED  BY <1>7, <2>2, <2>4, <3>2, <3>3, Zenon
  <2>6. CASE ~(n = m /\ c = b)
    <3>1. boxes'[m][b] = boxes[m][b] /\ received'[m][b] = received[m][b]
      BY <1>3, <2>2, <2>6, Zenon
    <3>2. v = w
      BY <1>1, <2>2, <3>1, Zenon DEF Way
    <3>. QED  BY <1>6, <2>2, <2>4, <3>2, Zenon
  <2>. QED  BY <2>5, <2>6, Zenon
<1>16. CASE UNCHANGED mailVars
  <2>1. UNCHANGED <<inVars, pc, msg, history>>
    BY <1>16, Zenon DEF mailVars
  <2>2. v = w
    BY <1>1, <2>1, Zenon DEF Way
  <2>. QED  BY <1>6, <1>8, <2>1, <2>2, Zenon
<1>. QED  BY <1>9, <1>10, <1>11, <1>12, <1>13, <1>14, <1>15, <1>16, HaltStep, NetworkStep,
             SocketStep, Zenon DEF MailNext, MachineStep, SendStep


-----------------------------------------------------------------------------
LEMMA EmptyList == Elements(<< >>) = {} /\ \A i \in 1 .. Len(<< >>) : FALSE
<1>1. \A i \in 1 .. Len(<< >>) : FALSE
  OBVIOUS
<1>. QED  BY <1>1, Zenon DEF Elements

LEMMA InvInit ==
  ASSUME PostOfficeAssumption, MailInit
  PROVE  MailInv
<1>1. /\ avail = [m \in Machine |-> 0] /\ sent = [m \in Machine |-> 0]
      /\ tries = [m \in Machine |-> 0] /\ sendInt = [m \in Machine |-> FALSE]
      /\ MaxTries \in Nat \ {0}
  BY Zenon DEF MailInit, Quiet, PostOfficeAssumption
<1>2. /\ inHdr = [m \in Machine |-> NULL] /\ holder = [m \in Machine |-> NULL]
      /\ worker = [m \in Machine |-> [at |-> "wait", buffer |-> NULL]]
      /\ Host \in [Client -> Machine] /\ NULL \notin Client
  BY Zenon DEF MailInit, Quiet, PostOfficeAssumption
<1>3. pc = [t \in Client |-> "idle"] /\ msg = [t \in Client |-> NULL] /\ lost = {}
  BY Zenon DEF MailInit, Quiet
<1>4. /\ socket = [m \in Machine |-> << >>] /\ handed = [m \in Machine |-> << >>]
      /\ boxes = [m \in Machine |-> [b \in Box |-> << >>]]
      /\ received = [m \in Machine |-> [b \in Box |-> << >>]]
  BY Zenon DEF MailInit, Quiet
<1>5. MailTypeOK
  <2>1. /\ avail \in [Machine -> 0 .. 1] /\ sent \in [Machine -> 0 .. 1]
        /\ tries \in [Machine -> 0 .. MaxTries] /\ sendInt \in [Machine -> BOOLEAN]
    BY <1>1
  <2>2. worker \in [Machine -> [at : {"wait", "receive", "put"}, buffer : Message \cup {NULL}]]
    BY <1>2
  <2>3. /\ socket \in [Machine -> Seq(Message)] /\ boxes \in [Machine -> [Box -> Seq(Message)]]
        /\ handed \in [Machine -> Seq(Message)] /\ received \in [Machine -> [Box -> Seq(Message)]]
    BY <1>4
  <2>4. /\ inHdr \in [Machine -> Message \cup {NULL}] /\ holder \in [Machine -> Client \cup {NULL}]
    BY <1>2
  <2>5. /\ msg \in [Client -> Message \cup {NULL}] /\ lost \subseteq Message
        /\ pc \in [Client -> {"idle", "acquire", "send", "retry", "waitSent", "release"}]
    BY <1>3
  <2>6. power \in [Machine -> {"off", "on", "halted"}]
    BY DEF MailInit
  <2>. QED  BY <2>1, <2>2, <2>3, <2>4, <2>5, <2>6, Zenon DEF MailTypeOK
<1>6. SendInv
  BY <1>1, <1>2, <1>3 DEF SendInv, Clear, Holding
<1>7. RecvInv
  BY <1>1, <1>2, Zenon DEF RecvInv
<1>8. \A m \in Machine : handed[m] = << >> /\ Elements(handed[m]) = {}
  <2>1. \A m \in Machine : handed[m] = << >>
    BY <1>4, Zenon
  <2>. QED  BY <2>1, EmptyList, Zenon
<1>9. MessageInv
  <2>1. OwnMessage /\ NotSentYet /\ DifferentMessages /\ SentLast /\ LostWasSent
    BY <1>3 DEF OwnMessage, NotSentYet, DifferentMessages, SentLast, LostWasSent, Unsent
  <2>2. \A m \in Machine : SentOnce(m)
    BY <1>8, EmptyList, Zenon DEF SentOnce
  <2>. QED  BY <2>1, <2>2, Zenon DEF MessageInv
<1>10. ASSUME NEW m \in Machine, NEW b \in Box  PROVE  WayInv(m, b)
  <2>1. \A k \in 1 .. 5 : Way(m, b)[k] = << >>
    BY <1>2, <1>4 DEF Way, InHand
  <2>2. PICK w : w = Way(m, b) /\ IsWay(w)
    BY <1>5, WayTypes, Zenon
  <2>3. ASSUME NEW x, NEW p \in Places(w, x)  PROVE  FALSE
    <3>1. p[1] \in 1 .. 5 /\ p[2] \in 1 .. Len(w[p[1]])
      BY <2>2, PlaceOf, Zenon
    <3>2. w[p[1]] = << >>
      BY <2>1, <2>2, <3>1, Zenon
    <3>. QED  BY <3>1, <3>2
  <2>4. \A x \in Message : ~Underway(x)
    BY <1>8, Zenon DEF Underway, PostOfficeAssumption
  <2>5. \A from \in Machine : Ordered(w, handed[from])
    BY <2>3, Zenon DEF Ordered, Ahead
  <2>6. WayOK(w, m, b)
    BY <2>3, <2>4, <2>5, Zenon DEF WayOK, Carries, Sorted, Complete, Once
  <2>. QED  BY <2>2, <2>6, Zenon DEF WayInv
<1>. QED  BY <1>5, <1>6, <1>7, <1>9, <1>10, Zenon DEF MailInv

(* What the invariant says of the mail: of x, which is out[i], it says     *)
(* what InOrderExceptLost asks.                                            *)
InPlace(out, i, x) ==
  LET way == Way(x.to, x.box) IN
  /\ IF x \in lost \/ Retrying(x)
     THEN Places(way, x) = {}
     ELSE \E p \in Places(way, x) : Places(way, x) = {p}
  /\ \A j \in i + 1 .. Len(out) :
       \A p \in Places(way, x), q \in Places(way, out[j]) : AheadOf(p, q)

LEMMA InvIsExact ==
  ASSUME PostOfficeAssumption, MailInv
  PROVE  MailIsExact
<1>1. MailTypeOK /\ OneSendAtATime /\ WorkerFindsPacket
  BY DEF MailInv, SendInv, RecvInv, OneSendAtATime, WorkerFindsPacket, Clear
<1>2. handed \in [Machine -> Seq(Message)] /\ \A m \in Machine : SentOnce(m)
  BY Zenon DEF MailInv, MailTypeOK, MessageInv
<1>3. ASSUME NEW from \in Machine, NEW i \in 1 .. Len(handed[from])
      PROVE  InPlace(handed[from], i, handed[from][i])
  <2>0. PICK x, w : x = handed[from][i] /\ w = Way(x.to, x.box)
    BY Zenon
  <2>1. x \in Message /\ Len(handed[from]) \in Nat
    BY <1>2, <2>0
  <2>2. x.to \in Machine /\ x.box \in Box /\ x.from = from
    BY <1>2, <2>0, <2>1, Zenon DEF PostOfficeAssumption, SentOnce
  <2>3. WayOK(w, x.to, x.box)
    BY <2>0, <2>2, Zenon DEF MailInv, WayInv
  <2>4. x \in Elements(handed[x.from])
    BY <2>0, <2>2, Zenon DEF Elements
  <2>5. ASSUME x \in lost \/ Retrying(x)  PROVE  Places(w, x) = {}
    BY <2>1, <2>3, <2>5, Zenon DEF WayOK, Carries, Underway
  <2>6. ASSUME ~(x \in lost \/ Retrying(x))  PROVE  \E p \in Places(w, x) : Places(w, x) = {p}
    <3>1. PICK p : p \in Places(w, x)
      BY <2>1, <2>2, <2>3, <2>4, <2>6, Zenon DEF WayOK, Complete, Underway
    <3>2. Once(Places(w, x))
      BY <2>1, <2>3, Zenon DEF WayOK
    <3>3. Places(w, x) = {p}
      BY <3>1, <3>2, Zenon DEF Once
    <3>. QED  BY <3>1, <3>3, Zenon
  <2>7. ASSUME NEW j \in i + 1 .. Len(handed[from])
        PROVE  Ahead(Places(w, x), Places(w, handed[from][j]))
    <3>1. j \in 1 .. Len(handed[from]) /\ i < j
      BY <2>1
    <3>. QED  BY <2>0, <2>3, <3>1, Zenon DEF WayOK, Ordered
  <2>. QED  BY <2>0, <2>5, <2>6, <2>7, Zenon DEF InPlace, Ahead
<1>4. InOrderExceptLost
  BY <1>3, Zenon DEF InOrderExceptLost, InPlace
<1>5. ASSUME NEW m \in Machine, NEW b \in Box, NEW k \in 1 .. 2, NEW x \in Elements(Way(m, b)[k])
      PROVE  x.to = m /\ x.box = b /\ x \in Elements(handed[x.from])
  <2>1. PICK w : w = Way(m, b) /\ IsWay(w) /\ WayOK(w, m, b)
    BY WayTypes, Zenon DEF MailInv, WayInv
  <2>2. PICK i \in 1 .. Len(w[k]) : w[k][i] = x
    BY <1>5, <2>1, Zenon DEF Elements
  <2>3. w[k] \in Seq(Message)
    BY <2>1 DEF IsWay
  <2>4. x \in Message
    BY <2>2, <2>3
  <2>5. <<k, i>> \in Places(w, x)
    BY <2>1, <2>2, PlaceOf
  <2>6. PICK p \in Places(w, x) : p[1] <= 2
    BY <2>5
  <2>. QED  BY <2>1, <2>4, <2>6, Zenon DEF WayOK, Carries, Sorted, Underway
<1>6. NothingElse
  <2> SUFFICES ASSUME NEW m \in Machine, NEW b \in Box,
                      NEW x \in Elements(boxes[m][b]) \cup Elements(received[m][b])
               PROVE  x.to = m /\ x.box = b /\ x \in Elements(handed[x.from])
    BY Zenon DEF NothingElse
  <2>0. 1 \in 1 .. 2 /\ 2 \in 1 .. 2
    BY SMTT(20)
  <2>1. Way(m, b)[1] = received[m][b] /\ Way(m, b)[2] = boxes[m][b]
    BY DEF Way
  <2>2. CASE x \in Elements(received[m][b])
    <3>1. x \in Elements(Way(m, b)[1])
      BY <2>1, <2>2, Zenon
    <3>. QED  BY <1>5, <2>0, <3>1
  <2>3. CASE x \in Elements(boxes[m][b])
    <3>1. x \in Elements(Way(m, b)[2])
      BY <2>1, <2>3, Zenon
    <3>. QED  BY <1>5, <2>0, <3>1
  <2>. QED  BY <2>2, <2>3, Zenon
<1>. QED  BY <1>1, <1>4, <1>6, Zenon DEF MailIsExact

(* Mailboxes get what was sent and not lost, once and in the order in      *)
(* which its machine sent it, however many machines, threads, mailboxes    *)
(* and messages there are and whatever the network loses: sendLock and     *)
(* messageSent let one packet at a time out of a machine, and the postal   *)
(* worker is woken for a packet that is in the device's buffer.            *)
THEOREM MailCorrect ==
  ASSUME PostOfficeAssumption
  PROVE  MailSpec => []MailIsExact
<1>1. MailInit => MailInv
  BY InvInit
<1>2. MailInv /\ [MailNext]_mailVars => MailInv'
  <2> SUFFICES ASSUME MailInv, [MailNext]_mailVars  PROVE  MailInv'
    OBVIOUS
  <2>1. MailTypeOK'
    BY TypeStep, Zenon DEF MailInv
  <2>2. SendInv' /\ RecvInv'
    BY SendStepInv, RecvStepInv, Zenon DEF MailInv
  <2>3. MessageInv'
    BY MessageStepInv
  <2>4. \A m \in Machine, b \in Box : WayInv(m, b)'
    BY <2>1, WayStepInv, Zenon
  <2>. QED  BY <2>1, <2>2, <2>3, <2>4, Zenon DEF MailInv
<1>3. MailInv => MailIsExact
  BY InvIsExact
<1>. QED  BY <1>1, <1>2, <1>3, PTL DEF MailSpec
=============================================================================

-------------------------- MODULE InterruptProofs --------------------------
(***************************************************************************)
(* Proofs about the simulated clock (module Interrupt), for every set of   *)
(* devices, every choice of delays and ticks, and lists of any length: the *)
(* list of pending interrupts stays sorted, no interrupt is late by a tick *)
(* or more, the machine halts only without its timer, and the list         *)
(* implements the event clock of module EventClock.                        *)
(***************************************************************************)
EXTENDS Interrupt, SequenceTheorems, WellFoundedInduction, TLAPS

-----------------------------------------------------------------------------
(* A nonempty set of natural numbers has a least element.                  *)
LEMMA LeastNat ==
  ASSUME NEW T, T \subseteq Nat, T # {}
  PROVE  \E x \in T : \A y \in T : x <= y
<1> DEFINE R == OpToRel(<, Nat)
<1>1. IsWellFoundedOn(R, Nat)
  BY NatLessThanWellFounded, Zenon
<1>2. \A x, y \in Nat : <<y, x>> \in R <=> y < x
  BY DEF OpToRel
<1> HIDE DEF R
<1>3. PICK x \in T : \A y \in T : ~ (<<y, x>> \in R)
  BY <1>1, WFMin, Zenon
<1>4. ASSUME NEW y \in T
      PROVE  x <= y
  <2>1. x \in Nat /\ y \in Nat
    OBVIOUS
  <2>2. ~ (y < x)
    BY <1>2, <1>3, <2>1, Zenon
  <2>. QED  BY <2>1, <2>2
<1>. QED  BY <1>4

(* A nonempty set of positions in a list has a greatest element.           *)
LEMMA GreatestPosition ==
  ASSUME NEW n \in Nat, NEW T, T \subseteq 1 .. n, T # {}
  PROVE  \E x \in T : \A y \in T : y <= x
<1> DEFINE D == {d \in 0 .. n : n - d \in T}
<1>1. D # {}
  <2>1. PICK i \in T : TRUE
    BY Zenon
  <2>2. n - i \in 0 .. n /\ n - (n - i) = i
    OBVIOUS
  <2>. QED  BY <2>2, Zenon
<1>2. PICK k \in D : \A d \in D : k <= d
  <2>1. D \subseteq Nat
    OBVIOUS
  <2> HIDE DEF D
  <2>. QED  BY <1>1, <2>1, LeastNat, Zenon
<1>3. ASSUME NEW y \in T
      PROVE  y <= n - k
  <2>1. n - y \in 0 .. n /\ n - (n - y) = y
    OBVIOUS
  <2>2. k <= n - y
    BY <1>2, <2>1, Zenon
  <2>. QED  BY <2>1, <2>2
<1>. QED  BY <1>3

-----------------------------------------------------------------------------
(* The list of pending interrupts: ordered by time, no device in it twice. *)
Ordered(list) ==
  \A i, j \in 1 .. Len(list) :
    i < j => list[i].left <= list[j].left /\ list[i].device # list[j].device

Entries(list) == {list[i] : i \in 1 .. Len(list)}

(* Where SortedList::Insert puts the new entry.                            *)
LEMMA InsertPosition ==
  ASSUME NEW list \in Seq(Entry), NEW e \in Entry
  PROVE  \E p \in 0 .. Len(list) :
           /\ \A j \in 1 .. p : list[j].left <= e.left
           /\ p < Len(list) => e.left < list[p + 1].left
           /\ Insert(list, e) = SubSeq(list, 1, p) \o <<e>> \o SubSeq(list, p + 1, Len(list))
<1> DEFINE before == {i \in 1 .. Len(list) : \A j \in 1 .. i : list[j].left <= e.left}
           p == IF before = {} THEN 0
                ELSE CHOOSE i \in before : \A j \in before : j <= i
<1>0. /\ Len(list) \in Nat /\ e.left \in Int
      /\ \A i \in 1 .. Len(list) : list[i].left \in Int
  <2>1. \A x \in Entry : x.left \in Int
    BY DEF Entry
  <2>. QED  BY <2>1, ElementOfSeq
<1>1. before # {} => p \in before /\ \A j \in before : j <= p
  <2>1. before \subseteq 1 .. Len(list)
    OBVIOUS
  <2> HIDE DEF before
  <2>2. before # {} => \E i \in before : \A j \in before : j <= i
    BY <1>0, <2>1, GreatestPosition, Zenon
  <2>. QED  BY <2>2
<1> HIDE DEF p
<1>2. p \in 0 .. Len(list) /\ \A j \in 1 .. p : list[j].left <= e.left
  <2>1. CASE before = {}
    <3>1. p = 0
      BY <2>1 DEF p
    <3>. QED  BY <1>0, <3>1
  <2>2. CASE before # {}
    BY <1>0, <1>1, <2>2
  <2>. QED  BY <2>1, <2>2
<1>3. ASSUME p < Len(list)
      PROVE  e.left < list[p + 1].left
  <2>1. p + 1 \notin before
    <3>1. \A j \in before : j <= p
      BY <1>1
    <3>. QED  BY <1>0, <1>2, <3>1
  <2>2. p + 1 \in 1 .. Len(list)
    BY <1>0, <1>2, <1>3
  <2>3. PICK j \in 1 .. p + 1 : ~ (list[j].left <= e.left)
    BY <2>1, <2>2
  <2>4. j = p + 1
    BY <1>2, <2>3
  <2>. QED  BY <1>0, <2>2, <2>3, <2>4
<1>4. Insert(list, e) = SubSeq(list, 1, p) \o <<e>> \o SubSeq(list, p + 1, Len(list))
  BY DEF Insert, p
<1>. QED  BY <1>2, <1>3, <1>4, Zenon
(* SortedList::Insert keeps the list ordered and adds one entry.           *)
LEMMA InsertEntry ==
  ASSUME NEW list \in Seq(Entry), NEW e \in Entry, Ordered(list),
         \A i \in 1 .. Len(list) : list[i].device # e.device
  PROVE  /\ Insert(list, e) \in Seq(Entry)
         /\ Ordered(Insert(list, e))
         /\ Entries(Insert(list, e)) = Entries(list) \cup {e}
<1>1. PICK p \in 0 .. Len(list) :
           /\ \A j \in 1 .. p : list[j].left <= e.left
           /\ p < Len(list) => e.left < list[p + 1].left
           /\ Insert(list, e) = SubSeq(list, 1, p) \o <<e>> \o SubSeq(list, p + 1, Len(list))
  BY InsertPosition, Zenon
<1> DEFINE new == Insert(list, e)
           n == Len(list)
<1>2. n \in Nat /\ p \in Nat /\ p <= n
  OBVIOUS
<1>3. /\ new \in Seq(Entry) /\ Len(new) = n + 1
      /\ \A i \in 1 .. p : new[i] = list[i]
      /\ new[p + 1] = e
      /\ \A i \in p + 2 .. n + 1 : new[i] = list[i - 1]
  <2> DEFINE head == SubSeq(list, 1, p)
             tail == SubSeq(list, p + 1, n)
  <2>1. /\ head \in Seq(Entry) /\ Len(head) = p
        /\ \A i \in 1 .. p : head[i] = list[i]
    BY <1>2, SubSeqProperties
  <2>2. /\ tail \in Seq(Entry) /\ Len(tail) = n - p
        /\ \A i \in 1 .. n - p : tail[i] = list[p + i]
    BY <1>2, SubSeqProperties
  <2> HIDE DEF head, tail
  <2>3. new = head \o <<e>> \o tail
    BY <1>1 DEF head, tail
  <2> HIDE DEF new, n
  <2>4. /\ new \in Seq(Entry) /\ Len(new) = n + 1
        /\ \A i \in 1 .. n + 1 :
             new[i] = IF i <= p THEN head[i] ELSE IF i = p + 1 THEN e ELSE tail[i - p - 1]
    BY <1>2, <2>1, <2>2, <2>3, SMTT(20)
  <2>5. ASSUME NEW i \in p + 2 .. n + 1
        PROVE  new[i] = list[i - 1]
    <3>1. i - p - 1 \in 1 .. n - p /\ p + (i - p - 1) = i - 1 /\ i \in 1 .. n + 1
          /\ ~(i <= p) /\ i # p + 1
      BY <1>2
    <3>. QED  BY <2>2, <2>4, <3>1
  <2>6. \A i \in 1 .. p : i \in 1 .. n + 1
    BY <1>2
  <2>7. new[p + 1] = e
    BY <1>2, <2>4
  <2>. QED  BY <2>1, <2>4, <2>5, <2>6, <2>7
<1>4. /\ e.left \in Int
      /\ \A k \in 1 .. n : list[k].left \in Int /\ list[k].device # e.device
      /\ \A k, l \in 1 .. n :
           k < l => list[k].left <= list[l].left /\ list[k].device # list[l].device
  <2>1. \A x \in Entry : x.left \in Int
    BY DEF Entry
  <2>. QED  BY <2>1, ElementOfSeq DEF Ordered
<1> HIDE DEF new, n
<1>5. \A k \in 1 .. p : list[k].left <= e.left
  BY <1>1
<1>6. ASSUME NEW k \in p + 1 .. n
      PROVE  e.left < list[k].left
  <2>1. e.left < list[p + 1].left /\ p + 1 \in 1 .. n /\ k \in 1 .. n
    BY <1>1, <1>2 DEF n
  <2>2. list[p + 1].left <= list[k].left
    BY <1>2, <1>4, <2>1
  <2>. QED  BY <1>4, <2>1, <2>2
<1>7. Ordered(new)
  <2> SUFFICES ASSUME NEW i \in 1 .. n + 1, NEW j \in 1 .. n + 1, i < j
               PROVE  new[i].left <= new[j].left /\ new[i].device # new[j].device
    BY <1>3 DEF Ordered
  <2>1. CASE j <= p
    <3>1. i \in 1 .. p /\ j \in 1 .. p /\ i \in 1 .. n /\ j \in 1 .. n
      BY <1>2, <2>1
    <3>. QED  BY <1>3, <1>4, <3>1, Zenon
  <2>2. CASE j = p + 1
    <3>1. i \in 1 .. p /\ i \in 1 .. n
      BY <1>2, <2>2
    <3>. QED  BY <1>3, <1>4, <1>5, <2>2, <3>1
  <2>3. CASE j > p + 1
    <3>1. j \in p + 2 .. n + 1 /\ j - 1 \in p + 1 .. n /\ j - 1 \in 1 .. n
      BY <1>2, <2>3
    <3>2. CASE i <= p
      <4>1. i \in 1 .. p /\ i \in 1 .. n /\ i < j - 1
        BY <1>2, <2>3, <3>2
      <4>. QED  BY <1>3, <1>4, <3>1, <4>1, SMTT(30)
    <3>3. CASE i = p + 1
      BY <1>3, <1>4, <1>6, <3>1, <3>3
    <3>4. CASE i > p + 1
      <4>1. i \in p + 2 .. n + 1 /\ i - 1 \in 1 .. n /\ i - 1 < j - 1
        BY <1>2, <3>4
      <4>. QED  BY <1>3, <1>4, <3>1, <4>1, SMTT(30)
    <3>. QED  BY <1>2, <3>2, <3>3, <3>4
  <2>. QED  BY <1>2, <2>1, <2>2, <2>3
<1>8. Entries(new) \subseteq Entries(list) \cup {e}
  <2> SUFFICES ASSUME NEW i \in 1 .. n + 1
               PROVE  new[i] = e \/ \E k \in 1 .. n : new[i] = list[k]
    BY <1>3 DEF Entries, n
  <2>1. i \in 1 .. p \/ i = p + 1 \/ i \in p + 2 .. n + 1
    BY <1>2
  <2>2. CASE i \in p + 2 .. n + 1
    <3>1. i - 1 \in 1 .. n
      BY <1>2, <2>2
    <3>. QED  BY <1>3, <2>2, <3>1
  <2>3. CASE i \in 1 .. p
    <3>1. i \in 1 .. n
      BY <1>2, <2>3
    <3>. QED  BY <1>3, <2>3, <3>1
  <2>. QED  BY <1>3, <2>1, <2>2, <2>3
<1>9. Entries(list) \cup {e} \subseteq Entries(new)
  <2>1. p + 1 \in 1 .. n + 1
    BY <1>2
  <2>2. ASSUME NEW k \in 1 .. n
        PROVE  \E i \in 1 .. n + 1 : list[k] = new[i]
    <3>1. CASE k <= p
      <4>1. k \in 1 .. p /\ k \in 1 .. n + 1
        BY <1>2, <3>1
      <4>. QED  BY <1>3, <4>1
    <3>2. CASE k > p
      <4>1. k + 1 \in p + 2 .. n + 1 /\ k + 1 \in 1 .. n + 1 /\ (k + 1) - 1 = k
        BY <1>2, <3>2
      <4>. QED  BY <1>3, <4>1
    <3>. QED  BY <1>2, <3>1, <3>2
  <2>. QED  BY <1>3, <2>1, <2>2 DEF Entries, n
<1>. QED  BY <1>3, <1>7, <1>8, <1>9 DEF new

(* Time moves on alike for all entries.                                    *)
LEMMA AdvanceEntries ==
  ASSUME NEW list \in Seq(Entry), NEW n \in Int, Ordered(list)
  PROVE  /\ Advance(list, n) \in Seq(Entry)
         /\ Ordered(Advance(list, n))
         /\ Len(Advance(list, n)) = Len(list)
         /\ \A i \in 1 .. Len(list) :
              Advance(list, n)[i] = [device |-> list[i].device, left |-> list[i].left - n]
<1> DEFINE new == Advance(list, n)
<1>1. ASSUME NEW x \in Entry, NEW y, y = [x EXCEPT !.left = @ - n]
      PROVE  /\ x.device \in Device /\ x.left \in Int /\ x.left - n \in Int
             /\ y = [device |-> x.device, left |-> x.left - n]
             /\ y.device = x.device /\ y.left = x.left - n
             /\ y \in Entry
  BY <1>1 DEF Entry
<1>2. ASSUME NEW i \in 1 .. Len(list)
      PROVE  /\ list[i].left \in Int
             /\ new[i].device = list[i].device /\ new[i].left = list[i].left - n
             /\ new[i] = [device |-> list[i].device, left |-> list[i].left - n]
             /\ new[i] \in Entry
  <2>1. list[i] \in Entry
    BY ElementOfSeq
  <2>2. new[i] = [list[i] EXCEPT !.left = @ - n]
    BY DEF Advance
  <2> HIDE DEF new
  <2>. QED  BY <1>1, <2>1, <2>2
<1>3. new = [i \in 1 .. Len(list) |-> new[i]] /\ Len(list) \in Nat
  BY DEF Advance
<1> HIDE DEF new
<1>4. new \in Seq(Entry) /\ Len(new) = Len(list)
  BY <1>2, <1>3
<1>5. Ordered(new)
  <2> SUFFICES ASSUME NEW i \in 1 .. Len(list), NEW j \in 1 .. Len(list), i < j
               PROVE  new[i].left <= new[j].left /\ new[i].device # new[j].device
    BY <1>4 DEF Ordered
  <2>1. list[i].left <= list[j].left /\ list[i].device # list[j].device
    BY DEF Ordered
  <2>2. ASSUME NEW k \in 1 .. Len(list)
        PROVE  /\ list[k].left \in Int
               /\ new[k].device = list[k].device /\ new[k].left = list[k].left - n
    BY <1>2, Zenon
  <2>. QED  BY <2>1, <2>2
<1>. QED  BY <1>2, <1>4, <1>5 DEF new

(* The first entry is due first, and no other one is for its device.       *)
LEMMA FirstEntry ==
  ASSUME NEW list \in Seq(Entry), Ordered(list), list # << >>
  PROVE  /\ Head(list) \in Entries(list)
         /\ \A x \in Entries(list) : /\ Head(list).left <= x.left
                                     /\ x # Head(list) => x.device # Head(list).device
         /\ Tail(list) \in Seq(Entry) /\ Ordered(Tail(list))
         /\ Entries(Tail(list)) = Entries(list) \ {Head(list)}
<1> DEFINE n == Len(list)
<1>1. n \in Nat /\ n > 0 /\ Head(list) = list[1] /\ list[1].left \in Int
  <2>1. \A x \in Entry : x.left \in Int
    BY DEF Entry
  <2>2. n \in Nat /\ n > 0 /\ Head(list) = list[1]
    BY EmptySeq
  <2>. QED  BY <2>1, <2>2, ElementOfSeq
<1>2. \A i \in 1 .. n : i # 1 => /\ list[1].left <= list[i].left
                                /\ list[1].device # list[i].device
  BY <1>1 DEF Ordered
<1>3. /\ Tail(list) \in Seq(Entry) /\ Len(Tail(list)) = n - 1
      /\ \A i \in 1 .. n - 1 : Tail(list)[i] = list[i + 1]
  BY <1>1
<1>4. Ordered(Tail(list))
  <2> SUFFICES ASSUME NEW i \in 1 .. n - 1, NEW j \in 1 .. n - 1, i < j
               PROVE  /\ list[i + 1].left <= list[j + 1].left
                      /\ list[i + 1].device # list[j + 1].device
    BY <1>3 DEF Ordered
  <2>1. i + 1 \in 1 .. n /\ j + 1 \in 1 .. n /\ i + 1 < j + 1
    BY <1>1
  <2>. QED  BY <2>1 DEF Ordered
<1>5. Entries(Tail(list)) = Entries(list) \ {Head(list)}
  <2>1. ASSUME NEW i \in 1 .. n - 1
        PROVE  list[i + 1] \in Entries(list) \ {list[1]}
    <3>1. i + 1 \in 1 .. n /\ i + 1 # 1
      BY <1>1
    <3>. QED  BY <1>2, <3>1 DEF Entries
  <2>2. ASSUME NEW i \in 1 .. n, list[i] # list[1]
        PROVE  \E j \in 1 .. n - 1 : list[i] = Tail(list)[j]
    <3>1. i - 1 \in 1 .. n - 1 /\ (i - 1) + 1 = i
      BY <1>1, <2>2
    <3>. QED  BY <1>3, <3>1
  <2>3. Entries(Tail(list)) \subseteq Entries(list) \ {Head(list)}
    BY <1>1, <1>3, <2>1 DEF Entries
  <2>4. Entries(list) \ {Head(list)} \subseteq Entries(Tail(list))
    BY <1>1, <1>3, <2>2 DEF Entries
  <2>. QED  BY <2>3, <2>4
<1>. QED  BY <1>1, <1>2, <1>3, <1>4, <1>5 DEF Entries

-----------------------------------------------------------------------------
(* What makes OnTime inductive: the list is ordered, so that CheckIfDue,   *)
(* which looks at its first entry only, leaves nothing that is due; it     *)
(* handles an interrupt only if one is due; and the timer is in the list.  *)
InterruptInv ==
  /\ Ordered(pending)
  /\ \A x \in Entries(pending) :
       /\ at \in {"thread", "return"} => x.left > 0
       /\ x.left > -(IF status = "IdleMode" THEN 1 ELSE SystemTick)
  /\ at = "loop" => IsDue(pending)
  /\ at \in {"thread", "check"} => status # "IdleMode"
  /\ disable \/ \E x \in Entries(pending) : x.device = Timer
  /\ HaltsOnlyWithoutTimer

LEMMA DelayType ==
  ASSUME NEW d \in Device
  PROVE  Delay(d) \subseteq Nat \ {0}
BY InterruptAssumption DEF Delay

(* What a handler leaves of the list.                                      *)
LEMMA HandlerEntries ==
  ASSUME pending \in Seq(Entry), Ordered(pending), pending # << >>,
         NEW new \in AfterHandler(Head(pending).device, Tail(pending))
  PROVE  /\ new \in Seq(Entry) /\ Ordered(new)
         /\ \/ /\ Entries(new) = Entries(pending) \ {Head(pending)}
               /\ Head(pending).device # Timer \/ disable
            \/ \E n \in Nat \ {0} :
                 Entries(new) = (Entries(pending) \ {Head(pending)})
                                  \cup {[device |-> Head(pending).device, left |-> n]}
<1> DEFINE d == Head(pending).device
           rest == Tail(pending)
<1>1. /\ Head(pending) \in Entries(pending)
      /\ \A x \in Entries(pending) : x # Head(pending) => x.device # d
      /\ rest \in Seq(Entry) /\ Ordered(rest)
      /\ Entries(rest) = Entries(pending) \ {Head(pending)}
  BY FirstEntry
<1>2. d \in Device
  <2>1. Head(pending) \in Entry
    BY <1>1, ElementOfSeq DEF Entries
  <2>. QED  BY <2>1 DEF Entry
<1> HIDE DEF d, rest
<1>3. ASSUME NEW n \in Delay(d), new = Schedule(rest, d, n)
      PROVE  /\ new \in Seq(Entry) /\ Ordered(new) /\ n \in Nat \ {0}
             /\ Entries(new) = Entries(rest) \cup {[device |-> d, left |-> n]}
  <2>1. n \in Nat \ {0} /\ [device |-> d, left |-> n] \in Entry
    BY <1>2, DelayType DEF Entry
  <2>2. \A i \in 1 .. Len(rest) : rest[i].device # [device |-> d, left |-> n].device
    <3>1. \A x \in Entries(rest) : x.device # d
      BY <1>1
    <3>. QED  BY <3>1 DEF Entries
  <2>. QED  BY <1>1, <1>3, <2>1, <2>2, InsertEntry DEF Schedule
<1>4. \/ new = rest /\ (d # Timer \/ disable)
      \/ \E n \in Delay(d) : new = Schedule(rest, d, n)
  BY InterruptAssumption DEF AfterHandler, d, rest
<1>. QED  BY <1>1, <1>3, <1>4, Zenon DEF d, rest

(* If the first entry is not due, none is.                                 *)
LEMMA NoneIsDue ==
  ASSUME NEW list \in Seq(Entry), Ordered(list), ~IsDue(list)
  PROVE  \A x \in Entries(list) : x.left > 0
<1> SUFFICES ASSUME NEW x \in Entries(list)
             PROVE  x.left > 0
  OBVIOUS
<1>1. list # << >>
  BY DEF Entries
<1>2. Head(list).left <= x.left /\ Head(list) \in Entries(list)
  BY <1>1, FirstEntry
<1>3. x \in Entry /\ Head(list) \in Entry
  BY <1>2, ElementOfSeq DEF Entries
<1>4. x.left \in Int /\ Head(list).left \in Int
  BY <1>3 DEF Entry
<1>. QED  BY <1>1, <1>2, <1>4 DEF IsDue

(* AdvanceEntries, in terms of the sets of entries.                        *)
LEMMA AdvanceSet ==
  ASSUME NEW list \in Seq(Entry), NEW n \in Int, Ordered(list)
  PROVE  /\ \A y \in Entries(Advance(list, n)) : \E x \in Entries(list) :
              y.device = x.device /\ y.left = x.left - n /\ x.left \in Int
         /\ \A x \in Entries(list) : \E y \in Entries(Advance(list, n)) :
              y.device = x.device /\ y.left = x.left - n
         /\ list # << >> => /\ Advance(list, n) # << >>
                            /\ Head(Advance(list, n)).left = Head(list).left - n
<1> DEFINE new == Advance(list, n)
<1>1. ASSUME NEW i \in 1 .. Len(list)
      PROVE  /\ list[i].left \in Int
             /\ new[i].device = list[i].device /\ new[i].left = list[i].left - n
  <2>1. new[i] = [device |-> list[i].device, left |-> list[i].left - n]
    BY AdvanceEntries
  <2>2. list[i] \in Entry
    BY ElementOfSeq
  <2> HIDE DEF new
  <2>3. list[i].left \in Int
    BY <2>2 DEF Entry
  <2>. QED  BY <2>1, <2>3
<1>2. Len(new) = Len(list) /\ new \in Seq(Entry)
  BY AdvanceEntries
<1> HIDE DEF new
<1>3. ASSUME NEW y \in Entries(new)
      PROVE  \E x \in Entries(list) : y.device = x.device /\ y.left = x.left - n /\ x.left \in Int
  <2>1. PICK i \in 1 .. Len(list) : y = new[i]
    BY <1>2 DEF Entries
  <2>. QED  BY <1>1, <2>1 DEF Entries
<1>4. ASSUME NEW x \in Entries(list)
      PROVE  \E y \in Entries(new) : y.device = x.device /\ y.left = x.left - n
  <2>1. PICK i \in 1 .. Len(list) : x = list[i]
    BY DEF Entries
  <2>. QED  BY <1>1, <1>2, <2>1 DEF Entries
<1>5. ASSUME list # << >>
      PROVE  new # << >> /\ Head(new).left = Head(list).left - n
  <2>1. 1 \in 1 .. Len(list) /\ Head(list) = list[1]
    BY <1>5
  <2>2. new # << >> /\ Head(new) = new[1]
    BY <1>2, <2>1
  <2>. QED  BY <1>1, <2>1, <2>2
<1>. QED  BY <1>3, <1>4, <1>5 DEF new

-----------------------------------------------------------------------------
LEMMA Initially == InterruptInit => InterruptTypeOK /\ InterruptInv
<1> SUFFICES ASSUME InterruptInit
             PROVE  InterruptTypeOK /\ InterruptInv
  OBVIOUS
<1>1. PICK n \in Delay(Timer) : pending = <<[device |-> Timer, left |-> n]>>
  BY DEF InterruptInit
<1>2. n \in Nat \ {0} /\ [device |-> Timer, left |-> n] \in Entry
  BY <1>1, DelayType, InterruptAssumption DEF Entry
<1>3. pending \in Seq(Entry) /\ Len(pending) = 1 /\ pending[1] = [device |-> Timer, left |-> n]
  BY <1>1, <1>2
<1>4. InterruptTypeOK
  BY <1>3, Zenon DEF InterruptInit, InterruptTypeOK, CpuLocation
<1>5. Entries(pending) = {[device |-> Timer, left |-> n]} /\ Ordered(pending)
  BY <1>3 DEF Entries, Ordered
<1>6. \A x \in Entries(pending) : x.left > 0 /\ x.device = Timer /\ x.left > -SystemTick
  BY <1>2, <1>5, InterruptAssumption
<1>. QED  BY <1>4, <1>5, <1>6, Zenon DEF InterruptInv, InterruptInit, HaltsOnlyWithoutTimer

(* OneTick makes nothing later than the tick it takes.                     *)
LEMMA TickStep ==
  ASSUME InterruptTypeOK, InterruptInv, at = "thread", OneTick
  PROVE  InterruptTypeOK' /\ InterruptInv'
<1> DEFINE n == IF status = "SystemMode" THEN SystemTick ELSE UserTick
<1>1. n \in Nat \ {0} /\ n <= SystemTick /\ pending' = Advance(pending, n)
  BY InterruptAssumption DEF OneTick
<1> HIDE DEF n
<1>2. pending \in Seq(Entry) /\ Ordered(pending) /\ n \in Int
  BY <1>1 DEF InterruptTypeOK, InterruptInv
<1>3. pending' \in Seq(Entry) /\ Ordered(pending')
  BY <1>1, <1>2, AdvanceEntries
<1>4. InterruptTypeOK'
  BY <1>3 DEF InterruptTypeOK, OneTick, CpuLocation
<1>5. ASSUME NEW y \in Entries(pending')
      PROVE  y.left > -SystemTick
  <2>1. PICK x \in Entries(pending) : y.left = x.left - n /\ x.left \in Int
    BY <1>1, <1>2, AdvanceSet
  <2>2. x.left > 0
    BY DEF InterruptInv
  <2>. QED  BY <1>1, <2>1, <2>2, InterruptAssumption
<1>6. ASSUME ~disable
      PROVE  \E y \in Entries(pending') : y.device = Timer
  <2>1. PICK x \in Entries(pending) : x.device = Timer
    BY <1>6 DEF InterruptInv
  <2>. QED  BY <1>1, <1>2, <2>1, AdvanceSet
<1>. QED  BY <1>3, <1>4, <1>5, <1>6 DEF InterruptInv, OneTick, HaltsOnlyWithoutTimer

(* Interrupt::Idle jumps to the time of the first entry.                   *)
LEMMA IdleStep ==
  ASSUME InterruptTypeOK, InterruptInv, Idle
  PROVE  InterruptTypeOK' /\ InterruptInv'
<1>1. /\ pending \in Seq(Entry) /\ Ordered(pending) /\ at = "thread"
      /\ \A x \in Entries(pending) : x.left > 0
  BY DEF InterruptTypeOK, InterruptInv, Idle
<1>2. CASE pending = << >>
  <2>1. at' = "halted" /\ status' = "IdleMode" /\ UNCHANGED <<pending, inHandler, level, yieldOnReturn, disable>>
    BY <1>2 DEF Idle
  <2>2. Entries(pending) = {}
    BY <1>2 DEF Entries
  <2>3. InterruptTypeOK'
    BY <2>1 DEF InterruptTypeOK, CpuLocation
  <2>4. disable
    BY <2>2 DEF InterruptInv
  <2>. QED  BY <1>1, <2>1, <2>2, <2>3, <2>4 DEF InterruptInv, HaltsOnlyWithoutTimer
<1>3. CASE pending # << >>
  <2> DEFINE n == Head(pending).left
  <2>1. Head(pending) \in Entries(pending) /\ \A x \in Entries(pending) : n <= x.left
    BY <1>1, <1>3, FirstEntry
  <2>2. n \in Int /\ n > 0
    <3>1. Head(pending) \in Entry
      BY <1>1, <2>1, ElementOfSeq DEF Entries
    <3>. QED  BY <1>1, <2>1, <3>1 DEF Entry
  <2>3. /\ pending' = Advance(pending, n) /\ at' = "loop" /\ status' = "IdleMode" /\ inHandler' = TRUE
        /\ UNCHANGED <<level, yieldOnReturn, disable>>
    BY <1>3, <2>2 DEF Idle, IsDue
  <2> HIDE DEF n
  <2>4. pending' \in Seq(Entry) /\ Ordered(pending')
    BY <1>1, <2>2, <2>3, AdvanceEntries
  <2>5. InterruptTypeOK'
    BY <2>3, <2>4 DEF InterruptTypeOK, CpuLocation
  <2>6. ASSUME NEW y \in Entries(pending')
        PROVE  y.left > -1
    <3>1. PICK x \in Entries(pending) : y.left = x.left - n /\ x.left \in Int
      BY <1>1, <2>2, <2>3, AdvanceSet
    <3>. QED  BY <2>1, <2>2, <3>1
  <2>7. IsDue(pending')
    <3>1. pending' # << >> /\ Head(pending').left = n - n
      BY <1>1, <1>3, <2>2, <2>3, AdvanceSet DEF n
    <3>. QED  BY <2>2, <3>1 DEF IsDue
  <2>8. ASSUME ~disable
        PROVE  \E y \in Entries(pending') : y.device = Timer
    <3>1. PICK x \in Entries(pending) : x.device = Timer
      BY <2>8 DEF InterruptInv
    <3>. QED  BY <1>1, <2>2, <2>3, <3>1, AdvanceSet
  <2>. QED  BY <2>3, <2>4, <2>5, <2>6, <2>7, <2>8 DEF InterruptInv, HaltsOnlyWithoutTimer
<1>. QED  BY <1>2, <1>3

(* One round of CheckIfDue's loop.                                         *)
LEMMA CallBackStep ==
  ASSUME InterruptTypeOK, InterruptInv, CallOnInterrupt
  PROVE  InterruptTypeOK' /\ InterruptInv'
<1>1. /\ pending \in Seq(Entry) /\ Ordered(pending) /\ pending # << >>
      /\ pending' \in AfterHandler(Head(pending).device, Tail(pending))
  BY DEF InterruptTypeOK, InterruptInv, CallOnInterrupt, IsDue
<1>2. /\ pending' \in Seq(Entry) /\ Ordered(pending')
      /\ \/ /\ Entries(pending') = Entries(pending) \ {Head(pending)}
            /\ Head(pending).device # Timer \/ disable
         \/ \E n \in Nat \ {0} :
              Entries(pending') = (Entries(pending) \ {Head(pending)})
                                    \cup {[device |-> Head(pending).device, left |-> n]}
  BY <1>1, HandlerEntries
<1>3. InterruptTypeOK'
  <2>1. at' \in CpuLocation /\ inHandler' \in BOOLEAN
    BY DEF CallOnInterrupt, CpuLocation, IsDue
  <2>2. yieldOnReturn' \in BOOLEAN
    BY DEF CallOnInterrupt, InterruptTypeOK
  <2>. QED  BY <1>2, <2>1, <2>2 DEF CallOnInterrupt, InterruptTypeOK
<1>4. ASSUME NEW y \in Entries(pending')
      PROVE  y \in Entries(pending) \/ y.left > 0
  BY <1>2
<1>5. ASSUME NEW y \in Entries(pending'), ~IsDue(pending')
      PROVE  y.left > 0
  BY <1>2, <1>5, NoneIsDue
<1>6. ASSUME NEW y \in Entries(pending')
      PROVE  /\ at' \in {"thread", "return"} => y.left > 0
             /\ y.left > -(IF status' = "IdleMode" THEN 1 ELSE SystemTick)
  <2>1. y.left \in Int
    <3>1. y \in Entry
      BY <1>2, ElementOfSeq DEF Entries
    <3>. QED  BY <3>1 DEF Entry
  <2>2. y.left > -(IF status = "IdleMode" THEN 1 ELSE SystemTick)
    BY <1>4, <2>1, InterruptAssumption DEF InterruptInv
  <2>3. status' = status /\ (at' # "loop" => ~IsDue(pending')) /\ at' \in {"loop", "return"}
    BY DEF CallOnInterrupt
  <2>. QED  BY <1>5, <2>2, <2>3
<1>7. ASSUME ~disable
      PROVE  \E y \in Entries(pending') : y.device = Timer
  <2>1. PICK x \in Entries(pending) : x.device = Timer
    BY <1>7 DEF InterruptInv
  <2>2. CASE x = Head(pending)
    <3>1. PICK n \in Nat \ {0} :
            [device |-> Head(pending).device, left |-> n] \in Entries(pending')
      BY <1>2, <1>7, <2>1, <2>2
    <3>. QED  BY <2>1, <2>2, <3>1
  <2>3. CASE x # Head(pending)
    BY <1>2, <2>1, <2>3
  <2>. QED  BY <2>2, <2>3
<1>8. at' \in {"loop", "return"} /\ (at' = "loop" => IsDue(pending')) /\ disable' = disable
  BY DEF CallOnInterrupt
<1>. QED  BY <1>2, <1>3, <1>6, <1>7, <1>8 DEF InterruptInv, HaltsOnlyWithoutTimer

(* A device that has no interrupt pending asks for one.                    *)
LEMMA RequestStep ==
  ASSUME InterruptTypeOK, InterruptInv, NEW d \in Device, DeviceRequest(d)
  PROVE  /\ InterruptTypeOK' /\ InterruptInv'
         /\ \A x \in Entries(pending) : x.device # d
         /\ \E n \in Nat \ {0} : Entries(pending') = Entries(pending) \cup {[device |-> d, left |-> n]}
<1>1. PICK n \in Delay(d) : pending' = Insert(pending, [device |-> d, left |-> n])
  BY DEF DeviceRequest, Schedule
<1>2. n \in Nat \ {0} /\ [device |-> d, left |-> n] \in Entry
  BY DelayType DEF Entry
<1>3. pending \in Seq(Entry) /\ Ordered(pending)
  BY DEF InterruptTypeOK, InterruptInv
<1>4. \A i \in 1 .. Len(pending) : pending[i].device # [device |-> d, left |-> n].device
  BY DEF DeviceRequest, Scheduled
<1>5. /\ pending' \in Seq(Entry) /\ Ordered(pending')
      /\ Entries(pending') = Entries(pending) \cup {[device |-> d, left |-> n]}
  BY <1>1, <1>2, <1>3, <1>4, InsertEntry
<1>6. \A x \in Entries(pending) : x.device # d
  BY <1>4 DEF Entries
<1>7. InterruptTypeOK'
  BY <1>5 DEF InterruptTypeOK, DeviceRequest
<1>8. ASSUME NEW y \in Entries(pending')
      PROVE  /\ y.left > 0
             /\ y.left > -(IF status = "IdleMode" THEN 1 ELSE SystemTick)
  <2>1. CASE y \in Entries(pending)
    BY <2>1 DEF InterruptInv, DeviceRequest
  <2>2. CASE y = [device |-> d, left |-> n]
    BY <1>2, <2>2, InterruptAssumption
  <2>. QED  BY <1>5, <2>1, <2>2
<1>9. ASSUME ~disable
      PROVE  \E y \in Entries(pending') : y.device = Timer
  BY <1>5, <1>9 DEF InterruptInv
<1>10. InterruptInv'
  BY <1>5, <1>8, <1>9 DEF InterruptInv, DeviceRequest, HaltsOnlyWithoutTimer
<1>. QED  BY <1>2, <1>5, <1>6, <1>7, <1>10

LEMMA CheckIfDueStep ==
  ASSUME InterruptTypeOK, InterruptInv, CheckIfDue
  PROVE  InterruptTypeOK' /\ InterruptInv'
<1>1. pending \in Seq(Entry) /\ Ordered(pending) /\ pending' = pending
  BY DEF InterruptTypeOK, InterruptInv, CheckIfDue
<1>2. InterruptTypeOK'
  BY Zenon DEF InterruptTypeOK, CheckIfDue, CpuLocation
<1>3. ASSUME ~IsDue(pending)
      PROVE  \A x \in Entries(pending) : x.left > 0
  BY <1>1, <1>3, NoneIsDue
<1>4. at' \in {"loop", "return"} /\ (at' = "loop" <=> IsDue(pending)) /\ UNCHANGED <<status, disable>>
  BY DEF CheckIfDue
<1>5. \A x \in Entries(pending) : at' \in {"thread", "return"} => x.left > 0
  BY <1>3, <1>4
<1>. QED  BY <1>1, <1>2, <1>4, <1>5 DEF InterruptInv, HaltsOnlyWithoutTimer

LEMMA NextStep ==
  InterruptTypeOK /\ InterruptInv /\ [InterruptNext]_interruptVars => InterruptTypeOK' /\ InterruptInv'
<1> SUFFICES ASSUME InterruptTypeOK, InterruptInv, [InterruptNext]_interruptVars
             PROVE  InterruptTypeOK' /\ InterruptInv'
  OBVIOUS
<1>1. ASSUME NEW d \in Device, DeviceRequest(d)
      PROVE  InterruptTypeOK' /\ InterruptInv'
  BY <1>1, RequestStep
<1>2. CASE Disable
  BY <1>2 DEF Disable, InterruptTypeOK, InterruptInv, HaltsOnlyWithoutTimer
<1>3. CASE Enable
  BY <1>3, TickStep DEF Enable
<1>4. CASE RunUser
  BY <1>4 DEF RunUser, InterruptTypeOK, InterruptInv, HaltsOnlyWithoutTimer
<1>5. CASE OneInstruction
  BY <1>5, TickStep DEF OneInstruction
<1>6. CASE CheckIfDue
  BY <1>6, CheckIfDueStep
<1>7. CASE Idle
  BY <1>7, IdleStep
<1>8. CASE CallOnInterrupt
  BY <1>8, CallBackStep
<1>9. CASE ReturnFromOneTick
  <2>1. status' \in {"SystemMode", "UserMode"}
    BY <1>9 DEF ReturnFromOneTick, InterruptTypeOK
  <2>. QED  BY <1>9, <2>1, Zenon DEF ReturnFromOneTick, InterruptTypeOK, InterruptInv, HaltsOnlyWithoutTimer, CpuLocation
<1>10. CASE ReturnFromIdle
  <2>1. \A x \in Entries(pending) : x.left > 0 => x.left > -SystemTick
    <3>1. \A x \in Entries(pending) : x \in Entry
      BY ElementOfSeq DEF Entries, InterruptTypeOK
    <3>. QED  BY <3>1, InterruptAssumption DEF Entry
  <2>. QED  BY <1>10, <2>1 DEF ReturnFromIdle, InterruptTypeOK, InterruptInv, HaltsOnlyWithoutTimer, CpuLocation
<1>11. CASE DisableTimer
  BY <1>11 DEF DisableTimer, InterruptTypeOK, InterruptInv, HaltsOnlyWithoutTimer
<1>12. CASE UNCHANGED interruptVars
  BY <1>12 DEF interruptVars, InterruptTypeOK, InterruptInv, HaltsOnlyWithoutTimer
<1>. QED
  BY <1>1, <1>2, <1>3, <1>4, <1>5, <1>6, <1>7, <1>8, <1>9, <1>10, <1>11, <1>12 DEF InterruptNext

-----------------------------------------------------------------------------
(* The refinement mapping reads the ticks left off the device's entry.     *)
LEMMA LeftOfEntry ==
  ASSUME NEW list \in Seq(Entry), Ordered(list)
  PROVE  /\ \A x \in Entries(list) : TicksLeft(list, x.device) = x.left /\ x.left \in Int
         /\ \A d : (\A x \in Entries(list) : x.device # d) => TicksLeft(list, d) = Nil
<1>1. ASSUME NEW x \in Entries(list)
      PROVE  TicksLeft(list, x.device) = x.left /\ x.left \in Int
  <2>1. PICK i \in 1 .. Len(list) : x = list[i]
    BY DEF Entries
  <2> DEFINE k == CHOOSE j \in 1 .. Len(list) : list[j].device = x.device
  <2>2. k \in 1 .. Len(list) /\ list[k].device = x.device
    BY <2>1
  <2>3. TicksLeft(list, x.device) = list[k].left
    BY <2>1 DEF TicksLeft
  <2> HIDE DEF k
  <2>4. k = i
    <3>1. k \in Int /\ i \in Int /\ ~(k < i) /\ ~(i < k)
      BY <2>1, <2>2 DEF Ordered
    <3>. QED  BY <3>1
  <2>5. x \in Entry
    BY <2>1, ElementOfSeq
  <2>6. x.left \in Int
    BY <2>5 DEF Entry
  <2>. QED  BY <2>1, <2>3, <2>4, <2>6
<1>2. ASSUME NEW d, \A x \in Entries(list) : x.device # d
      PROVE  TicksLeft(list, d) = Nil
  BY <1>2 DEF TicksLeft, Entries
<1>. QED  BY <1>1, <1>2

(* What the abstract clock shows of a list.                                *)
Shows(left, list) ==
  /\ \A x \in Entries(list) : /\ x.device \in Device /\ x.left \in Int
                              /\ left[x.device] = x.left /\ left[x.device] # Nil
  /\ \A d \in Device : (\A x \in Entries(list) : x.device # d) => left[d] = Nil
  /\ left \in [Device -> Int \cup {Nil}]

LEMMA LeftShows ==
  ASSUME NEW list \in Seq(Entry), Ordered(list),
         NEW left, left = [d \in Device |-> TicksLeft(list, d)]
  PROVE  Shows(left, list)
<1>1. ASSUME NEW x \in Entries(list)
      PROVE  /\ x.device \in Device /\ x.left \in Int
             /\ left[x.device] = x.left /\ left[x.device] # Nil
  <2>1. x \in Entry
    BY ElementOfSeq DEF Entries
  <2>2. x.device \in Device
    BY <2>1 DEF Entry
  <2>. QED  BY <2>2, LeftOfEntry, InterruptAssumption
<1>2. ASSUME NEW d \in Device, \A x \in Entries(list) : x.device # d
      PROVE  left[d] = Nil
  BY <1>2, LeftOfEntry
<1>3. \A d \in Device : left[d] \in Int \cup {Nil}
  BY <1>1, <1>2, Zenon
<1>. QED  BY <1>1, <1>2, <1>3, Zenon DEF Shows

(* Time moves on alike for all devices, unless none has asked.             *)
LEMMA AdvanceRefines ==
  ASSUME InterruptTypeOK, InterruptInv, at = "thread",
         NEW n \in Nat \ {0}, pending' = Advance(pending, n)
  PROVE  AbstractClock!Next \/ UNCHANGED Left
<1>1. pending \in Seq(Entry) /\ Ordered(pending) /\ \A x \in Entries(pending) : x.left > 0
  BY DEF InterruptTypeOK, InterruptInv
<1>2. pending' \in Seq(Entry) /\ Ordered(pending')
  BY <1>1, AdvanceEntries
<1>3. Shows(Left, pending) /\ Shows(Left', pending')
  <2>1. /\ Left = [d \in Device |-> TicksLeft(pending, d)]
        /\ Left' = [d \in Device |-> TicksLeft(pending', d)]
    BY DEF Left
  <2>. QED  BY <1>1, <1>2, <2>1, LeftShows
<1>4. ASSUME NEW x \in Entries(pending)
      PROVE  /\ x.device \in Device /\ x.left \in Int /\ x.left > 0
             /\ Left[x.device] = x.left /\ Left[x.device] # Nil
             /\ Left'[x.device] = x.left - n /\ Left'[x.device] # Nil
  <2>1. PICK y \in Entries(pending') : y.device = x.device /\ y.left = x.left - n
    BY <1>1, AdvanceSet
  <2>2. Left'[y.device] = y.left /\ Left'[y.device] # Nil
    BY <1>3 DEF Shows
  <2>3. x.device \in Device /\ x.left \in Int /\ Left[x.device] = x.left /\ Left[x.device] # Nil
    BY <1>3 DEF Shows
  <2>. QED  BY <1>1, <2>1, <2>2, <2>3
<1>5. ASSUME NEW d \in Device, \A x \in Entries(pending) : x.device # d
      PROVE  Left[d] = Nil /\ Left'[d] = Nil
  <2>1. ASSUME NEW y \in Entries(pending')
        PROVE  y.device # d
    <3>1. \E x \in Entries(pending) : y.device = x.device
      BY <1>1, AdvanceSet
    <3>. QED  BY <1>5, <3>1
  <2>2. Left'[d] = Nil
    BY <1>3, <2>1 DEF Shows
  <2>3. Left[d] = Nil
    BY <1>5, <1>3 DEF Shows
  <2>. QED  BY <2>2, <2>3
<1>6. /\ DOMAIN Left = Device /\ Left = [d \in Device |-> Left[d]]
      /\ DOMAIN Left' = Device /\ Left' = [d \in Device |-> Left'[d]]
  BY DEF Left
<1>7. CASE Entries(pending) = {}
  <2>1. \A d \in Device : Left[d] = Nil /\ Left'[d] = Nil
    BY <1>5, <1>7
  <2>. QED  BY <1>6, <2>1
<1>8. CASE Entries(pending) # {}
  <2>1. PICK x \in Entries(pending) : TRUE
    BY <1>8
  <2>2. \A d \in Device : Left[d] # Nil => Left[d] > 0 /\ Left'[d] = Left[d] - n
    BY <1>4, <1>5
  <2>3. \A d \in Device : Left[d] = Nil => Left'[d] = Nil
    BY <1>4, <1>5
  <2>4. Left[x.device] - Left'[x.device] = n /\ Left[x.device] # Nil /\ Left'[x.device] # Nil
    BY <1>4
  <2>5. AbstractClock!Advance(n)
    BY <1>6, <2>2, <2>3 DEF AbstractClock!Advance, AbstractClock!Asked
  <2>. QED  BY <1>4, <2>4, <2>5 DEF AbstractClock!Next, AbstractClock!Asked
<1>. QED  BY <1>7, <1>8

(* The first entry's interrupt is taken, and no other one is changed.      *)
LEMMA CallBackRefines ==
  ASSUME InterruptTypeOK, InterruptInv, CallOnInterrupt
  PROVE  AbstractClock!Next
<1> DEFINE d == Head(pending).device
           h == Head(pending)
<1>1. /\ pending \in Seq(Entry) /\ Ordered(pending) /\ pending # << >> /\ h.left <= 0
      /\ pending' \in AfterHandler(Head(pending).device, Tail(pending))
  BY DEF InterruptTypeOK, InterruptInv, CallOnInterrupt, IsDue
<1>2. /\ pending' \in Seq(Entry) /\ Ordered(pending')
      /\ \/ Entries(pending') = Entries(pending) \ {h}
         \/ \E n \in Nat \ {0} :
              Entries(pending') = (Entries(pending) \ {h}) \cup {[device |-> d, left |-> n]}
  BY <1>1, HandlerEntries
<1>3. /\ h \in Entries(pending)
      /\ \A x \in Entries(pending) : h.left <= x.left /\ (x # h => x.device # d)
  BY <1>1, FirstEntry
<1>4. Shows(Left, pending) /\ Shows(Left', pending')
  <2>1. /\ Left = [e \in Device |-> TicksLeft(pending, e)]
        /\ Left' = [e \in Device |-> TicksLeft(pending', e)]
    BY DEF Left
  <2>. QED  BY <1>1, <1>2, <2>1, LeftShows
<1>5. /\ \A x \in Entries(pending) : /\ x.device \in Device /\ x.left \in Int
                                     /\ Left[x.device] = x.left /\ Left[x.device] # Nil
      /\ \A e \in Device : (\A x \in Entries(pending) : x.device # e) => Left[e] = Nil
  BY <1>4 DEF Shows
<1>6. /\ \A x \in Entries(pending') : /\ Left'[x.device] = x.left /\ Left'[x.device] # Nil
      /\ \A e \in Device : (\A x \in Entries(pending') : x.device # e) => Left'[e] = Nil
      /\ Left' \in [Device -> Int \cup {Nil}]
  BY <1>4 DEF Shows
<1>7. d \in Device /\ Left[d] = h.left /\ Left[d] # Nil
  BY <1>3, <1>5
<1> HIDE DEF d, h
<1>8. \A e \in Device : Left[e] # Nil => Left[d] <= Left[e]
  BY <1>3, <1>5, <1>7
<1>9. ASSUME NEW e \in Device \ {d}
      PROVE  Left'[e] = Left[e]
  <2>1. CASE \E x \in Entries(pending) : x.device = e
    <3>1. PICK x \in Entries(pending) : x.device = e
      BY <2>1
    <3>3. x # h
      BY <3>1 DEF d, h
    <3>2. x \in Entries(pending')
      BY <1>2, <3>1, <3>3
    <3>. QED  BY <1>5, <1>6, <3>1, <3>2
  <2>2. CASE \A x \in Entries(pending) : x.device # e
    <3>1. \A x \in Entries(pending') : x.device # e
      BY <1>2, <2>2
    <3>. QED  BY <1>5, <1>6, <2>2, <3>1
  <2>. QED  BY <2>1, <2>2
<1>10. Left'[d] # Nil => Left'[d] > 0
  <2>1. CASE \E n \in Nat \ {0} : [device |-> d, left |-> n] \in Entries(pending')
    <3>1. PICK n \in Nat \ {0} : [device |-> d, left |-> n] \in Entries(pending')
      BY <2>1
    <3>2. Left'[[device |-> d, left |-> n].device] = [device |-> d, left |-> n].left
      BY <1>6, <3>1
    <3>. QED  BY <3>2
  <2>2. CASE Entries(pending') = Entries(pending) \ {h}
    BY <1>3, <1>6, <1>7, <2>2
  <2>. QED  BY <1>2, <2>1, <2>2
<1>11. AbstractClock!Take(d)
  BY <1>1, <1>6, <1>7, <1>8, <1>9, <1>10 DEF AbstractClock!Take, AbstractClock!Asked
<1>. QED  BY <1>7, <1>11 DEF AbstractClock!Next

LEMMA RequestRefines ==
  ASSUME InterruptTypeOK, InterruptInv, NEW d \in Device, DeviceRequest(d)
  PROVE  AbstractClock!Next
<1>1. /\ InterruptTypeOK' /\ InterruptInv'
      /\ \A x \in Entries(pending) : x.device # d
      /\ \E n \in Nat \ {0} : Entries(pending') = Entries(pending) \cup {[device |-> d, left |-> n]}
  BY RequestStep
<1>2. PICK n \in Nat \ {0} :
        Entries(pending') = Entries(pending) \cup {[device |-> d, left |-> n]}
  BY <1>1
<1>3. /\ pending \in Seq(Entry) /\ Ordered(pending)
      /\ pending' \in Seq(Entry) /\ Ordered(pending')
  BY <1>1 DEF InterruptTypeOK, InterruptInv
<1>4. Shows(Left, pending) /\ Shows(Left', pending')
  <2>1. /\ Left = [e \in Device |-> TicksLeft(pending, e)]
        /\ Left' = [e \in Device |-> TicksLeft(pending', e)]
    BY DEF Left
  <2>. QED  BY <1>3, <2>1, LeftShows
<1>5. Left[d] = Nil
  BY <1>1, <1>4 DEF Shows
<1>6. Left'[d] = n /\ Left'[d] # Nil
  <2>1. [device |-> d, left |-> n] \in Entries(pending')
    BY <1>2
  <2>2. /\ Left'[[device |-> d, left |-> n].device] = [device |-> d, left |-> n].left
        /\ Left'[[device |-> d, left |-> n].device] # Nil
    BY <1>4, <2>1 DEF Shows
  <2>. QED  BY <2>2
<1>7. ASSUME NEW e \in Device, e # d
      PROVE  Left'[e] = Left[e]
  <2>1. CASE \E x \in Entries(pending) : x.device = e
    <3>1. PICK x \in Entries(pending) : x.device = e
      BY <2>1
    <3>2. x \in Entries(pending')
      BY <1>2
    <3>. QED  BY <1>4, <3>1, <3>2 DEF Shows
  <2>2. CASE \A x \in Entries(pending) : x.device # e
    <3>1. \A x \in Entries(pending') : x.device # e
      BY <1>2, <1>7, <2>2
    <3>. QED  BY <1>4, <2>2, <3>1 DEF Shows
  <2>. QED  BY <2>1, <2>2
<1>8. Left' = [Left EXCEPT ![d] = n]
  <2>1. Left \in [Device -> Int \cup {Nil}] /\ Left' \in [Device -> Int \cup {Nil}]
    BY <1>4 DEF Shows
  <2>. QED  BY <1>6, <1>7, <2>1
<1>9. AbstractClock!Ask(d, n)
  BY <1>5, <1>8 DEF AbstractClock!Ask
<1>10. AbstractClock!Ask(d, Left'[d])
  BY <1>6, <1>9
<1>. QED  BY <1>6, <1>10 DEF AbstractClock!Next

LEMMA InitRefines ==
  ASSUME InterruptInit, InterruptTypeOK, InterruptInv
  PROVE  AbstractClock!Init
<1>1. /\ pending \in Seq(Entry) /\ Ordered(pending)
      /\ \A x \in Entries(pending) : x.left > 0
  BY DEF InterruptInit, InterruptTypeOK, InterruptInv
<1>2. Shows(Left, pending)
  <2>1. Left = [e \in Device |-> TicksLeft(pending, e)]
    BY DEF Left
  <2>. QED  BY <1>1, <2>1, LeftShows
<1>3. ASSUME NEW d \in Device
      PROVE  Left[d] \in (Nat \ {0}) \cup {Nil}
  <2>1. CASE \E x \in Entries(pending) : x.device = d
    <3>1. PICK x \in Entries(pending) : x.device = d
      BY <2>1
    <3>2. x.left \in Int /\ x.left > 0 /\ Left[d] = x.left
      BY <1>1, <1>2, <3>1 DEF Shows
    <3>. QED  BY <3>2
  <2>2. CASE \A x \in Entries(pending) : x.device # d
    BY <1>2, <2>2 DEF Shows
  <2>. QED  BY <2>1, <2>2
<1>4. Left = [d \in Device |-> Left[d]]
  BY DEF Left
<1>. QED  BY <1>3, <1>4 DEF AbstractClock!Init

LEMMA NextRefines ==
  InterruptTypeOK /\ InterruptInv /\ [InterruptNext]_interruptVars => [AbstractClock!Next]_Left
<1> SUFFICES ASSUME InterruptTypeOK, InterruptInv, [InterruptNext]_interruptVars
             PROVE  AbstractClock!Next \/ UNCHANGED Left
  OBVIOUS
<1>1. ASSUME UNCHANGED pending
      PROVE  UNCHANGED Left
  BY <1>1 DEF Left
<1>2. ASSUME NEW d \in Device, DeviceRequest(d)
      PROVE  AbstractClock!Next
  BY <1>2, RequestRefines
<1>3. CASE Enable \/ OneInstruction
  <2>1. PICK n \in Nat \ {0} : pending' = Advance(pending, n)
    BY <1>3, InterruptAssumption DEF Enable, OneInstruction, OneTick
  <2>. QED  BY <1>3, <2>1, AdvanceRefines DEF Enable, OneInstruction
<1>4. CASE Idle
  <2>1. CASE pending = << >>
    BY <1>1, <1>4, <2>1 DEF Idle
  <2>2. CASE pending # << >>
    <3>1. /\ pending \in Seq(Entry) /\ Ordered(pending) /\ at = "thread"
          /\ \A x \in Entries(pending) : x.left > 0
      BY <1>4 DEF InterruptTypeOK, InterruptInv, Idle
    <3>2. Head(pending) \in Entries(pending)
      BY <2>2, <3>1, FirstEntry
    <3>3. Head(pending) \in Entry
      BY <3>1, <3>2, ElementOfSeq DEF Entries
    <3>4. Head(pending).left \in Nat \ {0}
      BY <3>1, <3>2, <3>3 DEF Entry
    <3>5. pending' = Advance(pending, Head(pending).left)
      BY <1>4, <2>2, <3>4 DEF Idle, IsDue
    <3>. QED  BY <3>1, <3>4, <3>5, AdvanceRefines
  <2>. QED  BY <2>1, <2>2
<1>5. CASE CallOnInterrupt
  BY <1>5, CallBackRefines
<1>6. CASE Disable \/ RunUser \/ CheckIfDue \/ ReturnFromOneTick \/ ReturnFromIdle \/ DisableTimer
  BY <1>1, <1>6 DEF Disable, RunUser, CheckIfDue, ReturnFromOneTick, ReturnFromIdle, DisableTimer
<1>7. CASE UNCHANGED interruptVars
  BY <1>1, <1>7 DEF interruptVars
<1>. QED  BY <1>2, <1>3, <1>4, <1>5, <1>6, <1>7 DEF InterruptNext

-----------------------------------------------------------------------------
(* The inductive invariant of Interrupt, for every set of devices and all  *)
(* delays.                                                                 *)
THEOREM InterruptInvariant == InterruptSpec => [](InterruptTypeOK /\ InterruptInv)
BY Initially, NextStep, PTL DEF InterruptSpec

(* Interrupt::Idle reaches Halt only after Timer::Disable.                 *)
THEOREM OnlyWithoutTimer == InterruptSpec => []HaltsOnlyWithoutTimer
<1>1. InterruptInv => HaltsOnlyWithoutTimer
  BY DEF InterruptInv
<1>. QED  BY <1>1, InterruptInvariant, PTL

(* Interrupt::CheckIfDue, OneTick and Idle take interrupts on time, and    *)
(* the sorted list of pending interrupts implements the event clock.       *)
THEOREM ClockExact == InterruptSpec => ClockIsExact
<1>1. InterruptTypeOK /\ InterruptInv => OnTime
  BY DEF InterruptInv, OnTime, Entries
<1>2. InterruptInit => AbstractClock!Init
  BY Initially, InitRefines
<1>. QED
  BY <1>1, <1>2, NextRefines, InterruptInvariant, PTL
     DEF InterruptSpec, ClockIsExact, ImplementsEventClock, AbstractClock!Spec
=============================================================================

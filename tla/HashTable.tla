------------------------------ MODULE HashTable -----------------------------
(***************************************************************************)
(* HashTable<Key,T> and HashIterator<Key,T> (lib/hash.cc).  A bucket is a  *)
(* List, here the sequence that module ItemList promises.  An item stands  *)
(* for its key (getKey) and is a number, hashed as HashInt of              *)
(* lib/libtest.cc does.  An iterator lives while the table is not changed. *)
(***************************************************************************)
EXTENDS Integers, Sequences, SequencesExt

CONSTANTS Item, InitialBuckets, ResizeRatio, IncreaseSizeBy

HashTableAssumption ==
  /\ Item \subseteq Nat /\ ResizeRatio \in Nat /\ InitialBuckets \in Nat \ {0}
  /\ IncreaseSizeBy \in Nat \ {0}

VARIABLES
  buckets,    \* function from bucket numbers to lists
  numItems,
  items,      \* the items inserted and not removed (history)
  iterator,   \* NoIterator, or the current bucket and the items left in it
  seen        \* the items the iterator has returned (history)

tableVars == <<buckets, numItems, items>>
vars == <<buckets, numItems, items, iterator, seen>>

numBuckets == Len(buckets)

NoIterator == [bucket |-> 0, rest |-> << >>]

(* InitBuckets                                                             *)
Empty(sz) == [b \in 1 .. sz |-> << >>]

Init ==
  /\ buckets = Empty(InitialBuckets) /\ numItems = 0 /\ items = {}
  /\ iterator = NoIterator /\ seen = << >>

HashValue(table, key) == (key % Len(table)) + 1

Put(table, item) == [table EXCEPT ![HashValue(table, item)] = Append(@, item)]

(* Mutant of ReHash: each list is moved as a whole.                        *)
ReHashByBucket ==
  [b \in 1 .. numBuckets * IncreaseSizeBy |->
     IF b <= numBuckets THEN buckets[b] ELSE << >>]

(* The new table after every item, bucket by bucket, has been moved        *)
ReHash == FoldLeft(Put, Empty(numBuckets * IncreaseSizeBy), FlattenSeq(buckets))

FindInBucket(bucket, key) == key \in ToSet(buckets[bucket])

Find(key) == FindInBucket(HashValue(buckets, key), key)

Insert(item) ==
  /\ iterator = NoIterator
  /\ ~Find(item)
  /\ buckets' = Put(IF numItems \div numBuckets >= ResizeRatio THEN ReHash ELSE buckets, item)
  /\ numItems' = numItems + 1
  /\ items' = items \cup {item}
  /\ UNCHANGED <<iterator, seen>>

RemoveKey(key) ==
  /\ iterator = NoIterator
  /\ Find(key)
  /\ buckets' = [buckets EXCEPT ![HashValue(buckets, key)] = SelectSeq(@, LAMBDA i : i # key)]
  /\ numItems' = numItems - 1
  /\ items' = items \ {key}
  /\ UNCHANGED <<iterator, seen>>

FindNextFullBucket(bucket) ==
  CHOOSE b \in bucket .. numBuckets + 1 :
    /\ b = numBuckets + 1 \/ buckets[b] # << >>
    /\ \A c \in bucket .. b - 1 : buckets[c] = << >>

(* A new ListIterator of a bucket that FindNextFullBucket has returned     *)
AtBucket(b) == [bucket |-> b, rest |-> IF b <= numBuckets THEN buckets[b] ELSE << >>]

IsDone == iterator.bucket = numBuckets + 1

HashIterator ==
  /\ iterator = NoIterator
  /\ iterator' = AtBucket(FindNextFullBucket(1))
  /\ seen' = << >>
  /\ UNCHANGED tableVars

(* Mutant of NextItem: the search starts two buckets on.                   *)
NextItemSkipping ==
  /\ iterator # NoIterator /\ ~IsDone
  /\ seen' = Append(seen, Head(iterator.rest))
  /\ iterator' =
       IF Tail(iterator.rest) # << >> THEN [iterator EXCEPT !.rest = Tail(@)]
       ELSE AtBucket(IF iterator.bucket = numBuckets THEN numBuckets + 1
                     ELSE FindNextFullBucket(iterator.bucket + 2))
  /\ UNCHANGED tableVars

(* Item and Next of the iterator                                           *)
NextItem ==
  /\ iterator # NoIterator /\ ~IsDone
  /\ seen' = Append(seen, Head(iterator.rest))
  /\ iterator' =
       IF Tail(iterator.rest) # << >> THEN [iterator EXCEPT !.rest = Tail(@)]
       ELSE AtBucket(FindNextFullBucket(iterator.bucket + 1))
  /\ UNCHANGED tableVars

DeleteIterator ==
  /\ iterator # NoIterator
  /\ iterator' = NoIterator
  /\ seen' = << >>
  /\ UNCHANGED tableVars

Next == HashIterator \/ NextItem \/ DeleteIterator
        \/ \E i \in Item : Insert(i) \/ RemoveKey(i)

Spec == Init /\ [][Next]_vars

-----------------------------------------------------------------------------
(* Whatever was inserted and removed, and however often the table grew in  *)
(* between, Find finds exactly the items that are there, each of them is   *)
(* in one bucket and numItems counts them (HashTable::SanityCheck).        *)
FindIsExact ==
  /\ \A i \in Item : Find(i) <=> i \in items
  /\ numItems = Len(FlattenSeq(buckets))
  /\ ToSet(FlattenSeq(buckets)) = items /\ IsInjective(FlattenSeq(buckets))

(* An iterator returns every item in the table once before it is done.     *)
IterationIsComplete ==
  /\ IsInjective(seen)
  /\ iterator # NoIterator => ToSet(seen) \subseteq items /\ (IsDone => ToSet(seen) = items)
=============================================================================

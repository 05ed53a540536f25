------------------------------ MODULE HashTable ------------------------------
(***************************************************************************)
(* The self-expanding hash table of lib/hash.h and lib/hash.cc: an array   *)
(* of lists, and the iterator that steps through it.                       *)
(***************************************************************************)
EXTENDS List

CONSTANTS Key,            \* getKey of each item
          Hash,           \* hash of each key
          InitialBuckets, ResizeRatio, IncreaseSizeBy

LOCAL S == INSTANCE SequencesExt

ASSUME HashAssumption ==
  /\ DOMAIN Key = Items
  /\ \A x \in Items : Hash[Key[x]] \in Nat
  /\ {InitialBuckets, ResizeRatio, IncreaseSizeBy} \subseteq Nat \ {0}

InitBuckets(sz) == [b \in 0..(sz - 1) |-> NewList]

NewTable == [buckets |-> InitBuckets(InitialBuckets),
             numBuckets |-> InitialBuckets, numItems |-> 0]

HashValue(t, key) == Hash[key] % t.numBuckets

(* The address `new' picks is of no consequence: any unused one. *)
Fresh(l) == CHOOSE a \in Addr \ DOMAIN l.cell : TRUE

PutInBucket(t, item) ==
  [t EXCEPT !.buckets[HashValue(t, Key[item])] =
      ListAppend(@, Fresh(@), item)]

(* What ReHash takes out of the old table, bucket by bucket from the front *)
InOldOrder(t) ==
  S!FlattenSeq([b \in 1..t.numBuckets |-> ItemsOf(t.buckets[b - 1])])

(* Mutant: the buckets of the new table are chosen by its old size. *)
ReHashByOldSize(t) ==
  LET sz == t.numBuckets * IncreaseSizeBy
  IN  [S!FoldLeft(PutInBucket, [t EXCEPT !.buckets = InitBuckets(sz)],
                  InOldOrder(t))
         EXCEPT !.numBuckets = sz]

ReHash(t) ==
  LET sz == t.numBuckets * IncreaseSizeBy
  IN  S!FoldLeft(PutInBucket,
                 [t EXCEPT !.buckets = InitBuckets(sz), !.numBuckets = sz],
                 InOldOrder(t))

SanityCheck(t) ==
  /\ \A b \in DOMAIN t.buckets :
       /\ \E s \in SpinesOf(t.buckets[b]) : Spine(t.buckets[b], s)
       /\ \A a \in DOMAIN t.buckets[b].cell :
            HashValue(t, Key[t.buckets[b].cell[a].item]) = b
  /\ Len(InOldOrder(t)) = t.numItems

InBucket(t, b, key) ==
  {t.buckets[b].cell[a].item : a \in {a \in DOMAIN t.buckets[b].cell :
                                        Key[t.buckets[b].cell[a].item] = key}}

IsInTable(t, key) == InBucket(t, HashValue(t, key), key) # {}

(* Find: the item FindInBucket meets, NULL when there is none *)
Find(t, key) ==
  IF IsInTable(t, key)
  THEN CHOOSE x \in InBucket(t, HashValue(t, key), key) : TRUE
  ELSE NULL

TableIsEmpty(t) == t.numItems = 0

Grown(t) ==
  IF t.numItems \div t.numBuckets >= ResizeRatio THEN ReHash(t) ELSE t

HashInsert(t, item) ==
  [PutInBucket(Grown(t), item) EXCEPT !.numItems = @ + 1]

HashRemove(t, key) ==
  [t EXCEPT !.buckets[HashValue(t, key)] = ListRemove(@, Find(t, key)),
            !.numItems = @ - 1]

FindNextFullBucket(t, bucket) ==
  LET full == {b \in bucket..(t.numBuckets - 1) : ~IsEmpty(t.buckets[b])}
  IN  IF full = {} THEN t.numBuckets
      ELSE CHOOSE b \in full : \A c \in full : b <= c

(* A HashIterator: its bucket and where its ListIterator is in it *)
IteratorAt(t, bucket) ==
  [bucket |-> bucket,
   current |-> IF bucket < t.numBuckets THEN t.buckets[bucket].first
                                         ELSE NULL]

HashIterator(t) == IteratorAt(t, FindNextFullBucket(t, 0))

IsDone(t, i) == i.bucket = t.numBuckets

Item(t, i) == t.buckets[i.bucket].cell[i.current].item

(* Mutant: bucket is incremented twice. *)
IterateSkipping(t, i) ==
  LET next == t.buckets[i.bucket].cell[i.current].next
  IN  IF next # NULL THEN [i EXCEPT !.current = next]
      ELSE IteratorAt(t, FindNextFullBucket(t, i.bucket + 2))

Iterate(t, i) ==
  LET next == t.buckets[i.bucket].cell[i.current].next
  IN  IF next # NULL THEN [i EXCEPT !.current = next]
      ELSE IteratorAt(t, FindNextFullBucket(t, i.bucket + 1))
=============================================================================

------------------------------- MODULE Library -------------------------------
(***************************************************************************)
(* LibSelfTest of lib/libtest.cc: one class after the other is tried, each *)
(* on an object of its own that is empty before and after.  Where the      *)
(* SelfTest methods make one fixed series of calls, the actions here make  *)
(* every series of calls whose ASSERTs hold.                               *)
(***************************************************************************)
EXTENDS HashTable

VARIABLES
  phase,       \* the class under test
  list,        \* the List or the SortedList
  table,       \* the HashTable
  iter,        \* a HashIterator over it, or NoIter
  seen,        \* history: what the iterator has been at, in order
  got          \* the item the last RemoveFront or Remove returned, if any

vars == <<phase, list, table, iter, seen, got>>

NoIter == [bucket |-> -1, current |-> NULL]

Phases == {"list", "sorted", "table"}

Init ==
  /\ phase = "list" /\ list = NewList /\ table = NewTable
  /\ iter = NoIter /\ seen = <<>> /\ got = {}

OnList == UNCHANGED <<phase, table, iter, seen>>

OnTable == phase = "table" /\ UNCHANGED <<phase, list>>

(* new ListElement: the address of any unused piece of memory *)
Unused == Addr \ DOMAIN list.cell

DoAppend(item) ==
  /\ phase = "list" /\ ~IsInList(list, item)
  /\ \E e \in Unused : list' = ListAppend(list, e, item)
  /\ UNCHANGED got /\ OnList

DoPrepend(item) ==
  /\ phase = "list" /\ ~IsInList(list, item)
  /\ \E e \in Unused : list' = Prepend(list, e, item)
  /\ UNCHANGED got /\ OnList

(* SortedList's Append and Prepend are Insert too. *)
DoInsert(item) ==
  /\ phase = "sorted" /\ ~IsInList(list, item)
  /\ \E e \in Unused : list' = Insert(list, e, item)
  /\ UNCHANGED got /\ OnList

DoRemoveFront ==
  /\ phase \in {"list", "sorted"} /\ ~IsEmpty(list)
  /\ list' = RemoveFront(list) /\ got' = {Front(list)}
  /\ OnList

DoRemove(item) ==
  /\ phase \in {"list", "sorted"} /\ IsInList(list, item)
  /\ list' = ListRemove(list, item)
  /\ UNCHANGED got /\ OnList

(* No client changes a table while it steps through it. *)
TableInsert(item) ==
  /\ OnTable /\ iter = NoIter /\ ~IsInTable(table, Key[item])
  /\ table' = HashInsert(table, item)
  /\ UNCHANGED <<iter, seen, got>>

TableRemove(key) ==
  /\ OnTable /\ iter = NoIter /\ IsInTable(table, key)
  /\ table' = HashRemove(table, key) /\ got' = {Find(table, key)}
  /\ UNCHANGED <<iter, seen>>

(* for (HashIterator iter(table); !iter.IsDone(); iter.Next()) iter.Item() *)
Arrive(i) ==
  /\ iter' = i
  /\ seen' = IF IsDone(table, i) THEN seen ELSE Append(seen, Item(table, i))
  /\ UNCHANGED <<table, got>>

IterStart == OnTable /\ iter = NoIter /\ Arrive(HashIterator(table))

IterNext ==
  /\ OnTable /\ iter # NoIter /\ ~IsDone(table, iter)
  /\ Arrive(Iterate(table, iter))

IterDone ==
  /\ OnTable /\ iter # NoIter /\ IsDone(table, iter)
  /\ iter' = NoIter /\ seen' = <<>>
  /\ UNCHANGED <<table, got>>

(* The object is empty again, and the next class has its turn. *)
NextTest ==
  /\ phase # "table" /\ IsEmpty(list)
  /\ phase' = IF phase = "list" THEN "sorted" ELSE "table"
  /\ list' = NewList
  /\ UNCHANGED <<table, iter, seen, got>>

Next ==
  \/ \E item \in Items :
       \/ DoAppend(item) \/ DoPrepend(item) \/ DoInsert(item)
       \/ DoRemove(item) \/ TableInsert(item) \/ TableRemove(Key[item])
  \/ DoRemoveFront \/ IterStart \/ IterNext \/ IterDone \/ NextTest

Spec == Init /\ [][Next]_vars

-----------------------------------------------------------------------------
(* SanityCheck of List and SortedList: whatever the calls and whatever     *)
(* addresses `new' hands out, the walk from first reaches last after       *)
(* numInList elements and no element is lost or met twice, and the walk    *)
(* of a sorted list never descends.                                        *)
ListSane ==
  /\ \E s \in SpinesOf(list) : Spine(list, s)
  /\ DistinctItems(list)
  /\ phase = "sorted" => InOrder(list)

(* SanityCheck of HashTable: after any insertions, removals and rehashes   *)
(* every item is in the bucket its key hashes to under the present number  *)
(* of buckets, and numItems is how many there are.                         *)
TableSane ==
  /\ SanityCheck(table)
  /\ table.numItems <= table.numBuckets * (ResizeRatio + 1)

(* Both containers stay sane, as their self-tests assert (libtest.cc).     *)
LibrarySane == ListSane /\ TableSane

(* A HashIterator is at every item of the table exactly once before it is  *)
(* done, whichever buckets are empty and however long the others are.      *)
IterationComplete ==
  /\ \A i, j \in 1..Len(seen) : seen[i] = seen[j] => i = j
  /\ iter # NoIter /\ IsDone(table, iter) => Len(seen) = table.numItems

(* Lists and tables of pointers behave as sequences and maps: every call   *)
(* has the effect, and returns the item, that the headers promise, sorted  *)
(* insertion putting an item behind those it ties with.                    *)
TheMap ==
  [k \in {k \in {Key[x] : x \in Items} : IsInTable(table, k)} |-> Find(table, k)]

Abstract == INSTANCE Containers WITH seq <- ItemsOf(list), map <- TheMap

ContainersSpec == Abstract!Spec
=============================================================================

-------------------------------- MODULE List --------------------------------
(***************************************************************************)
(* The singly linked lists of lib/list.h and lib/list.cc, at the level of  *)
(* their pointers.  A list is the record of its fields first, last and     *)
(* numInList with the elements `new' has given it and `delete' has not     *)
(* taken back: cell maps the address of each to its item and next field.   *)
(* Every list of the kernel (ready queue, semaphore queues, pending        *)
(* interrupts, mailboxes) is one of these; the other modules model them as *)
(* sequences, which Library shows them to implement.                       *)
(***************************************************************************)
EXTENDS Integers, FiniteSets, Sequences

CONSTANTS Addr, NULL, Items,
          Order         \* what SortedList's compare looks at

ASSUME ListAssumption == NULL \notin Addr /\ Order \in [Items -> Int]

NewList == [first |-> NULL, last |-> NULL, numInList |-> 0,
            cell |-> [a \in {} |-> NULL]]

IsEmpty(l) == l.numInList = 0

(* The walk from first visits the elements in some order: ListSane. *)
IsInList(l, item) == \E a \in DOMAIN l.cell : l.cell[a].item = item

(* new ListElement(item), its next field set, at the unused address e *)
NewElement(cell, e, item, next) ==
  [a \in DOMAIN cell \cup {e} |->
     IF a = e THEN [item |-> item, next |-> next] ELSE cell[a]]

Delete(cell, e) == [a \in DOMAIN cell \ {e} |-> cell[a]]

SetNext(cell, a, b) == [cell EXCEPT ![a].next = b]

OnlyElement(l, e, item) ==
  [first |-> e, last |-> e, numInList |-> 1,
   cell |-> NewElement(l.cell, e, item, NULL)]

AtFront(l, e, item) ==
  [l EXCEPT !.first = e, !.numInList = @ + 1,
            !.cell = NewElement(@, e, item, l.first)]

AtEnd(l, e, item) ==
  [l EXCEPT !.last = e, !.numInList = @ + 1,
            !.cell = SetNext(NewElement(@, e, item, NULL), l.last, e)]

AfterElement(l, p, e, item) ==
  [l EXCEPT !.numInList = @ + 1,
            !.cell = SetNext(NewElement(@, e, item, l.cell[p].next), p, e)]

ListAppend(l, e, item) ==
  IF IsEmpty(l) THEN OnlyElement(l, e, item) ELSE AtEnd(l, e, item)

Prepend(l, e, item) ==
  IF IsEmpty(l) THEN OnlyElement(l, e, item) ELSE AtFront(l, e, item)

Front(l) == l.cell[l.first].item

RemoveFront(l) ==
  IF l.first = l.last
  THEN [first |-> NULL, last |-> NULL, numInList |-> l.numInList - 1,
        cell |-> Delete(l.cell, l.first)]
  ELSE [l EXCEPT !.first = l.cell[l.first].next, !.numInList = @ - 1,
                 !.cell = Delete(@, l.first)]

(* The element p before the one that holds item is unlinked from it. *)
Unlink(l, p) ==
  LET ptr == l.cell[p].next
      next == l.cell[ptr].next
  IN  [l EXCEPT !.last = IF next = NULL THEN p ELSE @,
                !.numInList = @ - 1,
                !.cell = Delete(SetNext(@, p, next), ptr)]

NextHolds(l, p, item) ==
  l.cell[p].next # NULL /\ l.cell[l.cell[p].next].item = item

ListRemove(l, item) ==
  IF item = Front(l) THEN RemoveFront(l)
  ELSE Unlink(l, CHOOSE p \in DOMAIN l.cell : NextHolds(l, p, item))

(* compare(x, y) < 0 *)
Before(x, y) == Order[x] < Order[y]

(* The loop of Insert stops at p: item goes before p's successor, but not *)
(* before p or, the list being sorted, anything in front of p.             *)
StopsAt(l, p, item) ==
  /\ ~Before(item, l.cell[p].item)
  /\ l.cell[p].next # NULL
  /\ Before(item, l.cell[l.cell[p].next].item)

(* Mutant: an item goes before the items it ties with. *)
InsertBeforeTies(l, e, item) ==
  LET stops(p) == /\ Before(l.cell[p].item, item)
                  /\ l.cell[p].next # NULL
                  /\ ~Before(l.cell[l.cell[p].next].item, item)
  IN  IF IsEmpty(l) THEN OnlyElement(l, e, item)
      ELSE IF ~Before(l.cell[l.first].item, item) THEN AtFront(l, e, item)
      ELSE IF \E p \in DOMAIN l.cell : stops(p)
           THEN AfterElement(l, CHOOSE p \in DOMAIN l.cell : stops(p), e, item)
           ELSE AtEnd(l, e, item)

Insert(l, e, item) ==
  IF IsEmpty(l) THEN OnlyElement(l, e, item)
  ELSE IF Before(item, Front(l)) THEN AtFront(l, e, item)
  ELSE IF \E p \in DOMAIN l.cell : StopsAt(l, p, item)
       THEN AfterElement(l, CHOOSE p \in DOMAIN l.cell : StopsAt(l, p, item),
                         e, item)
       ELSE AtEnd(l, e, item)

-----------------------------------------------------------------------------
(* s lists the addresses of l's elements in the order a walk along the     *)
(* next fields visits them, and the walk from first ends at last, after    *)
(* numInList elements, with none of the allocated ones left out.           *)
Spine(l, s) ==
  /\ l.numInList = Len(s)
  /\ \A a \in DOMAIN l.cell : \E i \in 1..Len(s) : s[i] = a
  /\ \A i, j \in 1..Len(s) : s[i] = s[j] => i = j
  /\ \A i \in 1..Len(s) :
       l.cell[s[i]].next = IF i = Len(s) THEN NULL ELSE s[i + 1]
  /\ l.first = IF s = <<>> THEN NULL ELSE s[1]
  /\ l.last = IF s = <<>> THEN NULL ELSE s[Len(s)]

SpinesOf(l) ==
  UNION {[1..n -> DOMAIN l.cell] : n \in 0..Cardinality(DOMAIN l.cell)}

(* The items in the order of the walk: what ListIterator and Apply meet. *)
ItemsOf(l) ==
  LET walk[i \in 1..l.numInList] ==
        IF i = 1 THEN l.first ELSE l.cell[walk[i - 1]].next
  IN  [i \in 1..l.numInList |-> l.cell[walk[i]].item]

DistinctItems(l) ==
  \A a, b \in DOMAIN l.cell : l.cell[a].item = l.cell[b].item => a = b

(* No element is in front of one that compare puts before it. *)
InOrder(l) ==
  \A a \in DOMAIN l.cell :
    l.cell[a].next # NULL =>
      ~Before(l.cell[l.cell[a].next].item, l.cell[a].item)
=============================================================================

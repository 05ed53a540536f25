---------------------------- MODULE BlockingList ----------------------------
(***************************************************************************)
(* What a synchronized list promises its callers: a first-in first-out     *)
(* list with atomic operations, in which RemoveFront waits for an item.    *)
(***************************************************************************)
EXTENDS Sequences

CONSTANTS Callers, Items, NoItem

VARIABLES
  items,    \* the list
  removing, \* the callers in RemoveFront
  got       \* the item that the last RemoveFront returned

listVars == <<items, removing, got>>

Init ==
  /\ items = <<>>
  /\ removing = {}
  /\ got = NoItem

Put(i) ==
  /\ items' = Append(items, i)
  /\ UNCHANGED <<removing, got>>

Call(c) ==
  /\ c \notin removing
  /\ removing' = removing \cup {c}
  /\ UNCHANGED <<items, got>>

Take(c) ==
  /\ c \in removing
  /\ items # <<>>
  /\ got' = Head(items)
  /\ items' = Tail(items)
  /\ removing' = removing \ {c}

Next ==
  \/ \E i \in Items : Put(i)
  \/ \E c \in Callers : Call(c) \/ Take(c)

Spec == Init /\ [][Next]_listVars

(* An item is not left in the list while somebody waits for one. *)
TakeFair == WF_listVars(\E c \in Callers : Take(c))
=============================================================================

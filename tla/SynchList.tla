----------------------------- MODULE SynchList ------------------------------
(***************************************************************************)
(* The synchronized list (threads/synchlist.cc): a List, a Lock and a      *)
(* Condition on which RemoveFront waits while the list is empty.           *)
(***************************************************************************)
EXTENDS Monitor

CONSTANTS
  Items,      \* the things that are put on the list
  NoItem,     \* not one of them
  Appenders,  \* the threads that may call Append
  Removers,   \* the threads that may call RemoveFront
  Appliers,   \* the threads that may call Apply
  MaxItems    \* bound on the length of the list (see Room)

VARIABLES
  list,  \* SynchList::list
  op,    \* the operation each thread is in
  got    \* the item that the last RemoveFront returned

clientVars == <<list, op, got>>

Ops == {"none", "append", "appended", "remove", "apply"}

(* SynchList::SynchList *)
ListInit ==
  /\ list = <<>>
  /\ op = [t \in Threads |-> "none"]
  /\ got = NoItem

SetOp(t, o) == op' = [op EXCEPT ![t] = o]

(* A call of Append, RemoveFront or Apply: lock->Acquire(). *)
Call(t, o) ==
  /\ op[t] = "none"
  /\ Acquire(t)
  /\ SetOp(t, o)
  /\ UNCHANGED <<list, got>>

(* Mutant: Append does not signal. *)
AppendNoSignal(t, i) ==
  /\ At(t, "body") /\ at[t] = "in" /\ op[t] = "append"
  /\ i \notin Range(list)
  /\ list' = Append(list, i)
  /\ UNCHANGED <<kernelVars, monitorVars>>
  /\ SetOp(t, "appended")
  /\ UNCHANGED got

(* SynchList::Append with the lock: list->Append(item), which asserts that *)
(* the item is not in the list, and listEmpty->Signal(lock).               *)
AppendItem(t, i) ==
  /\ At(t, "body") /\ at[t] = "in" /\ op[t] = "append"
  /\ i \notin Range(list)
  /\ list' = Append(list, i)
  /\ IF waitQueue = <<>> THEN UNCHANGED <<kernelVars, monitorVars>>
                         ELSE Signal(t)
  /\ SetOp(t, "appended")
  /\ UNCHANGED got

(* The lock->Release() at the end of Append and of Apply. *)
Return(t) ==
  /\ op[t] \in {"appended", "apply"} /\ at[t] = "in"
  /\ Release(t, "out")
  /\ SetOp(t, "none")
  /\ UNCHANGED <<waitQueue, list, got>>

(* SynchList::RemoveFront finds the list empty: listEmpty->Wait(lock). *)
WaitForItem(t) ==
  /\ op[t] = "remove" /\ at[t] = "in"
  /\ list = <<>>
  /\ Wait(t)
  /\ UNCHANGED clientVars

(* Mutant: RemoveFront takes an item without testing that there is one. *)
TakeItemNoTest(t) ==
  /\ op[t] = "remove" /\ at[t] = "in"
  /\ got' = IF list = <<>> THEN NoItem ELSE Head(list)
  /\ list' = IF list = <<>> THEN <<>> ELSE Tail(list)
  /\ Release(t, "out")
  /\ SetOp(t, "none")
  /\ UNCHANGED waitQueue

(* SynchList::RemoveFront finds an item, takes it and releases the lock.   *)
TakeItem(t) ==
  /\ op[t] = "remove" /\ at[t] = "in"
  /\ list # <<>>
  /\ got' = Head(list)
  /\ list' = Tail(list)
  /\ Release(t, "out")
  /\ SetOp(t, "none")
  /\ UNCHANGED waitQueue

(* A thread that is in no operation may create and fork threads, and may   *)
(* do something else for ever: it yields.                                  *)
Outside(t) ==
  /\ op[t] = "none"
  /\ \/ \E u \in Threads : NewThread(t, u) \/ Fork(t, u)
     \/ Yield(t)
  /\ UNCHANGED <<monitorVars, clientVars>>

(* The callers append no more than MaxItems things at a time. *)
Room ==
  Len(list) + Cardinality({t \in Threads : op[t] = "append"}) < MaxItems

ListCalls(t) ==
  \/ t \in Appenders /\ Room /\ Call(t, "append")
  \/ t \in Removers /\ Call(t, "remove")
  \/ t \in Appliers /\ Call(t, "apply")
  \/ \E i \in Items : AppendItem(t, i)
  \/ Return(t)
  \/ WaitForItem(t)
  \/ TakeItem(t)
  \/ Outside(t)

-----------------------------------------------------------------------------
ListTypeOK ==
  /\ list \in Seq(Items)
  /\ op \in [Threads -> Ops]
  /\ got \in Items \cup {NoItem}

(* The threads in RemoveFront that will test the list without another      *)
(* signal.                                                                 *)
Takers ==
  Signalled \cup
    {t \in Threads : /\ op[t] = "remove"
                     /\ \/ at[t] \in {"reacquire", "in"}
                        \/ at[t] = "wait" /\ waitingOn[t] = NULL}

(* Mesa semantics loses no item (SynchList::Append, RemoveFront): while a  *)
(* thread waits for a signal, every item in the list has a thread on its   *)
(* way to test the list, though one that never waited may take it first.   *)
NoItemStranded == waitQueue # <<>> => Len(list) <= Cardinality(Takers)

Blocking ==
  INSTANCE BlockingList WITH
    Callers <- Threads,
    items <- list,
    removing <- {t \in Threads : op[t] = "remove"}

(* Append and RemoveFront are atomic operations on a first-in first-out    *)
(* list, and RemoveFront returns only with an item, though a thread that   *)
(* waited for one finds, when it has the lock again, that the list may     *)
(* have changed (the "while" of SynchList::RemoveFront).                   *)
ListSpec == Blocking!Spec

(* An item is not left in the list while somebody waits for one: the       *)
(* signals of SynchList::Append suffice, provided that the calls of Apply  *)
(* come to an end.  The proviso is needed because Lock is not fair: a      *)
(* thread that calls Apply again and again may hold the lock each time the *)
(* thread in RemoveFront, woken by lock->Release(), runs and tests it.     *)
(* Endless calls of Append could do the same; Room keeps them out, since   *)
(* it lets no more than MaxItems of them come before an item is taken.     *)
ItemsTaken ==
  <>[](\A t \in Threads : op[t] # "apply") => Blocking!TakeFair
=============================================================================

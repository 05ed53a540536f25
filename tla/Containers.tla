----------------------------- MODULE Containers -----------------------------
(***************************************************************************)
(* What lib/list.h and lib/hash.h promise of their classes: a list is a    *)
(* sequence, a sorted list one kept in order with ties in the order of     *)
(* their arrival, a hash table a map from keys to items.                   *)
(***************************************************************************)
EXTENDS Integers, FiniteSets, Sequences

CONSTANTS Items, Order, Key

VARIABLES phase,    \* the class in use: a list, a sorted list or a table
          seq,      \* the items of the list or the sorted list
          map,      \* the item the table holds for each of its keys
          got       \* what the last RemoveFront or Remove returned

InSeq(x) == \E i \in 1..Len(seq) : seq[i] = x

Init ==
  phase = "list" /\ seq = <<>> /\ map = [k \in {} |-> k] /\ got = {}

AddLast(x) == seq' = Append(seq, x) /\ UNCHANGED got

AddFirst(x) == seq' = <<x>> \o seq /\ UNCHANGED got

AddInOrder(x) ==
  LET k == Cardinality({i \in 1..Len(seq) : Order[seq[i]] <= Order[x]})
  IN  /\ seq' = SubSeq(seq, 1, k) \o <<x>> \o SubSeq(seq, k + 1, Len(seq))
      /\ UNCHANGED got

TakeFirst ==
  seq # <<>> /\ seq' = Tail(seq) /\ got' = {Head(seq)}

TakeOut(x) ==
  /\ InSeq(x)
  /\ seq' = SelectSeq(seq, LAMBDA y : y # x)
  /\ UNCHANGED got

Put(x) ==
  /\ map' = [k \in DOMAIN map \cup {Key[x]} |-> IF k = Key[x] THEN x ELSE map[k]]
  /\ UNCHANGED <<seq, got>>

Take(k) ==
  /\ map' = [j \in DOMAIN map \ {k} |-> map[j]]
  /\ got' = {map[k]}
  /\ UNCHANGED seq

Next ==
  \/ /\ \/ phase = "list" /\ \E x \in Items :
                             ~InSeq(x) /\ (AddLast(x) \/ AddFirst(x))
        \/ phase = "sorted" /\ \E x \in Items : ~InSeq(x) /\ AddInOrder(x)
        \/ \E x \in Items : TakeOut(x)
        \/ TakeFirst
     /\ UNCHANGED <<phase, map>>
  \/ /\ phase = "table"
     /\ \/ \E x \in Items : Key[x] \notin DOMAIN map /\ Put(x)
        \/ \E k \in DOMAIN map : Take(k)
     /\ UNCHANGED phase
  \/ /\ seq = <<>> /\ <<phase, phase'>> \in {<<"list", "sorted">>,
                                           <<"sorted", "table">>}
     /\ UNCHANGED <<seq, map, got>>

Spec == Init /\ [][Next]_<<phase, seq, map, got>>
=============================================================================

------------------------------ MODULE MCLibrary ------------------------------
EXTENDS Library

(* Items 4 and 5 tie with 1 and 2 in a sorted list; 5 shares its key with 1 *)
MCOrder == [x \in Items |-> x % 3]

MCKey == [x \in Items |-> IF x = 5 THEN 1 ELSE x]

(* HashInt *)
MCHash == [k \in Items |-> k]
=============================================================================

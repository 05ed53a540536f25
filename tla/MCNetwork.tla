----------------------------- MODULE MCNetwork ------------------------------
(***************************************************************************)
(* Two machines, with one thread on the first and two on the other.        *)
(***************************************************************************)
EXTENDS Network

MCHostOf == [c \in Clients |-> IF c = 0 THEN 0 ELSE 1]
=============================================================================

---------------------------- MODULE MCInterrupts ----------------------------
(***************************************************************************)
(* Two tracks of three sectors, and times that are pairwise out of step.   *)
(***************************************************************************)
EXTENDS Interrupts
=============================================================================

-------------------------------- MODULE Lock --------------------------------
(***************************************************************************)
(* Lock of threads/synch.cc: a semaphore of value 1 and a holder.  A       *)
(* module that uses a lock keeps track itself of where its threads are;    *)
(* see Monitor.tla for what is checked about locks.                        *)
(***************************************************************************)
EXTENDS Kernel

CONSTANT LockSem     \* Lock::semaphore

VARIABLE lockHolder  \* Lock::lockHolder

(* Lock::Lock *)
LockInit == lockHolder = NULL

(* Lock::Acquire: its P ... *)
LockAcquire(t) ==
  /\ P(t, LockSem)
  /\ UNCHANGED lockHolder

(* ... and what follows it. *)
LockAcquired(t) ==
  /\ At(t, "body")
  /\ lockHolder' = t

(* Lock::Release, with its assertion. *)
LockRelease(t) ==
  /\ lockHolder = t
  /\ lockHolder' = NULL
  /\ V(t, LockSem)
=============================================================================

---------------------------- MODULE MCSynchDisk -----------------------------
(***************************************************************************)
(* Three threads that share the disk.                                      *)
(***************************************************************************)
EXTENDS SynchDisk

CONSTANTS main, t1, t2, lock, done

MCThreadSet == {main, t1, t2}
MCSemaphores == {lock, done}
MCInitialValue == [s \in MCSemaphores |-> IF s = lock THEN 1 ELSE 0]
MCDoneSem == [d \in {disk} |-> done]
=============================================================================

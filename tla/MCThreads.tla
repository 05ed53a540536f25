----------------------------- MODULE MCThreads ------------------------------
(***************************************************************************)
(* Three thread objects, and one semaphore that is used by threads and     *)
(* signalled by a device.                                                  *)
(***************************************************************************)
EXTENDS Threads

CONSTANTS main, t1, t2, disk

MCThreadSet == {main, t1, t2}
MCSemaphores == {"sem"}
MCInitialValue == [s \in MCSemaphores |-> 0]
MCDevices == {disk}
MCDoneSem == [d \in MCDevices |-> "sem"]
=============================================================================

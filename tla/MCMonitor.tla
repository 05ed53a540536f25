----------------------------- MODULE MCMonitor ------------------------------
(***************************************************************************)
(* Three threads that share one lock and one condition variable, or one    *)
(* synchronized list: two append to it, two remove from it and one does    *)
(* both.                                                                   *)
(***************************************************************************)
EXTENDS MonitorClient

CONSTANTS main, t1, t2, lock, w0, w1, w2, i1, i2

MCThreadSet == {main, t1, t2}
MCSemaphores == {lock, w0, w1, w2}
MCWaiter ==
  [t \in MCThreadSet |-> CASE t = main -> w0 [] t = t1 -> w1 [] t = t2 -> w2]
MCInitialValue == [s \in MCSemaphores |-> IF s = lock THEN 1 ELSE 0]
MCDoneSem == [d \in {} |-> lock]
=============================================================================

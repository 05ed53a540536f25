--------------------------- MODULE MonitorClient ----------------------------
(***************************************************************************)
(* The threads that share a lock and a condition variable: they use the    *)
(* synchronized list that is built on the two, or they are the most        *)
(* general client, where a thread outside acquires the lock and a thread   *)
(* inside waits, signals, broadcasts or releases.                          *)
(***************************************************************************)
EXTENDS SynchList

VARIABLE general  \* whether they are the most general client

vars == <<kernelVars, monitorVars, clientVars, general>>

Init ==
  /\ MonitorInit
  /\ ListInit
  /\ general \in BOOLEAN

GeneralCalls(t) ==
  \/ /\ at[t] = "out"
     /\ (\E u \in Threads : NewThread(t, u) \/ Fork(t, u)) \/ Finish(t)
     /\ UNCHANGED monitorVars
  \/ Acquire(t)
  \/ at[t] = "in" /\ Release(t, "out") /\ UNCHANGED waitQueue
  \/ Wait(t)
  \/ Signal(t)
  \/ Broadcast(t)
  \/ EndBroadcast(t)

Next ==
  /\ \E t \in Threads :
       \/ general /\ GeneralCalls(t) /\ UNCHANGED clientVars
       \/ ~ general /\ ListCalls(t)
       \/ MonitorStep(t) /\ UNCHANGED clientVars
  /\ UNCHANGED general

Spec == Init /\ [][Next]_vars

(***************************************************************************)
(* The fairness of the simulated machine: see Threads.tla.                 *)
(***************************************************************************)
Fairness ==
  LET Quiet == UNCHANGED <<monitorVars, clientVars, general>> IN
  /\ WF_vars(Next)
  /\ SF_vars(\E t \in Threads : TimerInterrupt(t) /\ Quiet)
  /\ \A t \in Threads : SF_vars(EndTick(t) /\ Quiet)

FairSpec == Spec /\ Fairness

-----------------------------------------------------------------------------
(* Every variable has its type. *)
TypeOK ==
  /\ MonitorTypeOK
  /\ ListTypeOK
  /\ general \in BOOLEAN
=============================================================================

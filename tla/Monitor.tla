------------------------------ MODULE Monitor -------------------------------
(***************************************************************************)
(* Condition variables (threads/synch.cc): a Condition is a queue of       *)
(* semaphores, one for each thread that waits, and is used under a Lock.   *)
(*                                                                         *)
(* Code between two kernel calls runs with no step of anybody else,        *)
(* because interrupt handlers and other threads run only inside the calls. *)
(* So an action here runs the code from the return of one kernel call to   *)
(* the entry of the next, and at[t] says where in this module t is:        *)
(*                                                                         *)
(*   out          outside the monitor                                      *)
(*   acquire      in the P of Lock::Acquire                                *)
(*   in           in the monitor                                           *)
(*   broadcast    in the monitor, in the loop of Condition::Broadcast      *)
(*   waitRelease  in the V of the Release in Condition::Wait               *)
(*   wait         in the P of Condition::Wait                              *)
(*   reacquire    in the P of the Acquire in Condition::Wait               *)
(*                                                                         *)
(* The semaphore that Wait allocates in thread t is Waiter[t].             *)
(***************************************************************************)
EXTENDS Lock, Functions

CONSTANT Waiter  \* the semaphore a thread allocates in Condition::Wait

ASSUME MonitorAssumption ==
  /\ LockSem \in Semaphores
  /\ Waiter \in [Threads -> Semaphores \ {LockSem}]
  /\ IsInjective(Waiter)
  /\ InitialValue[LockSem] = 1
  /\ \A t \in Threads : InitialValue[Waiter[t]] = 0

VARIABLES
  waitQueue,  \* Condition::waitQueue
  at          \* where each thread is (see above)

monitorVars == <<lockHolder, waitQueue, at>>
Ats == {"out", "acquire", "in", "broadcast", "waitRelease", "wait", "reacquire"}

MonitorTypeOK ==
  /\ KernelTypeOK
  /\ lockHolder \in Threads \cup {NULL}
  /\ waitQueue \in Seq(Semaphores)
  /\ at \in [Threads -> Ats]

(* Condition::Condition *)
MonitorInit ==
  /\ KernelInit
  /\ LockInit
  /\ waitQueue = <<>>
  /\ at = [t \in Threads |-> "out"]

MoveTo(t, where) == at' = [at EXCEPT ![t] = where]

(* Lock::Acquire, in two steps. *)
Acquire(t) ==
  /\ at[t] = "out"
  /\ LockAcquire(t)
  /\ MoveTo(t, "acquire")
  /\ UNCHANGED waitQueue

(* The end of Lock::Acquire, and of Condition::Wait when that called it.   *)
Acquired(t) ==
  /\ at[t] \in {"acquire", "reacquire"}
  /\ LockAcquired(t)
  /\ MoveTo(t, "in")
  /\ UNCHANGED <<kernelVars, waitQueue>>

(* Lock::Release; its caller goes on at "where". *)
Release(t, where) ==
  /\ LockRelease(t)
  /\ MoveTo(t, where)

(* Condition::Wait, up to the end of the Release. *)
Wait(t) ==
  /\ at[t] = "in"
  /\ waitQueue' = Append(waitQueue, Waiter[t])
  /\ Release(t, "waitRelease")

(* waiter->P() in Condition::Wait *)
WaitForSignal(t) ==
  /\ at[t] = "waitRelease"
  /\ P(t, Waiter[t])
  /\ MoveTo(t, "wait")
  /\ UNCHANGED <<lockHolder, waitQueue>>

(* conditionLock->Acquire() in Condition::Wait *)
Reacquire(t) ==
  /\ at[t] = "wait"
  /\ LockAcquire(t)
  /\ MoveTo(t, "reacquire")
  /\ UNCHANGED waitQueue

(* Mutant: Signal wakes the first waiter but leaves it in the queue. *)
WakeFirstKeep(t) ==
  /\ lockHolder = t
  /\ waitQueue # <<>>
  /\ V(t, Head(waitQueue))
  /\ UNCHANGED <<lockHolder, waitQueue>>

(* Condition::Signal when somebody waits; otherwise it does nothing. *)
WakeFirst(t) ==
  /\ lockHolder = t
  /\ waitQueue # <<>>
  /\ waitQueue' = Tail(waitQueue)
  /\ V(t, Head(waitQueue))
  /\ UNCHANGED lockHolder

Signal(t) ==
  /\ at[t] = "in"
  /\ WakeFirst(t)
  /\ UNCHANGED at

(* Condition::Broadcast: one Signal for each round of its loop. *)
Broadcast(t) ==
  /\ at[t] \in {"in", "broadcast"}
  /\ WakeFirst(t)
  /\ MoveTo(t, "broadcast")

(* The loop of Broadcast ends. *)
EndBroadcast(t) ==
  /\ At(t, "body")
  /\ at[t] = "broadcast"
  /\ waitQueue = <<>>
  /\ MoveTo(t, "in")
  /\ UNCHANGED <<kernelVars, lockHolder, waitQueue>>

(* The steps of a call that is in progress. *)
MonitorStep(t) ==
  \/ Acquired(t)
  \/ WaitForSignal(t)
  \/ Reacquire(t)
  \/ KernelStep(t) /\ UNCHANGED monitorVars

-----------------------------------------------------------------------------
(* The threads that have taken the lock and not given it back. *)
Inside ==
  {t \in Threads : \/ at[t] \in {"in", "broadcast"}
                   \/ at[t] \in {"acquire", "reacquire"} /\ waitingOn[t] = NULL}

(* A lock is held by at most one thread, its semaphore is 1 exactly when   *)
(* nobody holds it, and lockHolder is the thread that executes in the      *)
(* monitor, so that the assertions IsHeldByCurrentThread() of Release,     *)
(* Wait and Signal hold (Lock::Acquire, Lock::Release): a time slice at    *)
(* the end of P or V lets other threads run between the semaphore and the  *)
(* assignment to lockHolder.                                               *)
LockSafe ==
  /\ Cardinality(Inside) + value[LockSem] = 1
  /\ \A t \in Threads : at[t] \in {"in", "broadcast"} => lockHolder = t
  /\ lockHolder # NULL => at[lockHolder] \in {"in", "broadcast"}

(* The threads in Condition::Wait that have been signalled and have not    *)
(* left its P.                                                             *)
Signalled ==
  {t \in Threads : /\ \/ at[t] = "waitRelease"
                      \/ at[t] = "wait" /\ waitingOn[t] # NULL
                   /\ \A i \in DOMAIN waitQueue : waitQueue[i] # Waiter[t]}

(* Wait is not atomic (the lock is released before the P), but the private *)
(* semaphore remembers a signal: a waiter is in waitQueue exactly until    *)
(* one Signal is for it, that signal is a unit of its own semaphore and of *)
(* no other, and when Wait deletes the semaphore nothing refers to it.     *)
WaiterSafe ==
  /\ IsInjective(waitQueue)
  /\ \A i \in DOMAIN waitQueue :
       \E t \in Threads : /\ waitQueue[i] = Waiter[t]
                          /\ \/ at[t] = "waitRelease"
                             \/ at[t] = "wait" /\ waitingOn[t] = Waiter[t]
  /\ \A t \in Threads :
       /\ value[Waiter[t]] = IF t \in Signalled THEN 1 ELSE 0
       /\ at[t] \notin {"waitRelease", "wait"} => queue[Waiter[t]] = <<>>

(* The lock and the condition variable of a monitor (threads/synch.cc).    *)
MonitorSafe == LockSafe /\ WaiterSafe
=============================================================================

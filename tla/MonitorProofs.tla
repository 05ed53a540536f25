--------------------------- MODULE MonitorProofs ----------------------------
(***************************************************************************)
(* Proofs about the lock, the condition variable and the synchronized list *)
(* of Monitor.tla and SynchList.tla, for any number of threads and either  *)
(* client of MonitorClient.tla.                                            *)
(*                                                                         *)
(* Every step of the clients is a Move of the monitor.  The moves keep     *)
(* MonitorInv: which semaphore a thread may be in P of (Parked), who has   *)
(* the lock (HolderInv) and whom the next signals are for (QueueInv).      *)
(* That no item is stranded needs in addition which operation a thread in  *)
(* the monitor is executing (OperationInv).  The kernel's own invariant    *)
(* (IInv of ThreadsProofs.tla) holds because every step is a step of some  *)
(* client of the kernel.                                                   *)
(***************************************************************************)
EXTENDS MonitorClient, ThreadsProofs, FiniteSetTheorems

(* A step that names no prover is for Zenon.                               *)
USE ZenonT(40)

(* A thread that waits to be signalled, or has been and is still in P.     *)
InWait(t) ==
  \/ at[t] = "waitRelease"
  \/ at[t] = "wait" /\ waitingOn[t] # NULL

(* The P a thread is in belongs to its place in the monitor.               *)
Parked ==
  \A t \in Threads :
    waitingOn[t] # NULL =>
      \/ at[t] \in {"acquire", "reacquire"} /\ waitingOn[t] = LockSem
      \/ at[t] = "wait" /\ waitingOn[t] = Waiter[t]

(* The lock.                                                               *)
HolderInv ==
  /\ value[LockSem] = 0 \/ value[LockSem] = 1
  /\ value[LockSem] = 1 <=> \A t \in Threads : t \notin Inside
  /\ \A t, u \in Inside : t = u
  /\ \A t \in Threads : at[t] \in {"in", "broadcast"} => lockHolder = t
  /\ lockHolder # NULL => at[lockHolder] \in {"in", "broadcast"}

(* The condition variable: a thread that waits is in the queue, or has a   *)
(* unit in its own semaphore.                                              *)
QueueInv ==
  /\ IsInjective(waitQueue)
  /\ \A s \in Range(waitQueue) : \E t \in Threads : s = Waiter[t] /\ InWait(t)
  /\ \A t \in Threads :
       /\ InWait(t) /\ Waiter[t] \notin Range(waitQueue) => value[Waiter[t]] = 1
       /\ ~ InWait(t) \/ Waiter[t] \in Range(waitQueue) => value[Waiter[t]] = 0

(* The inductive invariant of the monitor.                                 *)
MonitorInv == MonitorTypeOK /\ Parked /\ HolderInv /\ QueueInv

(* The most general client leaves the list alone; the other one never      *)
(* broadcasts, and only RemoveFront waits.                                 *)
OperationInv ==
  /\ ListTypeOK /\ general \in BOOLEAN
  /\ general => list = <<>>
  /\ ~ general =>
       \A t \in Threads :
         /\ at[t] # "broadcast"
         /\ at[t] = "out" <=> op[t] = "none"
         /\ at[t] \in {"waitRelease", "wait", "reacquire"} => op[t] = "remove"

-----------------------------------------------------------------------------
(* A step of a client, as the lock and the condition variable see it.      *)
Move(t) ==
  \/ Acquire(t)
  \/ Acquired(t)
  \/ at[t] = "in" /\ Release(t, "out") /\ UNCHANGED waitQueue
  \/ Wait(t)
  \/ WaitForSignal(t)
  \/ Reacquire(t)
  \/ Signal(t)
  \/ Broadcast(t)
  \/ EndBroadcast(t)
  \/ KernelStep(t) /\ UNCHANGED monitorVars
  \/ UNCHANGED <<value, waitingOn, monitorVars>>

(* The assumptions on the monitor, one by one.                             *)
LEMMA MonitorConstants ==
  /\ LockSem \in Semaphores /\ LockSem # NULL
  /\ \A t \in Threads : /\ Waiter[t] \in Semaphores
                         /\ Waiter[t] # LockSem /\ Waiter[t] # NULL
  /\ \A t, u \in Threads : Waiter[t] = Waiter[u] => t = u
<1>1. LockSem \in Semaphores /\ NULL \notin Semaphores
  BY MonitorAssumption, KernelAssumption
<1>2. \A t \in Threads : Waiter[t] \in Semaphores /\ Waiter[t] # LockSem
  BY MonitorAssumption, SMTT(20)
<1>3. \A t, u \in Threads : Waiter[t] = Waiter[u] => t = u
  BY MonitorAssumption, SMTT(20) DEF IsInjective
<1> QED
  BY <1>1, <1>2, <1>3

(* What the invariants say of the types of the monitor's variables.        *)
LEMMA MonitorTypes ==
  ASSUME IInv, MonitorInv
  PROVE  /\ value \in [Semaphores -> Nat]
         /\ waitingOn \in [Threads -> Semaphores \cup {NULL}]
         /\ at \in [Threads -> Ats]
         /\ waitQueue \in Seq(Semaphores)
         /\ lockHolder \in Threads \cup {NULL}
  BY DEF IInv, KernelTypeOK, MonitorInv, MonitorTypeOK

(* Every step of the two clients is a move of the monitor and a step of a  *)
(* client of the kernel.                                                   *)
LEMMA StepIsMove == Next => \E t \in Threads : Move(t)
<1> SUFFICES ASSUME NEW t \in Threads,
                    \/ general /\ GeneralCalls(t) /\ UNCHANGED clientVars
                    \/ ~ general /\ ListCalls(t)
                    \/ MonitorStep(t) /\ UNCHANGED clientVars
             PROVE  Move(t)
  BY DEF Next
<1>1. CASE GeneralCalls(t)
  BY <1>1 DEF GeneralCalls, Move, NewThread, Fork, Finish, semVars
<1>2. CASE MonitorStep(t)
  BY <1>2 DEF MonitorStep, Move
<1>3. CASE ListCalls(t)
  <2>1. \A o : Call(t, o) => Move(t)
    BY DEF Call, Move
  <2>2. \A i : AppendItem(t, i) => Move(t)
    BY DEF AppendItem, Move, kernelVars, semVars
  <2>3. Return(t) \/ WaitForItem(t) \/ TakeItem(t) => Move(t)
    BY DEF Return, WaitForItem, TakeItem, Move
  <2>4. Outside(t) => Move(t)
    BY DEF Outside, NewThread, Fork, Yield, semVars, Move
  <2> QED
    BY <1>3, <2>1, <2>2, <2>3, <2>4 DEF ListCalls
<1> QED
  BY <1>1, <1>2, <1>3

LEMMA MonitorStepIsAnyStep == MonitorInv /\ [Next]_vars => [AnyStep]_kernelVars
<1> SUFFICES ASSUME MonitorInv, [Next]_vars PROVE [AnyStep]_kernelVars
  BY SMTT(20)
<1>1. CASE UNCHANGED vars
  BY <1>1 DEF vars
<1>2. ASSUME NEW t \in Threads,
             \/ general /\ GeneralCalls(t) /\ UNCHANGED clientVars
             \/ ~ general /\ ListCalls(t)
             \/ MonitorStep(t) /\ UNCHANGED clientVars
      PROVE  AnyCall(t) \/ KernelStep(t) \/ UNCHANGED kernelVars
  <2>1. waitQueue # <<>> => Head(waitQueue) \in Semaphores
    BY HeadTailLemma DEF MonitorInv, MonitorTypeOK
  <2>2. WakeFirst(t) => AnyCall(t)
    BY <2>1 DEF WakeFirst, AnyCall
  <2>3. Acquire(t) \/ Reacquire(t) \/ WaitForSignal(t) => AnyCall(t)
    BY MonitorConstants DEF Acquire, Reacquire, WaitForSignal, LockAcquire, AnyCall
  <2>4. \A where : Release(t, where) => AnyCall(t)
    BY MonitorConstants DEF Release, LockRelease, AnyCall
  <2>5. CASE GeneralCalls(t)
    BY <2>2, <2>3, <2>4, <2>5
       DEF GeneralCalls, Wait, Signal, Broadcast, EndBroadcast, AnyCall
  <2>6. CASE ListCalls(t)
    BY <2>2, <2>3, <2>4, <2>6
       DEF ListCalls, Call, AppendItem, Signal, Return, WaitForItem, Wait, TakeItem,
           Outside, AnyCall
  <2>7. CASE MonitorStep(t)
    BY <2>3, <2>7 DEF MonitorStep, Acquired
  <2> QED
    BY <1>2, <2>5, <2>6, <2>7
<1> QED
  BY <1>1, <1>2 DEF Next, AnyStep

(* Condition::Condition and Lock::Lock establish the invariant.            *)
LEMMA MonitorStart == Init => IInv /\ MonitorInv /\ OperationInv
<1> SUFFICES ASSUME Init PROVE IInv /\ MonitorInv /\ OperationInv
  BY SMTT(20)
<1>1. IInv
  BY IInvStart DEF Init, MonitorInit, KernelInit
<1>2. /\ value[LockSem] = 1 /\ \A t \in Threads : value[Waiter[t]] = 0
      /\ lockHolder = NULL /\ waitQueue = <<>>
      /\ \A t \in Threads : at[t] = "out" /\ waitingOn[t] = NULL
  BY MonitorAssumption
     DEF Init, MonitorInit, LockInit, KernelInit, KernelStart
<1>3. MonitorTypeOK
  <2>1. at \in [Threads -> Ats] /\ waitQueue \in Seq(Semaphores)
    BY SMTT(20) DEF Init, MonitorInit, Ats
  <2> QED
    BY <1>1, <1>2, <2>1 DEF MonitorTypeOK, IInv
<1>4. Parked /\ QueueInv
  BY <1>2, EmptyLemma, SMTT(20) DEF Parked, QueueInv, InWait
<1>5. HolderInv
  BY <1>2, SMTT(20) DEF HolderInv, Inside
<1>6. OperationInv
  <2>1. list \in Seq(Items) /\ got \in Items \cup {NoItem} /\ op \in [Threads -> Ops]
    BY SMTT(20) DEF Init, ListInit, Ops
  <2>2. list = <<>> /\ \A t \in Threads : op[t] = "none"
    BY DEF Init, ListInit
  <2>3. general \in BOOLEAN
    BY DEF Init
  <2>4. \A t \in Threads : /\ at[t] # "broadcast"
                           /\ at[t] \notin {"waitRelease", "wait", "reacquire"}
    BY <1>2, SMTT(20)
  <2> QED
    BY <1>2, <2>1, <2>2, <2>3, <2>4 DEF OperationInv, ListTypeOK
<1> QED
  BY <1>1, <1>3, <1>4, <1>5, <1>6 DEF MonitorInv

-----------------------------------------------------------------------------
(* lock->Acquire() keeps the invariant, on entry to the monitor and at the *)
(* end of Condition::Wait.                                                 *)
LEMMA AcquireKeeps ==
  ASSUME IInv, MonitorInv, NEW t \in Threads, Acquire(t) \/ Reacquire(t)
  PROVE  Parked' /\ HolderInv' /\ QueueInv'
<1>1. waitingOn[t] = NULL
  BY BodyNotInP DEF Acquire, Reacquire, LockAcquire, P
<1>2. PICK where \in {"acquire", "reacquire"} :
        /\ at[t] \in {"out", "wait"} /\ at' = [at EXCEPT ![t] = where]
        /\ waitingOn' = [waitingOn EXCEPT ![t] = LockSem]
        /\ UNCHANGED <<value, lockHolder, waitQueue>>
  BY DEF Acquire, Reacquire, LockAcquire, P, MoveTo, semVars
<1>3. /\ at'[t] = where /\ waitingOn'[t] = LockSem
      /\ \A u \in Threads : u # t => at'[u] = at[u] /\ waitingOn'[u] = waitingOn[u]
  BY <1>2, MonitorTypes
<1>4. Parked'
  BY <1>3 DEF MonitorInv, Parked
<1>5. Inside' = Inside
  BY <1>1, <1>2, <1>3, MonitorConstants, SMTT(20) DEF Inside
<1>6. \A u \in Threads : InWait(u)' <=> InWait(u)
  BY <1>1, <1>2, <1>3, SMTT(20) DEF InWait
<1>7. HolderInv'
  <2>1. \A u \in Threads : at'[u] \in {"in", "broadcast"} <=> at[u] \in {"in", "broadcast"}
    BY <1>2, <1>3, SMTT(20)
  <2> QED
    BY <1>2, <1>5, <2>1, MonitorTypes DEF MonitorInv, HolderInv
<1>8. QueueInv'
  BY <1>2, <1>6 DEF MonitorInv, QueueInv
<1> QED
  BY <1>4, <1>7, <1>8

(* So does the assignment to lockHolder at its end.                        *)
LEMMA AcquiredKeeps ==
  ASSUME IInv, MonitorInv, NEW t \in Threads, Acquired(t)
  PROVE  Parked' /\ HolderInv' /\ QueueInv'
<1>1. waitingOn[t] = NULL
  BY BodyNotInP DEF Acquired, LockAcquired
<1>2. /\ at[t] \in {"acquire", "reacquire"} /\ at' = [at EXCEPT ![t] = "in"]
      /\ lockHolder' = t
      /\ UNCHANGED <<value, waitingOn, waitQueue>>
  BY DEF Acquired, LockAcquired, MoveTo, kernelVars, semVars
<1>3. /\ at'[t] = "in"
      /\ \A u \in Threads : u # t => at'[u] = at[u]
  BY <1>2, MonitorTypes
<1>4. Parked'
  BY <1>1, <1>2, <1>3 DEF MonitorInv, Parked
<1>5. Inside' = Inside /\ t \in Inside
  BY <1>1, <1>2, <1>3, SMTT(20) DEF Inside
<1>6. \A u \in Threads : InWait(u)' <=> InWait(u)
  BY <1>1, <1>2, <1>3, SMTT(20) DEF InWait
<1>7. HolderInv'
  <2>1. \A u \in Threads : at'[u] \in {"in", "broadcast"} => u \in Inside'
    BY DEF Inside
  <2>2. \A u \in Threads : at'[u] \in {"in", "broadcast"} => lockHolder' = u
    BY <1>2, <1>5, <2>1 DEF MonitorInv, HolderInv
  <2>3. at'[lockHolder'] \in {"in", "broadcast"}
    BY <1>2, <1>3
  <2> QED
    BY <1>2, <1>5, <2>2, <2>3 DEF MonitorInv, HolderInv
<1>8. QueueInv'
  BY <1>2, <1>6 DEF MonitorInv, QueueInv
<1> QED
  BY <1>4, <1>7, <1>8

(* Lock::Release, for Parked and HolderInv.                                *)
LEMMA ReleaseKeeps ==
  ASSUME IInv, MonitorInv, NEW t \in Threads, at[t] = "in",
         NEW where \in {"out", "waitRelease"}, Release(t, where)
  PROVE  /\ Parked' /\ HolderInv'
         /\ waitingOn[t] = NULL
         /\ at' = [at EXCEPT ![t] = where]
         /\ UNCHANGED waitingOn
         /\ \A u \in Threads : value'[Waiter[u]] = value[Waiter[u]]
<1>1. waitingOn[t] = NULL
  BY BodyNotInP DEF Release, LockRelease, V
<1>2. /\ at' = [at EXCEPT ![t] = where]
      /\ value' = [value EXCEPT ![LockSem] = @ + 1]
      /\ lockHolder' = NULL
      /\ UNCHANGED waitingOn
  BY DEF Release, LockRelease, V, VBody, MoveTo
<1>3. /\ at'[t] = where
      /\ \A u \in Threads : u # t => at'[u] = at[u]
  BY <1>2, MonitorTypes
<1>4. \A u \in Threads : value'[Waiter[u]] = value[Waiter[u]]
  BY <1>2, MonitorTypes, MonitorConstants
<1>5. Parked'
  BY <1>1, <1>2, <1>3 DEF MonitorInv, Parked
<1>6. t \in Inside
  BY DEF Inside
<1>7. \A u \in Threads : u \in Inside => u = t
  BY <1>6 DEF MonitorInv, HolderInv
<1>8. \A u \in Threads : u \notin Inside'
  BY <1>1, <1>2, <1>3, <1>7, SMTT(20) DEF Inside
<1>9. value'[LockSem] = 1
  <2>1. value[LockSem] = 0
    BY <1>6, SMTT(20) DEF MonitorInv, HolderInv
  <2> QED
    BY <1>2, <2>1, MonitorTypes, MonitorConstants, SMTT(20)
<1>10. HolderInv'
  <2>1. \A u \in Threads : at'[u] \notin {"in", "broadcast"}
    BY <1>8 DEF Inside
  <2>2. \A u \in Inside' : u \in Threads
    BY DEF Inside
  <2> QED
    BY <1>2, <1>8, <1>9, <2>1, <2>2 DEF HolderInv
<1> QED
  BY <1>1, <1>2, <1>4, <1>5, <1>10

(* The Release that leaves the monitor.                                    *)
LEMMA LeaveKeeps ==
  ASSUME IInv, MonitorInv, NEW t \in Threads, at[t] = "in",
         Release(t, "out"), UNCHANGED waitQueue
  PROVE  Parked' /\ HolderInv' /\ QueueInv'
<1>1. /\ Parked' /\ HolderInv'
      /\ waitingOn[t] = NULL
      /\ at' = [at EXCEPT ![t] = "out"]
      /\ UNCHANGED waitingOn
      /\ \A u \in Threads : value'[Waiter[u]] = value[Waiter[u]]
  BY ReleaseKeeps
<1>2. /\ at'[t] = "out"
      /\ \A u \in Threads : u # t => at'[u] = at[u]
  BY <1>1, MonitorTypes
<1>3. \A u \in Threads : InWait(u)' <=> InWait(u)
  BY <1>1, <1>2, SMTT(20) DEF InWait
<1>4. QueueInv'
  BY <1>1, <1>3 DEF MonitorInv, QueueInv
<1> QED
  BY <1>1, <1>4

(* Condition::Wait up to the Release: the thread joins the queue.          *)
LEMMA WaitKeeps ==
  ASSUME IInv, MonitorInv, NEW t \in Threads, Wait(t)
  PROVE  Parked' /\ HolderInv' /\ QueueInv'
<1>1. /\ Parked' /\ HolderInv' /\ at[t] = "in"
      /\ waitingOn[t] = NULL
      /\ at' = [at EXCEPT ![t] = "waitRelease"]
      /\ UNCHANGED waitingOn
      /\ \A u \in Threads : value'[Waiter[u]] = value[Waiter[u]]
  BY ReleaseKeeps DEF Wait
<1>2. /\ at'[t] = "waitRelease"
      /\ \A u \in Threads : u # t => at'[u] = at[u]
  BY <1>1, MonitorTypes
<1>3. ~ InWait(t) /\ InWait(t)'
  BY <1>1, <1>2, SMTT(20) DEF InWait
<1>4. \A u \in Threads : u # t => (InWait(u)' <=> InWait(u))
  BY <1>1, <1>2 DEF InWait
<1>5. Waiter[t] \notin Range(waitQueue)
  BY <1>3, MonitorConstants DEF MonitorInv, QueueInv
<1>6. /\ IsInjective(waitQueue')
      /\ Range(waitQueue') = Range(waitQueue) \cup {Waiter[t]}
  <2>1. waitQueue' = Append(waitQueue, Waiter[t])
    BY DEF Wait
  <2>2. waitQueue \in Seq(Semaphores) /\ Waiter[t] \in Semaphores
    BY MonitorTypes, MonitorConstants
  <2>3. IsInjective(waitQueue)
    BY DEF MonitorInv, QueueInv
  <2>4. Range(Append(waitQueue, Waiter[t])) = Range(waitQueue) \cup {Waiter[t]}
    BY <2>2, AppendLemma, SMTT(20)
  <2>5. IsInjective(Append(waitQueue, Waiter[t]))
    BY <1>5, <2>2, <2>3, AppendLemma, SMTT(20)
  <2> QED
    BY <2>1, <2>4, <2>5
<1>7. \A s \in Range(waitQueue') : \E u \in Threads : s = Waiter[u] /\ InWait(u)'
  <2>1. ASSUME NEW s \in Range(waitQueue)
        PROVE  \E u \in Threads : s = Waiter[u] /\ InWait(u)'
    <3>1. PICK u \in Threads : s = Waiter[u] /\ InWait(u)
      BY DEF MonitorInv, QueueInv
    <3> QED
      BY <1>3, <1>4, <3>1
  <2> QED
    BY <1>3, <1>6, <2>1
<1>8. ASSUME NEW u \in Threads
      PROVE  /\ InWait(u)' /\ Waiter[u] \notin Range(waitQueue') => value'[Waiter[u]] = 1
             /\ ~ InWait(u)' \/ Waiter[u] \in Range(waitQueue') => value'[Waiter[u]] = 0
  <2>1. CASE u = t
    BY <1>1, <1>3, <1>6, <2>1 DEF MonitorInv, QueueInv
  <2>2. CASE u # t
    <3>1. Waiter[u] \in Range(waitQueue') <=> Waiter[u] \in Range(waitQueue)
      BY <1>6, <2>2, MonitorConstants
    <3> QED
      BY <1>1, <1>4, <2>2, <3>1 DEF MonitorInv, QueueInv
  <2> QED
    BY <2>1, <2>2
<1>9. QueueInv'
  BY <1>6, <1>7, <1>8 DEF QueueInv
<1> QED
  BY <1>1, <1>9

(* waiter->P() in Condition::Wait.                                         *)
LEMMA WaitForSignalKeeps ==
  ASSUME IInv, MonitorInv, NEW t \in Threads, WaitForSignal(t)
  PROVE  Parked' /\ HolderInv' /\ QueueInv'
<1>1. /\ at[t] = "waitRelease" /\ at' = [at EXCEPT ![t] = "wait"]
      /\ waitingOn' = [waitingOn EXCEPT ![t] = Waiter[t]]
      /\ UNCHANGED <<value, lockHolder, waitQueue>>
  BY DEF WaitForSignal, P, MoveTo, semVars
<1>2. /\ at'[t] = "wait" /\ waitingOn'[t] = Waiter[t]
      /\ \A u \in Threads : u # t => at'[u] = at[u] /\ waitingOn'[u] = waitingOn[u]
  BY <1>1, MonitorTypes
<1>3. Parked'
  BY <1>2 DEF MonitorInv, Parked
<1>4. Inside' = Inside
  BY <1>1, <1>2, SMTT(20) DEF Inside
<1>5. \A u \in Threads : InWait(u)' <=> InWait(u)
  BY <1>1, <1>2, MonitorConstants, SMTT(20) DEF InWait
<1>6. HolderInv'
  <2>1. \A u \in Threads : at'[u] \in {"in", "broadcast"} <=> at[u] \in {"in", "broadcast"}
    BY <1>1, <1>2, SMTT(20)
  <2> QED
    BY <1>1, <1>4, <2>1, MonitorTypes DEF MonitorInv, HolderInv
<1>7. QueueInv'
  BY <1>1, <1>5 DEF MonitorInv, QueueInv
<1> QED
  BY <1>3, <1>6, <1>7

(* Condition::Signal, alone or in the loop of Broadcast: the first waiter  *)
(* leaves the queue with a unit in its semaphore.                          *)
LEMMA WakeKeeps ==
  ASSUME IInv, MonitorInv, NEW t \in Threads, Signal(t) \/ Broadcast(t)
  PROVE  Parked' /\ HolderInv' /\ QueueInv'
<1>1. /\ waitQueue # <<>> /\ waitQueue' = Tail(waitQueue)
      /\ value' = [value EXCEPT ![Head(waitQueue)] = @ + 1]
      /\ UNCHANGED <<waitingOn, lockHolder>>
      /\ at[t] \in {"in", "broadcast"}
      /\ at' = at \/ at' = [at EXCEPT ![t] = "broadcast"]
  BY DEF Signal, Broadcast, WakeFirst, V, VBody, MoveTo
<1>2. /\ at'[t] \in {"in", "broadcast"}
      /\ \A u \in Threads : u # t => at'[u] = at[u]
  BY <1>1, MonitorTypes, SMTT(20)
<1>3. waitingOn[t] = NULL
  BY BodyNotInP DEF Signal, Broadcast, WakeFirst, V
<1>4. /\ Head(waitQueue) \in Semaphores /\ IsInjective(waitQueue')
      /\ Range(waitQueue) = Range(waitQueue') \cup {Head(waitQueue)}
      /\ Head(waitQueue) \notin Range(waitQueue')
  <2>1. waitQueue \in Seq(Semaphores) /\ IsInjective(waitQueue)
    BY MonitorTypes DEF MonitorInv, QueueInv
  <2> QED
    BY <1>1, <2>1, HeadTailLemma
<1>5. PICK w \in Threads : Head(waitQueue) = Waiter[w] /\ InWait(w)
  <2>1. Head(waitQueue) \in Range(waitQueue)
    BY <1>4
  <2> QED
    BY <2>1 DEF MonitorInv, QueueInv
<1>6. /\ value'[Waiter[w]] = value[Waiter[w]] + 1
      /\ value'[LockSem] = value[LockSem]
      /\ \A u \in Threads : u # w => value'[Waiter[u]] = value[Waiter[u]]
  BY <1>1, <1>5, MonitorTypes, MonitorConstants, SMTT(20)
<1>7. Parked'
  BY <1>1, <1>2, <1>3 DEF MonitorInv, Parked
<1>8. HolderInv'
  <2>1. Inside' = Inside
    BY <1>1, <1>2, SMTT(20) DEF Inside
  <2>2. \A u \in Threads : at'[u] \in {"in", "broadcast"} <=> at[u] \in {"in", "broadcast"}
    BY <1>1, <1>2
  <2> QED
    BY <1>1, <1>6, <2>1, <2>2, MonitorTypes DEF MonitorInv, HolderInv
<1>9. \A u \in Threads : InWait(u)' <=> InWait(u)
  BY <1>1, <1>2, SMTT(20) DEF InWait
<1>10. \A s \in Range(waitQueue') : \E u \in Threads : s = Waiter[u] /\ InWait(u)'
  BY <1>4, <1>9 DEF MonitorInv, QueueInv
<1>11. ASSUME NEW u \in Threads
       PROVE  /\ InWait(u)' /\ Waiter[u] \notin Range(waitQueue') => value'[Waiter[u]] = 1
              /\ ~ InWait(u)' \/ Waiter[u] \in Range(waitQueue') => value'[Waiter[u]] = 0
  <2>1. CASE u = w
    <3>1. value[Waiter[w]] = 0
      BY <1>4, <1>5 DEF MonitorInv, QueueInv
    <3>2. value'[Waiter[w]] = 1
      BY <1>6, <3>1, SMTT(20)
    <3> QED
      BY <1>4, <1>5, <1>9, <2>1, <3>2
  <2>2. CASE u # w
    <3>1. Waiter[u] \in Range(waitQueue') <=> Waiter[u] \in Range(waitQueue)
      BY <1>4, <1>5, <2>2, MonitorConstants
    <3> QED
      BY <1>6, <1>9, <2>2, <3>1 DEF MonitorInv, QueueInv
  <2> QED
    BY <2>1, <2>2
<1>12. QueueInv'
  BY <1>4, <1>10, <1>11 DEF QueueInv
<1> QED
  BY <1>7, <1>8, <1>12

(* The loop of Broadcast ends.                                             *)
LEMMA EndBroadcastKeeps ==
  ASSUME MonitorInv, IInv, NEW t \in Threads, EndBroadcast(t)
  PROVE  Parked' /\ HolderInv' /\ QueueInv'
<1>1. /\ at[t] = "broadcast" /\ at' = [at EXCEPT ![t] = "in"]
      /\ UNCHANGED <<value, waitingOn, lockHolder, waitQueue>>
  BY DEF EndBroadcast, MoveTo, kernelVars, semVars
<1>2. /\ at'[t] = "in"
      /\ \A u \in Threads : u # t => at'[u] = at[u]
  BY <1>1, MonitorTypes
<1>3. waitingOn[t] = NULL
  BY BodyNotInP DEF EndBroadcast
<1>4. Parked'
  BY <1>1, <1>2, <1>3 DEF MonitorInv, Parked
<1>5. HolderInv'
  <2>1. Inside' = Inside
    BY <1>1, <1>2, SMTT(20) DEF Inside
  <2>2. \A u \in Threads : at'[u] \in {"in", "broadcast"} <=> at[u] \in {"in", "broadcast"}
    BY <1>1, <1>2
  <2> QED
    BY <1>1, <2>1, <2>2, MonitorTypes DEF MonitorInv, HolderInv
<1>6. \A u \in Threads : InWait(u)' <=> InWait(u)
  BY <1>1, <1>2, SMTT(20) DEF InWait
<1>7. QueueInv'
  BY <1>1, <1>6 DEF MonitorInv, QueueInv
<1> QED
  BY <1>4, <1>5, <1>7

(* A step that changes neither the semaphores nor the monitor.             *)
LEMMA QuietKeeps ==
  ASSUME MonitorInv, UNCHANGED <<value, waitingOn, monitorVars>>
  PROVE  Parked' /\ HolderInv' /\ QueueInv'
<1>1. UNCHANGED <<value, waitingOn, lockHolder, waitQueue, at>>
  BY DEF monitorVars
<1>2. Inside' = Inside /\ \A u \in Threads : InWait(u)' <=> InWait(u)
  BY <1>1 DEF Inside, InWait
<1>3. Parked'
  BY <1>1 DEF MonitorInv, Parked
<1>4. HolderInv'
  BY <1>1, <1>2 DEF MonitorInv, HolderInv
<1>5. QueueInv'
  BY <1>1, <1>2 DEF MonitorInv, QueueInv
<1> QED
  BY <1>3, <1>4, <1>5

(* A step inside the kernel: a P that takes a unit of the lock finds       *)
(* nobody inside, and a P of a waiter's semaphore takes its signal.        *)
LEMMA KernelStepKeeps ==
  ASSUME IInv, MonitorInv, NEW t \in Threads, KernelStep(t), UNCHANGED monitorVars
  PROVE  Parked' /\ HolderInv' /\ QueueInv'
<1>1. UNCHANGED <<lockHolder, waitQueue, at>>
  BY DEF monitorVars
<1>2. CASE UNCHANGED <<value, waitingOn>>
  BY <1>2, QuietKeeps
<1>3. ASSUME NEW s \in Semaphores, waitingOn[t] = s, value[s] > 0,
             value' = [value EXCEPT ![s] = @ - 1],
             waitingOn' = [waitingOn EXCEPT ![t] = NULL]
      PROVE  Parked' /\ HolderInv' /\ QueueInv'
  <2>1. /\ waitingOn'[t] = NULL
        /\ \A u \in Threads : u # t => waitingOn'[u] = waitingOn[u]
        /\ value'[s] = value[s] - 1 /\ \A x \in Semaphores : x # s => value'[x] = value[x]
    BY <1>3, MonitorTypes, SMTT(20)
  <2>2. Parked'
    BY <1>1, <2>1 DEF MonitorInv, Parked
  <2>3. CASE s = LockSem
    <3>1. at[t] \in {"acquire", "reacquire"}
      BY <1>3, <2>3, MonitorConstants DEF MonitorInv, Parked
    <3>2. /\ value[LockSem] = 1 /\ value'[LockSem] = 0
          /\ \A u \in Threads : value'[Waiter[u]] = value[Waiter[u]]
      <4>1. \A u \in Threads : value'[Waiter[u]] = value[Waiter[u]]
        BY <2>1, <2>3, MonitorConstants
      <4> QED
        BY <1>3, <2>1, <2>3, <4>1, SMTT(20) DEF MonitorInv, HolderInv
    <3>3. \A u \in Threads : u \notin Inside
      BY <3>2 DEF MonitorInv, HolderInv
    <3>4. \A u \in Threads : u \in Inside' <=> u = t
      BY <1>1, <2>1, <3>1, <3>3 DEF Inside
    <3>5. \A u \in Inside' : u \in Threads
      BY DEF Inside
    <3>6. HolderInv'
      BY <1>1, <3>2, <3>4, <3>5, SMTT(30) DEF MonitorInv, HolderInv
    <3>7. \A u \in Threads : InWait(u)' <=> InWait(u)
      BY <1>1, <2>1, <3>1, SMTT(20) DEF InWait
    <3>8. QueueInv'
      BY <1>1, <3>2, <3>7 DEF MonitorInv, QueueInv
    <3> QED
      BY <2>2, <3>6, <3>8
  <2>4. CASE s # LockSem
    <3>1. s = Waiter[t] /\ at[t] = "wait" /\ InWait(t) /\ ~ InWait(t)'
      <4>1. s = Waiter[t] /\ at[t] = "wait"
        BY <1>3, <2>4, KernelAssumption DEF MonitorInv, Parked
      <4> QED
        BY <1>1, <1>3, <2>1, <4>1, KernelAssumption, SMTT(30) DEF InWait
    <3>2. Waiter[t] \notin Range(waitQueue) /\ value'[Waiter[t]] = 0
      <4>1. value[Waiter[t]] # 0
        BY <1>3, <3>1, SMTT(20)
      <4>2. Waiter[t] \notin Range(waitQueue) /\ value[Waiter[t]] = 1
        BY <3>1, <4>1 DEF MonitorInv, QueueInv
      <4> QED
        BY <2>1, <3>1, <4>2, SMTT(30)
    <3>3. Inside' = Inside
      BY <1>1, <2>1, <3>1, SMTT(20) DEF Inside
    <3>4. HolderInv'
      BY <1>1, <2>1, <2>4, <3>3, MonitorConstants DEF MonitorInv, HolderInv
    <3>5. \A u \in Threads :
            u # t => (InWait(u)' <=> InWait(u)) /\ value'[Waiter[u]] = value[Waiter[u]]
      BY <1>1, <2>1, <3>1, MonitorConstants DEF InWait
    <3>6. ASSUME NEW x \in Range(waitQueue)
          PROVE  \E u \in Threads : x = Waiter[u] /\ InWait(u)'
      <4>1. PICK u \in Threads : x = Waiter[u] /\ InWait(u)
        BY DEF MonitorInv, QueueInv
      <4> QED
        BY <3>2, <3>5, <4>1
    <3>7. QueueInv'
      BY <1>1, <3>1, <3>2, <3>5, <3>6 DEF MonitorInv, QueueInv
    <3> QED
      BY <2>2, <3>4, <3>7
  <2> QED
    BY <2>3, <2>4
<1> QED
  BY <1>2, <1>3, KernelStepEffect

(* The types of the monitor's variables are kept.                          *)
LEMMA MonitorTypesKept ==
  ASSUME IInv, IInv', MonitorInv, NEW t \in Threads, Move(t)
  PROVE  MonitorTypeOK'
<1>1. /\ lockHolder \in Threads \cup {NULL} /\ at \in [Threads -> Ats]
      /\ waitQueue \in Seq(Semaphores)
  BY MonitorTypes
<1>2. lockHolder' \in Threads \cup {NULL}
  BY <1>1
     DEF Move, Acquire, Acquired, Release, Wait, WaitForSignal, Reacquire, Signal,
         Broadcast, WakeFirst, EndBroadcast, LockAcquire, LockAcquired, LockRelease,
         monitorVars
<1>3. waitQueue' \in Seq(Semaphores)
  <2>1. Append(waitQueue, Waiter[t]) \in Seq(Semaphores)
    BY <1>1, MonitorConstants, AppendLemma
  <2>2. waitQueue # <<>> => Tail(waitQueue) \in Seq(Semaphores)
    BY <1>1, HeadTailLemma
  <2> QED
    BY <1>1, <2>1, <2>2
       DEF Move, Acquire, Acquired, Wait, WaitForSignal, Reacquire, Signal,
           Broadcast, WakeFirst, EndBroadcast, monitorVars
<1>4. at' = at \/ \E where \in Ats : at' = [at EXCEPT ![t] = where]
  <2>1. /\ "out" \in Ats /\ "acquire" \in Ats /\ "in" \in Ats /\ "broadcast" \in Ats
        /\ "waitRelease" \in Ats /\ "wait" \in Ats /\ "reacquire" \in Ats
    BY DEF Ats
  <2> QED
    BY <2>1
       DEF Move, Acquire, Acquired, Release, Wait, WaitForSignal, Reacquire, Signal,
           Broadcast, EndBroadcast, MoveTo, monitorVars
<1>5. at' \in [Threads -> Ats]
  BY <1>1, <1>4
<1> QED
  BY <1>2, <1>3, <1>5 DEF MonitorTypeOK, IInv

(* Every step of the two clients keeps the invariant.                      *)
LEMMA MonitorInvStep ==
  IInv /\ MonitorInv /\ [Next]_vars => IInv' /\ MonitorInv'
<1> SUFFICES ASSUME IInv, MonitorInv, [Next]_vars
             PROVE  IInv' /\ MonitorInv'
  BY SMTT(20)
<1>1. IInv'
  BY MonitorStepIsAnyStep, IInvStep
<1>2. CASE UNCHANGED vars
  <2>1. UNCHANGED <<value, waitingOn, monitorVars>>
    BY <1>2 DEF vars, kernelVars, semVars
  <2>2. MonitorTypeOK'
    BY <1>1, <2>1 DEF monitorVars, MonitorInv, MonitorTypeOK, IInv
  <2> QED
    BY <1>1, <2>1, <2>2, QuietKeeps DEF MonitorInv
<1>3. CASE Next
  <2>1. PICK t \in Threads : Move(t)
    BY <1>3, StepIsMove
  <2>2. Parked' /\ HolderInv' /\ QueueInv'
    BY <2>1, AcquireKeeps, AcquiredKeeps, LeaveKeeps, WaitKeeps, WaitForSignalKeeps,
       WakeKeeps, EndBroadcastKeeps, KernelStepKeeps, QuietKeeps DEF Move
  <2> QED
    BY <1>1, <2>1, <2>2, MonitorTypesKept DEF MonitorInv
<1> QED
  BY <1>2, <1>3

(* A set whose members are all equal has one member or none.               *)
LEMMA AtMostOne ==
  ASSUME NEW S, \A x, y \in S : x = y
  PROVE  /\ Cardinality(S) = 0 \/ Cardinality(S) = 1
         /\ Cardinality(S) = 0 <=> \A x \in S : FALSE
<1>1. CASE \A x \in S : FALSE
  <2>1. S = {}
    BY <1>1
  <2> QED
    BY <1>1, <2>1, FS_EmptySet
<1>2. ASSUME NEW x \in S
      PROVE  Cardinality(S) = 1
  <2>1. S = {x}
    OBVIOUS
  <2> QED
    BY <2>1, FS_Singleton
<1> QED
  BY <1>1, <1>2, SMTT(20)

(* Who has been signalled, in the words of the invariant.                  *)
LEMMA SignalledIs ==
  ASSUME NEW t \in Threads
  PROVE  /\ t \in Signalled <=> InWait(t) /\ Waiter[t] \notin Range(waitQueue)
         /\ t \in Signalled' <=> InWait(t)' /\ Waiter[t] \notin Range(waitQueue')
  BY DEF Signalled, InWait, Range

(* The invariant gives what the lock and the condition variable promise.   *)
LEMMA MonitorInvSafe == IInv /\ MonitorInv => MonitorSafe
<1> SUFFICES ASSUME IInv, MonitorInv PROVE MonitorSafe
  BY SMTT(20)
<1>1. LockSafe
  <2>1. \A t \in Inside : t \in Threads
    BY DEF Inside
  <2>2. \A t, u \in Inside : t = u
    BY DEF MonitorInv, HolderInv
  <2>3. /\ Cardinality(Inside) = 0 \/ Cardinality(Inside) = 1
        /\ Cardinality(Inside) = 0 <=> \A x \in Inside : FALSE
    BY <2>2, AtMostOne
  <2>4. /\ value[LockSem] = 0 \/ value[LockSem] = 1
        /\ value[LockSem] = 1 <=> \A x \in Inside : FALSE
    BY <2>1 DEF MonitorInv, HolderInv
  <2>5. Cardinality(Inside) + value[LockSem] = 1
    BY <2>3, <2>4, SMTT(20)
  <2> QED
    BY <2>5 DEF LockSafe, MonitorInv, HolderInv
<1>2. ASSUME NEW i \in DOMAIN waitQueue
      PROVE  \E t \in Threads : /\ waitQueue[i] = Waiter[t]
                                /\ \/ at[t] = "waitRelease"
                                   \/ at[t] = "wait" /\ waitingOn[t] = Waiter[t]
  <2>1. waitQueue[i] \in Range(waitQueue)
    BY DEF Range
  <2>2. PICK t \in Threads : waitQueue[i] = Waiter[t] /\ InWait(t)
    BY <2>1 DEF MonitorInv, QueueInv
  <2>3. at[t] = "wait" /\ waitingOn[t] # NULL => waitingOn[t] = Waiter[t]
    BY SMTT(20) DEF MonitorInv, Parked
  <2> QED
    BY <2>2, <2>3 DEF InWait
<1>3. ASSUME NEW t \in Threads
      PROVE  /\ value[Waiter[t]] = IF t \in Signalled THEN 1 ELSE 0
             /\ at[t] \notin {"waitRelease", "wait"} => queue[Waiter[t]] = <<>>
  <2>1. value[Waiter[t]] = IF t \in Signalled THEN 1 ELSE 0
    BY SignalledIs DEF MonitorInv, QueueInv
  <2>2. ASSUME at[t] # "wait"
        PROVE  queue[Waiter[t]] = <<>>
    <3>1. queue[Waiter[t]] \in Seq(Threads)
      BY MonitorConstants DEF IInv, KernelTypeOK
    <3>2. Range(queue[Waiter[t]]) \subseteq Threads
      BY <3>1, SMTT(20) DEF Range
    <3>3. \A u \in Threads : u \notin Range(queue[Waiter[t]])
      <4> SUFFICES ASSUME NEW u \in Threads, waitingOn[u] = Waiter[t]
                   PROVE  FALSE
        BY MonitorConstants DEF IInv, SchedulerInv
      <4>1. at[u] = "wait" /\ Waiter[u] = Waiter[t]
        BY MonitorConstants DEF MonitorInv, Parked
      <4> QED
        BY <2>2, <4>1, MonitorConstants
    <3>4. Range(queue[Waiter[t]]) = {}
      BY <3>2, <3>3
    <3> QED
      BY <3>1, <3>4, EmptyRange
  <2> QED
    BY <2>1, <2>2
<1>4. WaiterSafe
  BY <1>2, <1>3 DEF WaiterSafe, MonitorInv, QueueInv
<1> QED
  BY <1>1, <1>4 DEF MonitorSafe

(* A lock has one holder, the one lockHolder names, and a condition        *)
(* variable loses no signal and gives none to the wrong waiter             *)
(* (threads/synch.cc), whichever client uses the two.                      *)
THEOREM MonitorCorrect == Spec => []MonitorSafe
<1>1. Init => IInv /\ MonitorInv
  BY MonitorStart
<1>2. IInv /\ MonitorInv /\ [Next]_vars => (IInv /\ MonitorInv)'
  BY MonitorInvStep
<1>3. IInv /\ MonitorInv => MonitorSafe
  BY MonitorInvSafe, SMTT(20)
<1> QED
  BY <1>1, <1>2, <1>3, PTL DEF Spec

-----------------------------------------------------------------------------
(***************************************************************************)
(* The synchronized list.                                                  *)
(***************************************************************************)
(* A thread moves to another place or another operation that fit.          *)
LEMMA OperationMove ==
  ASSUME OperationInv, ~ general, UNCHANGED general, ListTypeOK',
         at \in [Threads -> Ats], NEW t \in Threads,
         at' = at \/ \E where : at' = [at EXCEPT ![t] = where],
         op' = op \/ \E o : op' = [op EXCEPT ![t] = o],
         /\ at'[t] # "broadcast"
         /\ at'[t] = "out" <=> op'[t] = "none"
         /\ at'[t] \in {"waitRelease", "wait", "reacquire"} => op'[t] = "remove"
  PROVE  OperationInv'
<1>1. op \in [Threads -> Ops]
  BY DEF OperationInv, ListTypeOK
<1>2. \A u \in Threads : u # t => at'[u] = at[u] /\ op'[u] = op[u]
  BY <1>1
<1> QED
  BY <1>2 DEF OperationInv

(* The types of the list's variables are kept.                             *)
LEMMA ListTypesKept ==
  ASSUME OperationInv, NEW t \in Threads, ListCalls(t)
  PROVE  ListTypeOK'
<1>1. /\ list \in Seq(Items) /\ op \in [Threads -> Ops]
      /\ got \in Items \cup {NoItem}
  BY DEF OperationInv, ListTypeOK
<1>2. \A i \in Items : Append(list, i) \in Seq(Items)
  BY <1>1, AppendLemma
<1>3. list # <<>> => Tail(list) \in Seq(Items) /\ Head(list) \in Items
  BY <1>1, HeadTailLemma
<1>4. list' \in Seq(Items) /\ got' \in Items \cup {NoItem}
  BY <1>1, <1>2, <1>3
     DEF ListCalls, Call, AppendItem, Return, WaitForItem, TakeItem, Outside, clientVars
<1>5. op' = op \/ \E o \in Ops : op' = [op EXCEPT ![t] = o]
  <2>1. /\ "none" \in Ops /\ "append" \in Ops /\ "appended" \in Ops /\ "remove" \in Ops
        /\ "apply" \in Ops
    BY DEF Ops
  <2> QED
    BY <2>1
       DEF ListCalls, Call, AppendItem, Return, WaitForItem, TakeItem, Outside, SetOp,
           clientVars
<1>6. op' \in [Threads -> Ops]
  BY <1>1, <1>5
<1> QED
  BY <1>4, <1>6 DEF ListTypeOK

(* What each operation of the list does to the place and the operation of  *)
(* the thread that executes it.                                            *)
LEMMA OperationStep ==
  ASSUME IInv, MonitorInv, OperationInv, [Next]_vars
  PROVE  OperationInv'
<1> USE MonitorTypes
<1>1. CASE UNCHANGED vars
  BY <1>1 DEF vars, monitorVars, clientVars, OperationInv, ListTypeOK
<1>2. ASSUME NEW t \in Threads, UNCHANGED <<clientVars, general>>,
             general \/ MonitorStep(t)
      PROVE  OperationInv'
  <2>1. UNCHANGED <<list, op, got, general>>
    BY <1>2 DEF clientVars
  <2>2. ListTypeOK'
    BY <2>1 DEF OperationInv, ListTypeOK
  <2>3. CASE general
    BY <2>1, <2>2, <2>3 DEF OperationInv
  <2>4. CASE ~ general
    <3>1. CASE Acquired(t)
      <4>1. /\ at[t] \in {"acquire", "reacquire"} /\ at' = [at EXCEPT ![t] = "in"]
            /\ at'[t] = "in"
        BY <3>1 DEF Acquired, MoveTo
      <4>2. op[t] # "none" /\ at'[t] # "broadcast" /\ at'[t] # "out"
            /\ at'[t] \notin {"waitRelease", "wait", "reacquire"}
        BY <2>4, <4>1, SMTT(20) DEF OperationInv
      <4> QED
        BY <2>1, <2>2, <2>4, <4>1, <4>2, OperationMove
    <3>2. CASE WaitForSignal(t)
      <4>1. /\ at[t] = "waitRelease" /\ at' = [at EXCEPT ![t] = "wait"] /\ at'[t] = "wait"
        BY <3>2 DEF WaitForSignal, MoveTo
      <4>2. op[t] = "remove"
        BY <2>4, <4>1 DEF OperationInv
      <4>3. at'[t] # "broadcast" /\ at'[t] # "out" /\ op'[t] = "remove" /\ op'[t] # "none"
        BY <2>1, <4>1, <4>2, SMTT(20)
      <4> QED
        BY <2>1, <2>2, <2>4, <4>1, <4>3, OperationMove
    <3>3. CASE Reacquire(t)
      <4>1. /\ at[t] = "wait" /\ at' = [at EXCEPT ![t] = "reacquire"]
            /\ at'[t] = "reacquire"
        BY <3>3 DEF Reacquire, MoveTo
      <4>2. op[t] = "remove"
        BY <2>4, <4>1 DEF OperationInv
      <4>3. at'[t] # "broadcast" /\ at'[t] # "out" /\ op'[t] = "remove" /\ op'[t] # "none"
        BY <2>1, <4>1, <4>2, SMTT(20)
      <4> QED
        BY <2>1, <2>2, <2>4, <4>1, <4>3, OperationMove
    <3>4. CASE UNCHANGED monitorVars
      BY <2>1, <2>2, <3>4 DEF monitorVars, OperationInv
    <3> QED
      BY <1>2, <2>4, <3>1, <3>2, <3>3, <3>4 DEF MonitorStep
  <2> QED
    BY <2>3, <2>4
<1>3. ASSUME NEW t \in Threads, ~ general, UNCHANGED general, ListCalls(t)
      PROVE  OperationInv'
  <2>1. ListTypeOK'
    BY <1>3, ListTypesKept
  <2>2. op \in [Threads -> Ops]
    BY DEF OperationInv, ListTypeOK
  <2>3. ASSUME NEW o \in {"append", "remove", "apply"}, Call(t, o)
        PROVE  OperationInv'
    <3>1. /\ at' = [at EXCEPT ![t] = "acquire"] /\ at'[t] = "acquire"
          /\ op' = [op EXCEPT ![t] = o] /\ op'[t] = o
      BY <2>2, <2>3 DEF Call, Acquire, MoveTo, SetOp
    <3>2. /\ at'[t] # "broadcast" /\ at'[t] # "out" /\ op'[t] # "none"
          /\ at'[t] \notin {"waitRelease", "wait", "reacquire"}
      BY <3>1, SMTT(20)
    <3> QED
      BY <1>3, <2>1, <3>1, <3>2, OperationMove
  <2>4. ASSUME NEW i \in Items, AppendItem(t, i)
        PROVE  OperationInv'
    <3>1. /\ at' = at /\ at'[t] = "in"
          /\ op' = [op EXCEPT ![t] = "appended"] /\ op'[t] = "appended"
      BY <2>2, <2>4 DEF AppendItem, Signal, SetOp, monitorVars
    <3>2. /\ at'[t] # "broadcast" /\ at'[t] # "out" /\ op'[t] # "none"
          /\ at'[t] \notin {"waitRelease", "wait", "reacquire"}
      BY <3>1, SMTT(20)
    <3> QED
      BY <1>3, <2>1, <3>1, <3>2, OperationMove
  <2>5. CASE Return(t) \/ TakeItem(t)
    <3>1. /\ at' = [at EXCEPT ![t] = "out"] /\ at'[t] = "out"
          /\ op' = [op EXCEPT ![t] = "none"] /\ op'[t] = "none"
      BY <2>2, <2>5 DEF Return, TakeItem, Release, MoveTo, SetOp
    <3>2. /\ at'[t] # "broadcast"
          /\ at'[t] \notin {"waitRelease", "wait", "reacquire"}
      BY <3>1, SMTT(20)
    <3> QED
      BY <1>3, <2>1, <3>1, <3>2, OperationMove
  <2>6. CASE WaitForItem(t)
    <3>1. /\ at' = [at EXCEPT ![t] = "waitRelease"] /\ at'[t] = "waitRelease"
          /\ op' = op /\ op'[t] = "remove"
      BY <2>2, <2>6 DEF WaitForItem, Wait, Release, MoveTo, clientVars
    <3>2. at'[t] # "broadcast" /\ at'[t] # "out" /\ op'[t] # "none"
      BY <3>1, SMTT(20)
    <3> QED
      BY <1>3, <2>1, <3>1, <3>2, OperationMove
  <2>7. CASE Outside(t)
    BY <1>3, <2>1, <2>7 DEF Outside, monitorVars, clientVars, OperationInv
  <2> QED
    BY <1>3, <2>3, <2>4, <2>5, <2>6, <2>7 DEF ListCalls
<1> QED
  BY <1>1, <1>2, <1>3 DEF Next

(* What a thread is in Takers for.                                         *)
LEMMA TakersIs ==
  ASSUME NEW t \in Threads
  PROVE  t \in Takers <=>
           \/ InWait(t) /\ Waiter[t] \notin Range(waitQueue)
           \/ /\ op[t] = "remove"
              /\ \/ at[t] \in {"reacquire", "in"}
                 \/ at[t] = "wait" /\ waitingOn[t] = NULL
  BY SignalledIs DEF Takers

(* Takers is a finite set of threads.                                      *)
LEMMA TakersFinite ==
  /\ Takers \subseteq Threads /\ IsFiniteSet(Takers) /\ Cardinality(Takers) \in Nat
  /\ Takers' \subseteq Threads /\ IsFiniteSet(Takers') /\ Cardinality(Takers') \in Nat
<1>1. Takers \subseteq Threads /\ Takers' \subseteq Threads
  BY DEF Takers, Signalled
<1>2. IsFiniteSet(Threads)
  BY KernelAssumption
<1> QED
  BY <1>1, <1>2, FS_Subset, FS_CardinalityType

(* A step that adds no item and takes nobody out of Takers.                *)
LEMMA TakersGrow ==
  ASSUME NoItemStranded, UNCHANGED <<list, waitQueue>>,
         \A u \in Threads : u \in Takers => u \in Takers',
         OperationInv
  PROVE  NoItemStranded'
<1>1. Takers \subseteq Takers'
  BY TakersFinite
<1>2. Cardinality(Takers) <= Cardinality(Takers')
  BY <1>1, TakersFinite, FS_Subset
<1>3. Len(list) \in Nat
  BY SMTT(20) DEF OperationInv, ListTypeOK
<1> QED
  BY <1>2, <1>3, TakersFinite, SMTT(30) DEF NoItemStranded

(* SynchList::Append: when somebody waits, one of them is signalled.       *)
LEMMA AppendStranded ==
  ASSUME IInv, MonitorInv, OperationInv, ~ general, NoItemStranded,
         NEW t \in Threads, NEW i \in Items, AppendItem(t, i)
  PROVE  NoItemStranded'
<1>1. CASE waitQueue = <<>>
  <2>1. waitQueue' = <<>>
    BY <1>1 DEF AppendItem, monitorVars
  <2> QED
    BY <2>1 DEF NoItemStranded
<1>2. CASE waitQueue # <<>>
  <2>1. /\ at[t] = "in" /\ op[t] = "append" /\ list' = Append(list, i)
        /\ waitQueue' = Tail(waitQueue) /\ op' = [op EXCEPT ![t] = "appended"]
        /\ UNCHANGED <<at, waitingOn>>
    BY <1>2 DEF AppendItem, Signal, WakeFirst, V, SetOp
  <2>2. /\ Range(waitQueue) = Range(waitQueue') \cup {Head(waitQueue)}
        /\ Head(waitQueue) \notin Range(waitQueue')
    <3>1. waitQueue \in Seq(Semaphores) /\ IsInjective(waitQueue)
      BY MonitorTypes DEF MonitorInv, QueueInv
    <3> QED
      BY <1>2, <2>1, <3>1, HeadTailLemma
  <2>3. PICK w \in Threads : Head(waitQueue) = Waiter[w] /\ InWait(w)
    <3>1. Head(waitQueue) \in Range(waitQueue)
      BY <2>2
    <3> QED
      BY <3>1 DEF MonitorInv, QueueInv
  <2>4. \A u \in Threads : InWait(u)' <=> InWait(u)
    BY <2>1 DEF InWait
  <2>5. \A u \in Threads : u # t => op'[u] = op[u]
    BY <2>1 DEF OperationInv, ListTypeOK
  <2>6. t \notin Takers
    BY <2>1, TakersIs, SMTT(20) DEF InWait
  <2>7. w \notin Takers /\ w \in Takers'
    <3>1. at[w] \notin {"reacquire", "in"} /\ ~ (at[w] = "wait" /\ waitingOn[w] = NULL)
      BY <2>3, SMTT(20) DEF InWait
    <3>2. w \notin Takers
      <4>1. Waiter[w] \in Range(waitQueue)
        BY <2>2, <2>3
      <4> QED
        BY <3>1, <4>1, TakersIs
    <3>3. w \in Signalled'
      BY <2>2, <2>3, <2>4, SignalledIs
    <3> QED
      BY <3>2, <3>3 DEF Takers
  <2>8. \A u \in Threads : u \in Takers => u \in Takers'
    <3> SUFFICES ASSUME NEW u \in Threads, u \in Takers PROVE u \in Takers'
      BY SMTT(20)
    <3>1. u # t /\ op'[u] = op[u]
      BY <2>5, <2>6
    <3>2. CASE u \in Signalled
      <4>1. u \in Signalled'
        BY <2>2, <2>4, <3>2, SignalledIs
      <4> QED
        BY <4>1 DEF Takers
    <3>3. CASE u \notin Signalled
      BY <2>1, <3>1, <3>3 DEF Takers
    <3> QED
      BY <3>2, <3>3
  <2>9. Cardinality(Takers) + 1 <= Cardinality(Takers')
    <3>1. Takers \cup {w} \subseteq Takers'
      BY <2>7, <2>8, TakersFinite
    <3>2. Cardinality(Takers \cup {w}) = Cardinality(Takers) + 1
      BY <2>7, TakersFinite, FS_AddElement
    <3> QED
      BY <3>1, <3>2, TakersFinite, FS_Subset, SMTT(30)
  <2>10. Len(list) \in Nat /\ Len(list') = Len(list) + 1
    BY <2>1, SMTT(20) DEF OperationInv, ListTypeOK
  <2> QED
    BY <1>2, <2>9, <2>10, TakersFinite, SMTT(30) DEF NoItemStranded
<1> QED
  BY <1>1, <1>2

(* SynchList::RemoveFront with an item: it is taken by one of Takers.      *)
LEMMA TakeStranded ==
  ASSUME IInv, MonitorInv, OperationInv, NoItemStranded,
         NEW t \in Threads, TakeItem(t)
  PROVE  NoItemStranded'
<1>1. /\ at[t] = "in" /\ op[t] = "remove" /\ list # <<>> /\ list' = Tail(list)
      /\ op' = [op EXCEPT ![t] = "none"] /\ at' = [at EXCEPT ![t] = "out"]
      /\ UNCHANGED <<waitQueue, waitingOn>>
  BY DEF TakeItem, Release, LockRelease, V, MoveTo, SetOp
<1>2. \A u \in Threads : u # t => op'[u] = op[u] /\ at'[u] = at[u]
  BY <1>1, MonitorTypes DEF OperationInv, ListTypeOK
<1>3. t \in Takers
  BY <1>1 DEF Takers
<1>4. Takers \ {t} \subseteq Takers'
  BY <1>1, <1>2 DEF Takers, Signalled
<1>5. Cardinality(Takers) - 1 <= Cardinality(Takers')
  <2>1. IsFiniteSet(Takers \ {t}) /\ Cardinality(Takers \ {t}) = Cardinality(Takers) - 1
    BY <1>3, TakersFinite, FS_RemoveElement
  <2> QED
    BY <1>4, <2>1, TakersFinite, FS_Subset, SMTT(30)
<1>6. Len(list) \in Nat /\ Len(list') = Len(list) - 1
  BY <1>1, SMTT(20) DEF OperationInv, ListTypeOK
<1> QED
  BY <1>1, <1>5, <1>6, TakersFinite, SMTT(30) DEF NoItemStranded

(* Every other step leaves the items alone and Takers in place.            *)
LEMMA OtherStranded ==
  ASSUME IInv, MonitorInv, OperationInv, ~ general, NoItemStranded,
         NEW t \in Threads,
         \/ \E o \in {"append", "remove", "apply"} : Call(t, o)
         \/ Return(t) \/ Outside(t)
         \/ MonitorStep(t) /\ UNCHANGED clientVars
  PROVE  NoItemStranded'
<1> USE MonitorTypes
<1>1. op \in [Threads -> Ops]
  BY DEF OperationInv, ListTypeOK
<1>2. ASSUME NEW o \in {"append", "remove", "apply"}, Call(t, o)
      PROVE  NoItemStranded'
  <2>1. /\ op[t] = "none" /\ at[t] = "out"
        /\ op' = [op EXCEPT ![t] = o] /\ at' = [at EXCEPT ![t] = "acquire"]
        /\ waitingOn' = [waitingOn EXCEPT ![t] = LockSem]
        /\ UNCHANGED <<list, waitQueue>>
    BY <1>2 DEF Call, Acquire, LockAcquire, P, MoveTo, SetOp
  <2>2. \A u \in Threads :
          u # t => op'[u] = op[u] /\ at'[u] = at[u] /\ waitingOn'[u] = waitingOn[u]
    BY <1>1, <2>1
  <2>3. t \notin Takers
    BY <2>1, SMTT(20) DEF Takers, Signalled
  <2>4. \A u \in Threads : u \in Takers => u \in Takers'
    BY <2>1, <2>2, <2>3 DEF Takers, Signalled
  <2> QED
    BY <2>1, <2>4, TakersGrow
<1>3. CASE Return(t)
  <2>1. /\ op[t] \in {"appended", "apply"} /\ at[t] = "in"
        /\ op' = [op EXCEPT ![t] = "none"] /\ at' = [at EXCEPT ![t] = "out"]
        /\ UNCHANGED <<list, waitQueue, waitingOn>>
    BY <1>3 DEF Return, Release, LockRelease, V, MoveTo, SetOp
  <2>2. \A u \in Threads : u # t => op'[u] = op[u] /\ at'[u] = at[u]
    BY <1>1, <2>1
  <2>3. t \notin Takers
    BY <2>1, SMTT(20) DEF Takers, Signalled
  <2>4. \A u \in Threads : u \in Takers => u \in Takers'
    BY <2>1, <2>2, <2>3 DEF Takers, Signalled
  <2> QED
    BY <2>1, <2>4, TakersGrow
<1>4. CASE Outside(t)
  <2>1. UNCHANGED <<list, op, at, waitQueue, waitingOn>>
    BY <1>4 DEF Outside, NewThread, Fork, Yield, monitorVars, clientVars
  <2>2. Takers' = Takers
    BY <2>1 DEF Takers, Signalled
  <2> QED
    BY <2>1, <2>2, TakersGrow
<1>5. ASSUME MonitorStep(t), UNCHANGED clientVars
      PROVE  NoItemStranded'
  <2>1. UNCHANGED <<list, op, waitQueue>>
    BY <1>5
       DEF MonitorStep, Acquired, WaitForSignal, Reacquire, monitorVars, clientVars
  <2>2. \A u \in Threads : u # t => at'[u] = at[u] /\ waitingOn'[u] = waitingOn[u]
    <3>1. CASE KernelStep(t) /\ UNCHANGED monitorVars
      BY <3>1, KernelStepEffect DEF monitorVars
    <3>2. CASE ~ KernelStep(t)
      BY <1>5, <3>2
         DEF MonitorStep, Acquired, WaitForSignal, Reacquire, LockAcquire, P, MoveTo,
             kernelVars
    <3> QED
      BY <1>5, <3>1, <3>2
           DEF MonitorStep, Acquired, WaitForSignal, Reacquire, LockAcquire, P, MoveTo,
               kernelVars
  <2>3. t \in Takers => t \in Takers'
    <3> SUFFICES ASSUME t \in Takers PROVE t \in Takers'
      BY SMTT(20)
    <3>1. CASE Acquired(t)
      <4>1. /\ at[t] \in {"acquire", "reacquire"} /\ at' = [at EXCEPT ![t] = "in"]
            /\ at'[t] = "in"
        BY <3>1 DEF Acquired, MoveTo
      <4>2. op[t] = "remove"
        BY <4>1, SMTT(20) DEF Takers, Signalled
      <4> QED
        BY <2>1, <4>1, <4>2 DEF Takers
    <3>2. CASE WaitForSignal(t)
      <4>1. /\ at[t] = "waitRelease" /\ at'[t] = "wait"
            /\ waitingOn'[t] = Waiter[t] /\ Waiter[t] # NULL
        BY <3>2, MonitorConstants DEF WaitForSignal, P, MoveTo
      <4>2. t \in Signalled
        BY <4>1, SMTT(20) DEF Takers, Signalled
      <4>3. t \in Signalled'
        BY <2>1, <4>1, <4>2 DEF Signalled
      <4> QED
        BY <4>3 DEF Takers
    <3>3. CASE Reacquire(t)
      <4>1. at[t] = "wait" /\ at'[t] = "reacquire"
        BY <3>3 DEF Reacquire, MoveTo
      <4>2. op[t] = "remove"
        BY <4>1 DEF OperationInv
      <4> QED
        BY <2>1, <4>1, <4>2 DEF Takers
    <3>4. CASE KernelStep(t) /\ UNCHANGED monitorVars
      <4>1. waitingOn'[t] = waitingOn[t] \/ waitingOn'[t] = NULL
        BY <3>4, KernelStepEffect
      <4>2. UNCHANGED at
        BY <3>4 DEF monitorVars
      <4>3. at[t] = "wait" => op[t] = "remove"
        BY DEF OperationInv
      <4> QED
        BY <2>1, <4>1, <4>2, <4>3 DEF Takers, Signalled
    <3> QED
      BY <1>5, <3>1, <3>2, <3>3, <3>4 DEF MonitorStep
  <2>4. \A u \in Threads : u \in Takers => u \in Takers'
    <3> SUFFICES ASSUME NEW u \in Threads, u # t, u \in Takers PROVE u \in Takers'
      BY <2>3
    <3>1. at'[u] = at[u] /\ waitingOn'[u] = waitingOn[u]
      BY <2>2
    <3> QED
      BY <2>1, <3>1 DEF Takers, Signalled
  <2> QED
    BY <2>1, <2>4, TakersGrow
<1> QED
  BY <1>2, <1>3, <1>4, <1>5

(* No step strands an item.                                                *)
LEMMA StrandedStep ==
  ASSUME IInv, MonitorInv, OperationInv, OperationInv', NoItemStranded, [Next]_vars
  PROVE  NoItemStranded'
<1>1. ASSUME list' = <<>>
      PROVE  NoItemStranded'
  <2>1. Len(list') = 0
    BY <1>1, SMTT(20)
  <2> QED
    BY <2>1, TakersFinite, SMTT(20) DEF NoItemStranded
<1>2. CASE UNCHANGED vars
  <2>1. UNCHANGED <<list, op, at, waitQueue, waitingOn>>
    BY <1>2 DEF vars, kernelVars, monitorVars, clientVars
  <2>2. Takers' = Takers
    BY <2>1 DEF Takers, Signalled
  <2> QED
    BY <2>1, <2>2, TakersGrow
<1>3. CASE Next /\ general
  <2>1. UNCHANGED list /\ list = <<>>
    BY <1>3 DEF Next, clientVars, OperationInv
  <2> QED
    BY <1>1, <2>1
<1>4. CASE Next /\ ~ general
  <2>1. PICK t \in Threads : ListCalls(t) \/ (MonitorStep(t) /\ UNCHANGED clientVars)
    BY <1>4 DEF Next
  <2>2. CASE WaitForItem(t)
    BY <1>1, <2>2 DEF WaitForItem, clientVars
  <2> QED
    BY <1>4, <2>1, <2>2, AppendStranded, TakeStranded, OtherStranded
       DEF ListCalls
<1> QED
  BY <1>2, <1>3, <1>4

(* While a thread waits for an item, every item in the list has a thread   *)
(* on its way to test the list (SynchList::Append, RemoveFront).           *)
THEOREM ListCorrect == Spec => []NoItemStranded
<1> DEFINE Inv == IInv /\ MonitorInv /\ OperationInv /\ NoItemStranded
<1>1. Init => Inv
  <2>1. Init => NoItemStranded
    BY DEF Init, MonitorInit, NoItemStranded
  <2> QED
    BY <2>1, MonitorStart
<1>2. Inv /\ [Next]_vars => Inv'
  BY MonitorInvStep, OperationStep, StrandedStep
<1>3. Inv => NoItemStranded
  BY SMTT(20)
<1> QED
  BY <1>1, <1>2, <1>3, PTL DEF Spec

-----------------------------------------------------------------------------
(***************************************************************************)
(* The synchronized list implements the list of BlockingList.tla: the      *)
(* initial states map to an initial state, and every step to a Put, a Call *)
(* or a Take, or to no step at all.  The callers in RemoveFront are those  *)
(* whose operation is "remove".                                            *)
(***************************************************************************)
Removing == {t \in Threads : op[t] = "remove"}

(* SynchList::SynchList makes an empty list.                               *)
LEMMA BlockingStart == Init => Blocking!Init
<1> SUFFICES ASSUME Init PROVE Blocking!Init
  BY SMTT(20)
<1>1. list = <<>> /\ got = NoItem /\ \A t \in Threads : op[t] = "none"
  BY DEF Init, ListInit
<1>2. {t \in Threads : op[t] = "remove"} = {}
  BY <1>1, SMTT(20)
<1> QED
  BY <1>1, <1>2 DEF Blocking!Init

(* Every step of the synchronized list is one of the abstract list's.      *)
LEMMA BlockingStep ==
  OperationInv /\ [Next]_vars => [Blocking!Next]_(Blocking!listVars)
<1> SUFFICES ASSUME OperationInv, [Next]_vars
             PROVE  [Blocking!Next]_(Blocking!listVars)
  BY SMTT(20)
<1>1. op \in [Threads -> Ops]
  BY DEF OperationInv, ListTypeOK
<1>2. ASSUME UNCHANGED <<list, got>>, Removing' = Removing
      PROVE  UNCHANGED Blocking!listVars
  BY <1>2 DEF Blocking!listVars, Removing
<1>3. CASE UNCHANGED vars
  <2>1. UNCHANGED <<list, op, got>>
    BY <1>3 DEF vars, clientVars
  <2> QED
    BY <1>2, <2>1 DEF Removing
<1>4. ASSUME NEW t \in Threads,
             \/ general /\ GeneralCalls(t) /\ UNCHANGED clientVars
             \/ ~ general /\ ListCalls(t)
             \/ MonitorStep(t) /\ UNCHANGED clientVars
      PROVE  Blocking!Next \/ UNCHANGED Blocking!listVars
  <2>1. CASE UNCHANGED clientVars
    BY <1>2, <2>1 DEF clientVars, Removing
  <2>2. CASE Call(t, "remove")
    <3>1. op[t] = "none" /\ op' = [op EXCEPT ![t] = "remove"] /\ UNCHANGED <<list, got>>
      BY <2>2 DEF Call, SetOp
    <3>2. t \notin Removing /\ Removing' = Removing \cup {t}
      BY <1>1, <3>1, SMTT(20) DEF Removing
    <3> QED
      BY <3>1, <3>2 DEF Blocking!Next, Blocking!Call, Removing
  <2>3. ASSUME NEW o \in {"append", "apply"}, Call(t, o)
        PROVE  UNCHANGED Blocking!listVars
    <3>1. op[t] = "none" /\ op' = [op EXCEPT ![t] = o] /\ UNCHANGED <<list, got>>
      BY <2>3 DEF Call, SetOp
    <3>2. Removing' = Removing
      BY <1>1, <3>1, SMTT(20) DEF Removing
    <3> QED
      BY <1>2, <3>1, <3>2
  <2>4. ASSUME NEW i \in Items, AppendItem(t, i)
        PROVE  Blocking!Next
    <3>1. /\ op[t] = "append" /\ op' = [op EXCEPT ![t] = "appended"]
          /\ list' = Append(list, i) /\ UNCHANGED got
      BY <2>4 DEF AppendItem, SetOp
    <3>2. Removing' = Removing
      BY <1>1, <3>1, SMTT(20) DEF Removing
    <3> QED
      BY <3>1, <3>2 DEF Blocking!Next, Blocking!Put, Removing
  <2>5. CASE Return(t)
    <3>1. /\ op[t] \in {"appended", "apply"} /\ op' = [op EXCEPT ![t] = "none"]
          /\ UNCHANGED <<list, got>>
      BY <2>5 DEF Return, SetOp
    <3>2. Removing' = Removing
      BY <1>1, <3>1, SMTT(20) DEF Removing
    <3> QED
      BY <1>2, <3>1, <3>2
  <2>6. CASE TakeItem(t)
    <3>1. /\ op[t] = "remove" /\ op' = [op EXCEPT ![t] = "none"]
          /\ list # <<>> /\ got' = Head(list) /\ list' = Tail(list)
      BY <2>6 DEF TakeItem, SetOp
    <3>2. t \in Removing /\ Removing' = Removing \ {t}
      BY <1>1, <3>1, SMTT(20) DEF Removing
    <3> QED
      BY <3>1, <3>2 DEF Blocking!Next, Blocking!Take, Removing
  <2> QED
    BY <1>4, <2>1, <2>2, <2>3, <2>4, <2>5, <2>6
       DEF ListCalls, WaitForItem, Outside
<1> QED
  BY <1>3, <1>4 DEF Next

(* The synchronized list implements its abstract specification: Append and *)
(* RemoveFront are atomic operations on a first-in first-out list, and     *)
(* RemoveFront returns only with an item (threads/synchlist.cc).           *)
THEOREM ListImplements == Spec => ListSpec
<1> DEFINE Inv == IInv /\ MonitorInv /\ OperationInv
<1>1. Init => Inv
  BY MonitorStart
<1>2. Inv /\ [Next]_vars => Inv'
  BY MonitorInvStep, OperationStep
<1>3. Init => Blocking!Init
  BY BlockingStart, SMTT(20)
<1>4. Inv /\ [Next]_vars => [Blocking!Next]_(Blocking!listVars)
  BY BlockingStep
<1> QED
  BY <1>1, <1>2, <1>3, <1>4, PTL DEF Spec, ListSpec, Blocking!Spec
=============================================================================

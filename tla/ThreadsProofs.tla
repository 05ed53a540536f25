--------------------------- MODULE ThreadsProofs ----------------------------
(***************************************************************************)
(* Proofs that the kernel of Threads.tla, with any number of threads,      *)
(* semaphores and devices, keeps its lists and its threads in order.       *)
(*                                                                         *)
(* The scheduler's invariant is not inductive by itself.  That Run finds a *)
(* thread it can resume needs the place where every thread has stopped     *)
(* (ControlInv); that ReadyToRun adds a thread to the ready list only once *)
(* needs that a queue holds only BLOCKED threads (SchedulerInv); and that  *)
(* the thread deleted is not the one that runs needs toBeDestroyed         *)
(* (DestroySafe).  IInv is the four together.  Each is preserved by every  *)
(* action; V and Yield, which several actions contain, have lemmas of      *)
(* their own for each of the four.                                         *)
(*                                                                         *)
(* The lemmas are about AnyStep, the step of any client of the kernel, so  *)
(* that the proofs of the modules built on the kernel can cite them.       *)
(***************************************************************************)
EXTENDS Threads, TLAPS

(* A step that names no prover is for Zenon.                               *)
USE ZenonT(40)

(***************************************************************************)
(* The lists of the kernel (lib/list.cc) seen as sequences without         *)
(* repetitions: what Append, RemoveFront and Front do to the set of        *)
(* elements.                                                               *)
(***************************************************************************)
(* List::Append adds one element, and keeps the list free of repetitions   *)
(* when the element was not in it (which the code asserts).                *)
LEMMA AppendLemma ==
  ASSUME NEW S, NEW q \in Seq(S), NEW e \in S
  PROVE  /\ Append(q, e) \in Seq(S)
         /\ Append(q, e) # <<>>
         /\ Range(Append(q, e)) = Range(q) \cup {e}
         /\ IsInjective(q) /\ e \notin Range(q) => IsInjective(Append(q, e))
<1> DEFINE r == Append(q, e)
<1>1. /\ r \in Seq(S) /\ r # <<>>
      /\ Len(r) = Len(q) + 1
      /\ \A i \in 1 .. Len(q) : r[i] = q[i]
      /\ r[Len(q) + 1] = e
      /\ DOMAIN r = 1 .. Len(q) + 1
  BY SMTT(20)
<1>2. DOMAIN q = 1 .. Len(q) /\ Len(q) \in Nat
  BY SMTT(20)
<1> HIDE DEF r
<1>3. \A x : x \in Range(r) <=> x \in Range(q) \/ x = e
  BY <1>1, <1>2, SMTT(20) DEF Range
<1>4. IsInjective(q) /\ e \notin Range(q) => IsInjective(r)
  BY <1>1, <1>2, SMTT(20) DEF Range, IsInjective
<1> QED
  BY <1>1, <1>3, <1>4 DEF r

(* List::RemoveFront takes the first element, and nothing else, out of a   *)
(* list without repetitions.                                               *)
LEMMA HeadTailLemma ==
  ASSUME NEW S, NEW q \in Seq(S), q # <<>>
  PROVE  /\ Head(q) \in S
         /\ Tail(q) \in Seq(S)
         /\ Range(q) = Range(Tail(q)) \cup {Head(q)}
         /\ IsInjective(q) =>
              IsInjective(Tail(q)) /\ Head(q) \notin Range(Tail(q))
<1> DEFINE r == Tail(q)
           h == Head(q)
<1>1. /\ h \in S /\ r \in Seq(S)
      /\ Len(r) = Len(q) - 1
      /\ \A i \in 1 .. Len(r) : r[i] = q[i + 1]
      /\ h = q[1]
      /\ DOMAIN r = 1 .. Len(r) /\ Len(r) \in Nat
  BY SMTT(20)
<1>2. DOMAIN q = 1 .. Len(q) /\ Len(q) \in Nat /\ Len(q) >= 1
  BY <1>1, SMTT(20)
<1> HIDE DEF r, h
<1>3. \A x : x \in Range(q) <=> x \in Range(r) \/ x = h
  <2>1. ASSUME NEW i \in DOMAIN q PROVE q[i] \in Range(r) \/ q[i] = h
    <3>1. CASE i = 1
      BY <1>1, <3>1
    <3>2. CASE i # 1
      <4>1. i - 1 \in DOMAIN r /\ r[i - 1] = q[i]
        BY <1>1, <1>2, <3>2, SMTT(20)
      <4> QED BY <4>1 DEF Range
    <3> QED BY <3>1, <3>2
  <2>2. ASSUME NEW i \in DOMAIN r PROVE r[i] \in Range(q)
    <3>1. i + 1 \in DOMAIN q /\ r[i] = q[i + 1]
      BY <1>1, <1>2, SMTT(20)
    <3> QED BY <3>1 DEF Range
  <2>3. h \in Range(q)
    BY <1>1, <1>2, SMTT(20) DEF Range
  <2> QED BY <2>1, <2>2, <2>3 DEF Range
<1>4. ASSUME IsInjective(q) PROVE IsInjective(r) /\ h \notin Range(r)
  <2>1. \A i \in DOMAIN r : i + 1 \in DOMAIN q /\ r[i] = q[i + 1]
    BY <1>1, <1>2, SMTT(20)
  <2>2. 1 \in DOMAIN q /\ \A i \in DOMAIN r : i + 1 # 1 /\ i \in Int
    BY <1>1, <1>2, SMTT(20)
  <2>3. IsInjective(r)
    BY <1>4, <2>1, <2>2, <1>1, SMTT(20) DEF IsInjective
  <2>4. h \notin Range(r)
    BY <1>4, <2>1, <2>2, <1>1, SMTT(20) DEF IsInjective, Range
  <2> QED BY <2>3, <2>4
<1> QED
  BY <1>1, <1>3, <1>4 DEF r, h

(* The empty list. *)
LEMMA EmptyLemma == Range(<<>>) = {} /\ IsInjective(<<>>)
  BY SMTT(20) DEF Range, IsInjective

(* A list is empty exactly when it has no elements. *)
LEMMA EmptyRange ==
  ASSUME NEW S, NEW q \in Seq(S)
  PROVE  q = <<>> <=> Range(q) = {}
  BY HeadTailLemma, EmptyLemma, SMTT(20)

-----------------------------------------------------------------------------
(***************************************************************************)
(* The lists and the threads.                                              *)
(***************************************************************************)
(* A call of the kernel that some client makes: KernelCalls without the    *)
(* bounds of the model.                                                    *)
AnyCall(t) ==
  \/ \E u \in Threads : NewThread(t, u)
  \/ \E u \in Threads : Fork(t, u)
  \/ Yield(t)
  \/ \E s \in Semaphores : P(t, s)
  \/ \E s \in Semaphores : V(t, s)
  \/ \E d \in Devices : StartIO(t, d)
  \/ Finish(t)
  \/ Execute(t)
  \/ OneInstruction(t)
  \/ RaiseException(t)
  \/ ReturnFromException(t)

AnyStep ==
  \E t \in Threads :
    \/ AnyCall(t)
    \/ KernelStep(t)
    \/ \E d \in Devices : DeviceInterrupt(t, d)

(* Every step of the most general client is one.                           *)
LEMMA NextIsAnyStep == [KernelNext]_kernelVars => [AnyStep]_kernelVars
  BY DEF KernelNext, KernelCalls, AnyStep, AnyCall
(* Semaphore::V, whoever calls it, keeps the types of the lists.           *)
LEMMA VBodyType ==
  ASSUME KernelTypeOK, NEW s \in Semaphores, VBody(s)
  PROVE  /\ status' \in [Threads -> Statuses] /\ readyList' \in Seq(Threads)
         /\ value' \in [Semaphores -> Nat] /\ queue' \in [Semaphores -> Seq(Threads)]
         /\ UNCHANGED <<currentThread, toBeDestroyed>>
<1>1. queue[s] \in Seq(Threads)
  BY DEF KernelTypeOK
<1>2. CASE queue[s] = <<>>
  BY <1>2, SMTT(20) DEF KernelTypeOK, VBody
<1>3. CASE queue[s] # <<>>
  <2>1. Head(queue[s]) \in Threads /\ Tail(queue[s]) \in Seq(Threads)
    BY <1>1, <1>3, HeadTailLemma
  <2>2. Append(readyList, Head(queue[s])) \in Seq(Threads)
    BY <2>1, AppendLemma DEF KernelTypeOK
  <2> DEFINE h == Head(queue[s])
             r == Tail(queue[s])
  <2>3. /\ queue' = [queue EXCEPT ![s] = r]
        /\ status' = [status EXCEPT ![h] = "READY"]
        /\ readyList' = Append(readyList, h)
        /\ value' = [value EXCEPT ![s] = value[s] + 1]
        /\ UNCHANGED <<currentThread, toBeDestroyed>>
    BY <1>3 DEF VBody
  <2> HIDE DEF h, r
  <2> QED
    BY <2>1, <2>2, <2>3, SMTT(20) DEF KernelTypeOK, Statuses, h, r
<1> QED
  BY <1>2, <1>3

(* Thread::SaveUserState keeps the types of the user registers.            *)
LEMMA SaveStateType ==
  ASSUME KernelTypeOK, NEW t \in Threads, SaveState(t)
  PROVE  /\ saved' \in [Threads -> Threads \cup {NULL}]
         /\ UNCHANGED <<space, loaded>>
  BY DEF KernelTypeOK, SaveState

(* Thread::Yield keeps the types of the lists.                             *)
LEMMA YieldBodyType ==
  ASSUME KernelTypeOK, NEW t \in Threads, NEW p \in Pcs, NEW q \in Pcs, YieldBody(t, p, q)
  PROVE  /\ currentThread' \in Threads
         /\ status' \in [Threads -> Statuses]
         /\ readyList' \in Seq(Threads)
         /\ pc' \in [Threads -> Pcs]
         /\ saved' \in [Threads -> Threads \cup {NULL}]
         /\ UNCHANGED <<toBeDestroyed, space, loaded>>
<1>1. CASE readyList = <<>>
  BY <1>1, ZenonT(60) DEF KernelTypeOK, YieldBody, Goto, schedVars, userVars
<1>2. CASE readyList # <<>>
  <2>1. Head(readyList) \in Threads /\ Tail(readyList) \in Seq(Threads)
    BY <1>2, HeadTailLemma DEF KernelTypeOK
  <2>2. Append(Tail(readyList), t) \in Seq(Threads)
    BY <2>1, AppendLemma
  <2>3. SaveState(t) /\ UNCHANGED toBeDestroyed
    BY <1>2 DEF YieldBody
  <2> QED
    BY <1>2, <2>1, <2>2, <2>3, SaveStateType, ZenonT(60)
      DEF KernelTypeOK, YieldBody, Goto, Statuses
<1> QED
  BY <1>1, <1>2

(* The inductive invariant of the scheduler. *)
IInv == KernelTypeOK /\ SchedulerInv /\ ControlInv /\ DestroySafe

(* Kernel::Initialize leaves every variable with its type.                 *)
LEMMA TypeInit ==
  ASSUME NEW polling \in SUBSET Devices, KernelStart(polling)
  PROVE  KernelTypeOK
<1> USE KernelAssumption DEF KernelTypeOK
<1>1. \A S : <<>> \in Seq(S)
  BY SMTT(20)
<1>2. queue \in [Semaphores -> Seq(Threads)] /\ readyList \in Seq(Threads)
  BY <1>1 DEF KernelStart
<1>3. /\ currentThread \in Threads
      /\ status \in [Threads -> Statuses]
      /\ pc \in [Threads -> Pcs]
      /\ waitingOn \in [Threads -> Semaphores \cup {NULL}]
      /\ value \in [Semaphores -> Nat]
  BY DEF KernelStart, Statuses, Pcs, InTick, SwitchedOut
<1> QED
  BY <1>2, <1>3, ZenonT(60) DEF KernelStart

(* Every step of the kernel keeps the types; that P leaves a natural       *)
(* number needs to know where the thread is (ControlInv).                  *)
LEMMA TypeStep == KernelTypeOK /\ ControlInv /\ [AnyStep]_kernelVars => KernelTypeOK'
<1> USE KernelAssumption DEF KernelTypeOK, Statuses, Pcs,
        SwitchedOut, InTick, Goto, schedVars, intVars, semVars, userVars
<1> SUFFICES ASSUME KernelTypeOK, ControlInv, [AnyStep]_kernelVars PROVE KernelTypeOK'
    OBVIOUS
<1>1. ASSUME NEW t \in Threads, NEW u \in Threads, NewThread(t, u)
     PROVE  KernelTypeOK'
  BY <1>1 DEF NewThread, At
<1>2. ASSUME NEW t \in Threads, NEW u \in Threads, Fork(t, u)
     PROVE  KernelTypeOK'
  BY <1>2, AppendLemma, ZenonT(60) DEF Fork
<1>3. ASSUME NEW t \in Threads, Yield(t)
     PROVE  KernelTypeOK'
  BY <1>3, YieldBodyType DEF Yield
<1>4. ASSUME NEW t \in Threads, NEW s \in Semaphores, P(t, s)
     PROVE  KernelTypeOK'
  BY <1>4 DEF P, At
<1>5. ASSUME NEW t \in Threads, NEW s \in Semaphores, V(t, s)
     PROVE  KernelTypeOK'
  BY <1>5, VBodyType DEF V, SetLevelOn
<1>6. ASSUME NEW t \in Threads, NEW d \in Devices, StartIO(t, d)
     PROVE  KernelTypeOK'
  BY <1>6 DEF StartIO, At
<1>7. ASSUME NEW t \in Threads, Finish(t)
     PROVE  KernelTypeOK'
  BY <1>7 DEF Finish, At
<1>8. ASSUME NEW t \in Threads, Execute(t)
     PROVE  KernelTypeOK'
  BY <1>8 DEF Execute, At
<1>9. ASSUME NEW t \in Threads, OneInstruction(t)
     PROVE  KernelTypeOK'
  BY <1>9 DEF OneInstruction, At
<1>10. ASSUME NEW t \in Threads, RaiseException(t)
     PROVE  KernelTypeOK'
  BY <1>10 DEF RaiseException, At
<1>11. ASSUME NEW t \in Threads, ReturnFromException(t)
     PROVE  KernelTypeOK'
  BY <1>11 DEF ReturnFromException, At
<1>12. ASSUME NEW t \in Threads, PTest(t)
     PROVE  KernelTypeOK'
  <2> DEFINE s == waitingOn[t]
               q == Append(queue[s], t)
  <2>1. s \in Semaphores /\ value[s] \in Nat /\ q \in Seq(Threads)
    BY <1>12, AppendLemma DEF ControlInv, Placed, PTest, At
  <2>2. UNCHANGED <<currentThread, readyList, toBeDestroyed, machineStatus,
                    yieldOnReturn, pending, oldStatus, userVars>>
    BY <1>12 DEF PTest
  <2>3. CASE value[s] > 0
    <3>1. /\ value' = [value EXCEPT ![s] = value[s] - 1]
          /\ waitingOn' = [waitingOn EXCEPT ![t] = NULL]
          /\ pc' = [pc EXCEPT ![t] = "tick"]
          /\ ret' = [ret EXCEPT ![t] = "body"]
          /\ level' = "IntOff"
          /\ UNCHANGED <<queue, status>>
      BY <1>12, <2>3, SMTT(20) DEF PTest, SetLevelOn
    <3> HIDE DEF s
    <3> QED
      BY <2>1, <2>2, <2>3, <3>1, SMTT(20)
  <2>4. CASE value[s] = 0
    <3>1. /\ queue' = [queue EXCEPT ![s] = q]
          /\ status' = [status EXCEPT ![t] = "BLOCKED"]
          /\ pc' = [pc EXCEPT ![t] = "sleep"]
          /\ UNCHANGED <<value, waitingOn, level, ret>>
      BY <1>12, <2>4, SMTT(20) DEF PTest
    <3> HIDE DEF s, q
    <3> QED
      BY <2>1, <2>2, <3>1
  <2> QED
    BY <2>1, <2>3, <2>4, SMTT(20)
<1>13. ASSUME NEW t \in Threads, SleepRun(t)
     PROVE  KernelTypeOK'
  BY <1>13, HeadTailLemma, SaveStateType, ZenonT(60) DEF SleepRun
<1>14. ASSUME NEW t \in Threads, EnterIdle(t)
     PROVE  KernelTypeOK'
  BY <1>14 DEF EnterIdle, At
<1>15. ASSUME NEW t \in Threads, LeaveIdle(t)
     PROVE  KernelTypeOK'
  BY <1>15 DEF LeaveIdle, At
<1>16. ASSUME NEW t \in Threads, NEW d \in Devices, DeviceInterrupt(t, d)
     PROVE  KernelTypeOK'
  BY <1>16, VBodyType DEF DeviceInterrupt
<1>17. ASSUME NEW t \in Threads, TimerInterrupt(t)
     PROVE  KernelTypeOK'
  BY <1>17 DEF TimerInterrupt
<1>18. ASSUME NEW t \in Threads, EndTick(t)
     PROVE  KernelTypeOK'
  BY <1>18 DEF EndTick, At
<1>19. ASSUME NEW t \in Threads, PreemptTick(t)
     PROVE  KernelTypeOK'
  BY <1>19, YieldBodyType, ZenonT(60) DEF PreemptTick
<1>20. ASSUME NEW t \in Threads, SwitchedIn(t)
     PROVE  KernelTypeOK'
  <2>1. PICK next \in Pcs :
          /\ toBeDestroyed = NULL =>
               pc' = [pc EXCEPT ![t] = next] /\ UNCHANGED status
          /\ toBeDestroyed # NULL =>
               /\ pc' = [pc EXCEPT ![t] = next, ![toBeDestroyed] = "none"]
               /\ status' = [status EXCEPT ![toBeDestroyed] = "FREE"]
    <3> DEFINE next == CASE pc[t] = "begin"     -> "tick"
                         [] pc[t] = "yielded"   -> "tick"
                         [] pc[t] = "preempted" -> "retick"
                         [] pc[t] = "asleep"    -> "P"
    <3>1. next \in Pcs
      BY <1>20 DEF SwitchedIn
    <3> QED
      BY <1>20, <3>1 DEF SwitchedIn
  <2>2. pc' \in [Threads -> Pcs] /\ status' \in [Threads -> Statuses]
    <3>1. CASE toBeDestroyed = NULL
      <4>1. pc \in [Threads -> Pcs] /\ status \in [Threads -> Statuses]
        OBVIOUS
      <4>2. pc' = [pc EXCEPT ![t] = next] /\ status' = status
        BY <2>1, <3>1
      <4> HIDE DEF Pcs, Statuses, KernelTypeOK
      <4> QED
        BY <4>1, <4>2
    <3>2. CASE toBeDestroyed # NULL
      <4>1. toBeDestroyed \in Threads /\ pc \in [Threads -> Pcs]
        BY <3>2
      <4>2. pc' \in [Threads -> Pcs]
        BY <2>1, <3>2, <4>1
      <4>3. status' \in [Threads -> Statuses]
        BY <2>1, <3>2, <4>1
      <4> QED
        BY <4>2, <4>3
    <3> QED
      BY <3>1, <3>2
  <2>3. toBeDestroyed' \in Threads \cup {NULL} /\ loaded' \in Threads \cup {NULL}
    BY <1>20 DEF SwitchedIn
  <2>4. UNCHANGED <<currentThread, readyList, intVars, semVars, ret, waitingOn,
                    oldStatus, space, saved>>
    BY <1>20 DEF SwitchedIn
  <2> QED
    BY <2>2, <2>3, <2>4
<1>21. CASE UNCHANGED kernelVars
  BY <1>21 DEF kernelVars
<1> QED
  BY <1>1, <1>2, <1>3, <1>4, <1>5, <1>6, <1>7, <1>8, <1>9, <1>10, <1>11,
     <1>12, <1>13, <1>14, <1>15, <1>16, <1>17, <1>18, <1>19, <1>20,
     <1>21 DEF AnyStep, AnyCall, KernelStep

(* What V does to the lists, whoever calls it. *)
LEMMA VBodyLists ==
  ASSUME KernelTypeOK, SchedulerInv, NEW s \in Semaphores, VBody(s), queue[s] # <<>>
  PROVE  \E h \in Threads :
           /\ h \in Range(queue[s])
           /\ status' = [status EXCEPT ![h] = "READY"]
           /\ Range(readyList') = Range(readyList) \cup {h}
           /\ IsInjective(readyList')
           /\ \A x \in Semaphores :
                /\ IsInjective(queue'[x])
                /\ Range(queue'[x]) = Range(queue[x]) \ (IF x = s THEN {h} ELSE {})
<1> DEFINE h == Head(queue[s])
           r == Tail(queue[s])
<1>1. queue[s] \in Seq(Threads) /\ readyList \in Seq(Threads)
  BY DEF KernelTypeOK
<1>2. /\ h \in Threads /\ r \in Seq(Threads)
      /\ Range(queue[s]) = Range(r) \cup {h}
      /\ IsInjective(r) /\ h \notin Range(r)
  BY <1>1, HeadTailLemma DEF SchedulerInv
<1>3. /\ queue' = [queue EXCEPT ![s] = r]
      /\ status' = [status EXCEPT ![h] = "READY"]
      /\ readyList' = Append(readyList, h)
  BY DEF VBody
<1>4. h \in Range(queue[s]) /\ h \notin Range(readyList)
  BY <1>2 DEF SchedulerInv
<1>5. /\ Range(readyList') = Range(readyList) \cup {h}
      /\ IsInjective(readyList')
  BY <1>1, <1>2, <1>3, <1>4, AppendLemma, SMTT(20) DEF SchedulerInv
<1> HIDE DEF h, r
<1>6. ASSUME NEW x \in Semaphores
      PROVE  /\ IsInjective(queue'[x])
             /\ Range(queue'[x]) = Range(queue[x]) \ (IF x = s THEN {h} ELSE {})
  <2>1. CASE x = s
    <3>1. queue'[x] = r
      BY <1>3, <2>1 DEF KernelTypeOK
    <3> QED
      BY <1>2, <2>1, <3>1
  <2>2. CASE x # s
    <3>1. queue'[x] = queue[x]
      BY <1>3, <2>2 DEF KernelTypeOK
    <3> QED
      BY <2>2, <3>1 DEF SchedulerInv
  <2> QED
    BY <2>1, <2>2
<1> QED
  BY <1>2, <1>3, <1>4, <1>5, <1>6, ZenonT(60)

(* What Yield does to the ready list when somebody is ready. *)
LEMMA YieldBodyLists ==
  ASSUME KernelTypeOK, SchedulerInv, NEW t \in Threads, NEW p, NEW q,
         YieldBody(t, p, q), status[t] # "READY", readyList # <<>>
  PROVE  /\ currentThread' \in Range(readyList) /\ currentThread' \in Threads
         /\ currentThread' # t
         /\ status' = [status EXCEPT ![t] = "READY", ![currentThread'] = "RUNNING"]
         /\ Range(readyList') = (Range(readyList) \ {currentThread'}) \cup {t}
         /\ IsInjective(readyList')
<1> DEFINE h == Head(readyList)
           r == Tail(readyList)
<1>1. readyList \in Seq(Threads) /\ IsInjective(readyList) /\ t \notin Range(readyList)
  BY DEF KernelTypeOK, SchedulerInv
<1>2. /\ h \in Threads /\ r \in Seq(Threads)
      /\ Range(readyList) = Range(r) \cup {h}
      /\ IsInjective(r) /\ h \notin Range(r)
  BY <1>1, HeadTailLemma
<1>3. /\ currentThread' = h
      /\ status' = [status EXCEPT ![t] = "READY", ![h] = "RUNNING"]
      /\ readyList' = Append(r, t)
  BY DEF YieldBody
<1> HIDE DEF h, r
<1>4. t \notin Range(r)
  BY <1>1, <1>2
<1>5. /\ Range(readyList') = Range(r) \cup {t}
      /\ IsInjective(readyList')
  BY <1>2, <1>3, <1>4, AppendLemma, SMTT(20)
<1> QED
  BY <1>1, <1>2, <1>3, <1>5

(* Semaphore::V keeps SchedulerInv: the thread it wakes leaves its queue   *)
(* and joins the ready list as it becomes READY.                           *)
LEMMA VBodySched ==
  ASSUME KernelTypeOK, SchedulerInv, NEW s \in Semaphores, VBody(s),
         UNCHANGED waitingOn, Idling' <=> Idling
  PROVE  SchedulerInv'
<1>1. CASE queue[s] = <<>>
  BY <1>1 DEF VBody, SchedulerInv
<1>2. CASE queue[s] # <<>>
  <2>1. PICK h \in Threads :
          /\ h \in Range(queue[s])
          /\ status' = [status EXCEPT ![h] = "READY"]
          /\ Range(readyList') = Range(readyList) \cup {h}
          /\ IsInjective(readyList')
          /\ \A x \in Semaphores :
               /\ IsInjective(queue'[x])
               /\ Range(queue'[x]) = Range(queue[x]) \ (IF x = s THEN {h} ELSE {})
    BY <1>2, VBodyLists
  <2>2. status[h] = "BLOCKED" /\ waitingOn[h] = s
    BY <2>1 DEF SchedulerInv
  <2>3. status'[h] = "READY" /\ \A u \in Threads : u # h => status'[u] = status[u]
    BY <2>1 DEF KernelTypeOK
  <2>4. ASSUME NEW x \in Semaphores, NEW u \in Threads
        PROVE  u \in Range(queue'[x])
                 <=> status'[u] = "BLOCKED" /\ waitingOn'[u] = x
    <3>1. CASE u = h
      BY <2>1, <2>2, <2>3, <3>1, SMTT(20) DEF SchedulerInv
    <3>2. CASE u # h
      BY <2>1, <2>3, <3>2, SMTT(20) DEF SchedulerInv
    <3> QED
      BY <3>1, <3>2
  <2>5. UNCHANGED currentThread
    BY DEF VBody
  <2> QED
    BY <2>1, <2>2, <2>3, <2>4, <2>5, SMTT(20) DEF SchedulerInv
<1> QED
  BY <1>1, <1>2

(* Thread::Yield keeps SchedulerInv: the thread that yields joins the end  *)
(* of the ready list, from which the next one is taken.                    *)
LEMMA YieldBodySched ==
  ASSUME KernelTypeOK, SchedulerInv, ControlInv, NEW t \in Threads, NEW p, NEW q,
         YieldBody(t, p, q), UNCHANGED <<queue, waitingOn>>,
         currentThread = t, status[t] = "RUNNING",
         q \notin {"sleep", "idle"}
  PROVE  SchedulerInv'
<1>1. CASE readyList = <<>>
  <2>1. /\ UNCHANGED <<currentThread, status, readyList>>
        /\ pc' = [pc EXCEPT ![t] = q]
    BY <1>1 DEF YieldBody, schedVars, Goto
  <2>2. ~ Idling /\ ~ Idling'
    BY <2>1, SMTT(20) DEF SchedulerInv, KernelTypeOK, Idling
  <2> QED
    BY <2>1, <2>2 DEF SchedulerInv
<1>2. CASE readyList # <<>>
  <2> DEFINE h == currentThread'
  <2>1. /\ h \in Range(readyList) /\ h \in Threads /\ h # t
        /\ status' = [status EXCEPT ![t] = "READY", ![h] = "RUNNING"]
        /\ Range(readyList') = (Range(readyList) \ {h}) \cup {t}
        /\ IsInjective(readyList')
    BY <1>2, YieldBodyLists
  <2>2. status[h] = "READY" /\ pc[h] \in SwitchedOut
    BY <2>1 DEF SchedulerInv, ControlInv, Placed
  <2>3. pc' = [pc EXCEPT ![t] = p]
    BY <1>2 DEF YieldBody, Goto
  <2>4. ~ Idling'
    BY <2>1, <2>2, <2>3 DEF Idling, KernelTypeOK, SwitchedOut
  <2>5. /\ status'[t] = "READY" /\ status'[h] = "RUNNING"
        /\ \A u \in Threads : u # t /\ u # h => status'[u] = status[u]
    BY <2>1 DEF KernelTypeOK
  <2>6. \A u \in Threads : status[u] = "RUNNING" <=> u = t
    BY DEF SchedulerInv
  <2>7. h = currentThread'
    OBVIOUS
  <2> HIDE DEF h
  <2>8. ASSUME NEW u \in Threads
        PROVE  status'[u] = "READY" <=> u \in Range(readyList')
    <3>1. CASE u = t
      BY <2>1, <2>5, <3>1
    <3>2. CASE u = h
      BY <2>1, <2>5, <3>2
    <3>3. CASE u # t /\ u # h
      <4>1. status[u] = "READY" <=> u \in Range(readyList)
        BY DEF SchedulerInv
      <4>2. status'[u] = status[u]
        BY <2>5, <3>3
      <4>3. u \in Range(readyList') <=> u \in Range(readyList)
        BY <2>1, <3>3
      <4> QED
        BY <4>1, <4>2, <4>3
    <3> QED
      BY <3>1, <3>2, <3>3
  <2>9. ASSUME NEW u \in Threads
        PROVE  /\ status'[u] = "BLOCKED" <=> status[u] = "BLOCKED"
               /\ status'[u] = "RUNNING" <=> u = h
    BY <2>1, <2>2, <2>5, <2>6, ZenonT(60)
  <2>10. \A x \in Semaphores :
           /\ IsInjective(queue'[x])
           /\ \A u \in Threads :
                u \in Range(queue'[x]) <=> status'[u] = "BLOCKED" /\ waitingOn'[u] = x
    BY <2>9 DEF SchedulerInv
  <2> QED
    BY <2>1, <2>4, <2>7, <2>8, <2>9, <2>10, ZenonT(60) DEF SchedulerInv
<1> QED
  BY <1>1, <1>2

(* Thread::Sleep switches to a READY thread, which is the sleeper itself   *)
(* when a handler woke it while it idled.                                  *)
LEMMA SleepRunHead ==
  ASSUME KernelTypeOK, SchedulerInv, ControlInv, NEW t \in Threads, SleepRun(t)
  PROVE  \E h \in Threads :
           /\ currentThread' = h
           /\ status[h] = "READY" /\ (h = t \/ pc[h] \in SwitchedOut)
           /\ status' = [status EXCEPT ![h] = "RUNNING"]
           /\ Range(readyList') = Range(readyList) \ {h}
           /\ IsInjective(readyList')
<1> DEFINE h == Head(readyList)
           r == Tail(readyList)
<1>1. /\ currentThread = t
      /\ currentThread' = h
      /\ status' = [status EXCEPT ![h] = "RUNNING"]
      /\ readyList' = r
      /\ readyList # <<>> /\ readyList \in Seq(Threads) /\ IsInjective(readyList)
  BY DEF SleepRun, At, KernelTypeOK, SchedulerInv
<1>2. /\ h \in Threads /\ r \in Seq(Threads)
      /\ Range(readyList) = Range(r) \cup {h}
      /\ IsInjective(r) /\ h \notin Range(r)
  BY <1>1, HeadTailLemma
<1> HIDE DEF h, r
<1>3. status[h] = "READY"
  BY <1>2 DEF SchedulerInv
<1>4. h # t => pc[h] \in SwitchedOut
  BY <1>1, <1>2, <1>3 DEF ControlInv, Placed, SwitchedOut
<1> QED
  BY <1>1, <1>2, <1>3, <1>4, ZenonT(60)

(* What the thread switched to does first: it moves on from where it       *)
(* stopped, and the thread that finished, if any, is no more.              *)
LEMMA SwitchedInEffect ==
  ASSUME KernelTypeOK, DestroySafe, NEW t \in Threads, SwitchedIn(t)
  PROVE  /\ pc'[t] \in {"tick", "retick", "P"}
         /\ pc'[t] = "P" <=> pc[t] = "asleep"
         /\ status'[t] = status[t]
         /\ \A u \in Threads : u # t /\ u # toBeDestroyed =>
              pc'[u] = pc[u] /\ status'[u] = status[u]
         /\ \A u \in Threads : u # t /\ u = toBeDestroyed =>
              pc'[u] = "none" /\ status'[u] = "FREE"
<1>1. PICK n \in {"tick", "retick", "P"} :
        /\ n = "P" <=> pc[t] = "asleep"
        /\ IF toBeDestroyed = NULL
             THEN pc' = [pc EXCEPT ![t] = n] /\ UNCHANGED status
             ELSE /\ pc' = [pc EXCEPT ![t] = n, ![toBeDestroyed] = "none"]
                  /\ status' = [status EXCEPT ![toBeDestroyed] = "FREE"]
  BY DEF SwitchedIn, Goto, SwitchedOut
<1>2. /\ pc \in [Threads -> Pcs] /\ status \in [Threads -> Statuses]
      /\ toBeDestroyed # NULL => toBeDestroyed \in Threads /\ toBeDestroyed # t
  BY DEF SwitchedIn, DestroySafe, KernelTypeOK
<1>3. CASE toBeDestroyed = NULL
  BY <1>1, <1>2, <1>3, KernelAssumption
<1>4. CASE toBeDestroyed # NULL
  BY <1>1, <1>2, <1>4
<1> QED
  BY <1>3, <1>4

(* At the start the main thread runs and every list is empty.              *)
LEMMA SchedulerInit ==
  ASSUME NEW polling \in SUBSET Devices, KernelStart(polling)
  PROVE  SchedulerInv
  BY EmptyLemma, KernelAssumption DEF KernelStart, SchedulerInv, Idling

(* Every step of the kernel keeps the lists and the statuses in agreement. *)
LEMMA SchedulerStep ==
  IInv /\ [AnyStep]_kernelVars => SchedulerInv'
<1> SUFFICES ASSUME KernelTypeOK, SchedulerInv, ControlInv, DestroySafe, [AnyStep]_kernelVars
             PROVE  SchedulerInv'
  BY DEF IInv
<1>1. ASSUME NEW t \in Threads, NEW u \in Threads, NewThread(t, u)
     PROVE  SchedulerInv'
  BY <1>1, SMTT(20) DEF NewThread, At, Goto, schedVars, intVars, semVars, userVars, KernelTypeOK, SchedulerInv, Idling
<1>2. ASSUME NEW t \in Threads, NEW u \in Threads, Fork(t, u)
     PROVE  SchedulerInv'
  <2>1. status[u] # "READY" /\ u # t
    BY <1>2 DEF Fork, At, ControlInv, Placed
  <2>2. /\ readyList' = Append(readyList, u)
        /\ status' = [status EXCEPT ![u] = "READY"]
        /\ pc' = [pc EXCEPT ![u] = "begin", ![t] = "tick"]
        /\ UNCHANGED <<currentThread, queue, waitingOn>>
        /\ currentThread = t /\ pc[t] = "body" /\ status[u] = "JUST_CREATED"
    BY <1>2 DEF Fork, At, schedVars, intVars, semVars, userVars
  <2>3. IsInjective(readyList') /\ Range(readyList') = Range(readyList) \cup {u}
    BY <2>1, <2>2, AppendLemma, SMTT(20) DEF KernelTypeOK, SchedulerInv
  <2>4. ~ Idling /\ ~ Idling'
    BY <2>1, <2>2 DEF KernelTypeOK, Idling
  <2> QED
    BY <2>2, <2>3, <2>4, SMTT(20) DEF KernelTypeOK, SchedulerInv
<1>3. ASSUME NEW t \in Threads, Yield(t)
     PROVE  SchedulerInv'
  <2>1. /\ YieldBody(t, "yielded", "tick") /\ UNCHANGED <<queue, waitingOn>>
        /\ currentThread = t /\ pc[t] = "body"
    BY <1>3 DEF Yield, At, schedVars, intVars, semVars, userVars
  <2>2. status[t] = "RUNNING"
    BY <2>1 DEF SchedulerInv, Idling
  <2> QED
    BY <2>1, <2>2, YieldBodySched
<1>4. ASSUME NEW t \in Threads, NEW s \in Semaphores, P(t, s)
     PROVE  SchedulerInv'
  BY <1>4, SMTT(20) DEF P, At, Goto, schedVars, intVars, semVars, userVars, KernelTypeOK, SchedulerInv, Idling
<1>5. ASSUME NEW t \in Threads, NEW s \in Semaphores, V(t, s)
     PROVE  SchedulerInv'
  <2>1. /\ VBody(s) /\ UNCHANGED <<currentThread, waitingOn>>
        /\ pc' = [pc EXCEPT ![t] = "tick"]
        /\ currentThread = t /\ pc[t] = "body"
    BY <1>5 DEF V, At, VBody, SetLevelOn, Goto
  <2>2. Idling' <=> Idling
    BY <2>1 DEF KernelTypeOK, Idling
  <2> QED
    BY <2>1, <2>2, VBodySched
<1>6. ASSUME NEW t \in Threads, NEW d \in Devices, StartIO(t, d)
     PROVE  SchedulerInv'
  BY <1>6, SMTT(20) DEF StartIO, At, Goto, schedVars, intVars, semVars, userVars, KernelTypeOK, SchedulerInv, Idling
<1>7. ASSUME NEW t \in Threads, Finish(t)
     PROVE  SchedulerInv'
  <2>1. /\ currentThread = t /\ pc[t] = "body"
        /\ status' = [status EXCEPT ![t] = "BLOCKED"]
        /\ pc' = [pc EXCEPT ![t] = "sleep"]
        /\ UNCHANGED <<currentThread, readyList, queue, waitingOn>>
    BY <1>7 DEF Finish, At, Goto, schedVars, intVars, semVars, userVars
  <2>2. waitingOn[t] = NULL /\ status[t] = "RUNNING"
    BY <2>1 DEF ControlInv, Placed, SchedulerInv, Idling
  <2>3. Idling'
    BY <2>1 DEF KernelTypeOK, Idling
  <2> QED
    BY <2>1, <2>2, <2>3, KernelAssumption, SMTT(20) DEF KernelTypeOK, SchedulerInv
<1>8. ASSUME NEW t \in Threads, Execute(t)
     PROVE  SchedulerInv'
  BY <1>8, SMTT(20) DEF Execute, At, Goto, schedVars, intVars, semVars, userVars, KernelTypeOK, SchedulerInv, Idling
<1>9. ASSUME NEW t \in Threads, OneInstruction(t)
     PROVE  SchedulerInv'
  BY <1>9, SMTT(20) DEF OneInstruction, At, Goto, schedVars, intVars, semVars, userVars, KernelTypeOK, SchedulerInv, Idling
<1>10. ASSUME NEW t \in Threads, RaiseException(t)
     PROVE  SchedulerInv'
  BY <1>10, SMTT(20) DEF RaiseException, At, Goto, schedVars, intVars, semVars, userVars, KernelTypeOK, SchedulerInv, Idling
<1>11. ASSUME NEW t \in Threads, ReturnFromException(t)
     PROVE  SchedulerInv'
  BY <1>11, SMTT(20) DEF ReturnFromException, At, Goto, schedVars, intVars, semVars, userVars, KernelTypeOK, SchedulerInv, Idling
<1>12. ASSUME NEW t \in Threads, PTest(t)
     PROVE  SchedulerInv'
  <2> DEFINE s == waitingOn[t]
               q == Append(queue[s], t)
  <2>1. /\ currentThread = t /\ pc[t] = "P" /\ s \in Semaphores /\ value[s] \in Nat
        /\ UNCHANGED <<currentThread, readyList>>
    BY <1>12 DEF ControlInv, Placed, PTest, At, KernelTypeOK
  <2>2. status[t] = "RUNNING"
    BY <2>1 DEF SchedulerInv, Idling
  <2>3. CASE value[s] > 0
    <3>1. /\ waitingOn' = [waitingOn EXCEPT ![t] = NULL]
          /\ pc' = [pc EXCEPT ![t] = "tick"]
          /\ UNCHANGED <<queue, status>>
      BY <1>12, <2>3, SMTT(20) DEF PTest, SetLevelOn, Goto
    <3>2. ~ Idling /\ ~ Idling'
      BY <2>1, <3>1 DEF KernelTypeOK, Idling
    <3>3. s = waitingOn[t] /\ t \notin Range(queue[s])
      BY <2>1, <2>2 DEF SchedulerInv
    <3> HIDE DEF s
    <3> QED
      BY <2>1, <2>2, <3>1, <3>2, <3>3, KernelAssumption, SMTT(20) DEF KernelTypeOK, SchedulerInv
  <2>4. CASE value[s] = 0
    <3>1. /\ queue' = [queue EXCEPT ![s] = q]
          /\ status' = [status EXCEPT ![t] = "BLOCKED"]
          /\ pc' = [pc EXCEPT ![t] = "sleep"]
          /\ UNCHANGED waitingOn
      BY <1>12, <2>4, SMTT(20) DEF PTest, Goto
    <3>2. t \notin Range(queue[s])
      BY <2>1, <2>2 DEF SchedulerInv
    <3>3. IsInjective(q) /\ Range(q) = Range(queue[s]) \cup {t}
      BY <2>1, <3>2, AppendLemma, SMTT(20) DEF KernelTypeOK, SchedulerInv
    <3>4. queue'[s] = q /\ \A x \in Semaphores : x # s => queue'[x] = queue[x]
      BY <2>1, <3>1 DEF KernelTypeOK
    <3>5. s = waitingOn[t]
      OBVIOUS
    <3> HIDE DEF s, q
    <3>6. \A x \in Semaphores : IsInjective(queue'[x])
      BY <2>1, <3>3, <3>4 DEF SchedulerInv
    <3>7. ASSUME NEW x \in Semaphores, NEW u \in Threads
          PROVE  u \in Range(queue'[x])
                   <=> status'[u] = "BLOCKED" /\ waitingOn'[u] = x
      <4>1. CASE u = t
        BY <2>1, <3>1, <3>2, <3>3, <3>4, <3>5, <2>2, <4>1, SMTT(60) DEF KernelTypeOK, SchedulerInv
      <4>2. CASE u # t
        BY <2>1, <3>1, <3>3, <3>4, <4>2, SMTT(60) DEF KernelTypeOK, SchedulerInv
      <4> QED
        BY <4>1, <4>2
    <3>8. /\ IsInjective(readyList')
          /\ \A u \in Threads : status'[u] = "READY" <=> u \in Range(readyList')
          /\ \A u \in Threads :
               status'[u] = "RUNNING" <=> u = currentThread' /\ ~ Idling'
      BY <2>1, <2>2, <3>1, SMTT(20) DEF KernelTypeOK, SchedulerInv, Idling
    <3> QED
      BY <3>6, <3>7, <3>8 DEF SchedulerInv
  <2> QED
    BY <2>1, <2>3, <2>4, SMTT(20)
<1>13. ASSUME NEW t \in Threads, SleepRun(t)
     PROVE  SchedulerInv'
  <2>1. /\ currentThread = t /\ pc[t] = "sleep"
        /\ \E w \in {"finished", "asleep"} : pc' = [pc EXCEPT ![t] = w]
        /\ UNCHANGED <<queue, waitingOn>>
    BY <1>13 DEF SleepRun, At, Goto, schedVars, intVars, semVars, userVars
  <2>2. PICK h \in Threads :
          /\ currentThread' = h
          /\ status[h] = "READY" /\ (h = t \/ pc[h] \in SwitchedOut)
          /\ status' = [status EXCEPT ![h] = "RUNNING"]
          /\ Range(readyList') = Range(readyList) \ {h}
          /\ IsInjective(readyList')
    BY <1>13, SleepRunHead
  <2>3. ~ Idling'
    BY <2>1, <2>2 DEF SwitchedOut, Idling, KernelTypeOK
  <2>4. \A u \in Threads : status[u] # "RUNNING"
    BY <2>1 DEF SchedulerInv, Idling
  <2> QED
    BY <2>1, <2>2, <2>3, <2>4, SMTT(20) DEF SchedulerInv, KernelTypeOK
<1>14. ASSUME NEW t \in Threads, EnterIdle(t)
     PROVE  SchedulerInv'
  BY <1>14, SMTT(20) DEF EnterIdle, At, Goto, schedVars, intVars, semVars, userVars, KernelTypeOK, SchedulerInv, Idling
<1>15. ASSUME NEW t \in Threads, LeaveIdle(t)
     PROVE  SchedulerInv'
  BY <1>15, SMTT(20) DEF LeaveIdle, At, Goto, schedVars, intVars, semVars, userVars, KernelTypeOK, SchedulerInv, Idling
<1>16. ASSUME NEW t \in Threads, NEW d \in Devices, DeviceInterrupt(t, d)
     PROVE  SchedulerInv'
  <2>1. /\ VBody(DoneSem[d]) /\ UNCHANGED <<currentThread, waitingOn, pc>>
        /\ DoneSem[d] \in Semaphores
    BY <1>16, KernelAssumption DEF DeviceInterrupt, VBody
  <2>2. Idling' <=> Idling
    BY <2>1 DEF KernelTypeOK, Idling
  <2> QED
    BY <2>1, <2>2, VBodySched
<1>17. ASSUME NEW t \in Threads, TimerInterrupt(t)
     PROVE  SchedulerInv'
  BY <1>17 DEF TimerInterrupt, At, Goto, schedVars, intVars, semVars, userVars, KernelTypeOK, SchedulerInv, Idling
<1>18. ASSUME NEW t \in Threads, EndTick(t)
     PROVE  SchedulerInv'
  <2>1. /\ currentThread = t /\ pc[t] \in InTick
        /\ pc' = [pc EXCEPT ![t] = ret[t]]
        /\ UNCHANGED <<currentThread, status, readyList, queue, waitingOn>>
    BY <1>18 DEF EndTick, At, Goto, InTick, schedVars, intVars, semVars, userVars
  <2>2. pc'[t] = ret[t] /\ ret[t] \in {"body", "user"}
    BY <2>1 DEF KernelTypeOK
  <2>3. Idling' <=> Idling
    BY <2>1, <2>2 DEF InTick, Idling
  <2> QED
    BY <2>1, <2>3 DEF SchedulerInv
<1>19. ASSUME NEW t \in Threads, PreemptTick(t)
     PROVE  SchedulerInv'
  <2>1. /\ YieldBody(t, "preempted", "retick") /\ UNCHANGED <<queue, waitingOn>>
        /\ currentThread = t /\ pc[t] \in InTick
    BY <1>19 DEF PreemptTick, At, InTick, schedVars, intVars, semVars, userVars
  <2>2. status[t] = "RUNNING"
    BY <2>1 DEF InTick, SchedulerInv, Idling
  <2> QED
    BY <2>1, <2>2, YieldBodySched
<1>20. ASSUME NEW t \in Threads, SwitchedIn(t)
     PROVE  SchedulerInv'
  <2>1. /\ currentThread = t /\ pc[t] \in SwitchedOut
        /\ UNCHANGED <<currentThread, readyList, queue, waitingOn>>
    BY <1>20 DEF SwitchedIn, schedVars, intVars, semVars, userVars
  <2>2. pc'[t] \in {"tick", "retick", "P"}
    BY <1>20, SwitchedInEffect
  <2>3. ~ Idling /\ ~ Idling'
    BY <2>1, <2>2 DEF SwitchedOut, Idling
  <2>4. ASSUME toBeDestroyed # NULL
        PROVE  /\ status[toBeDestroyed] \notin {"READY", "RUNNING"}
               /\ waitingOn[toBeDestroyed] = NULL /\ toBeDestroyed # t
    <3>1. /\ toBeDestroyed \in Threads /\ toBeDestroyed # currentThread
          /\ pc[toBeDestroyed] = "finished"
      BY <2>4 DEF DestroySafe, KernelTypeOK
    <3> QED
      BY <2>1, <3>1 DEF ControlInv, Placed, SwitchedOut, SchedulerInv
  <2>5. ASSUME NEW u \in Threads
        PROVE  /\ status'[u] = "READY" <=> status[u] = "READY"
               /\ status'[u] = "RUNNING" <=> status[u] = "RUNNING"
               /\ \A x \in Semaphores :
                    status'[u] = "BLOCKED" /\ waitingOn[u] = x
                      <=> status[u] = "BLOCKED" /\ waitingOn[u] = x
    <3>1. CASE u # toBeDestroyed
      BY <1>20, <3>1, SwitchedInEffect
    <3>2. CASE u = toBeDestroyed
      BY <1>20, <2>4, <3>2, SwitchedInEffect, KernelAssumption, SMTT(60)
    <3> QED
      BY <3>1, <3>2
  <2> QED
    BY <2>1, <2>3, <2>5, SMTT(20) DEF SchedulerInv
<1>21. CASE UNCHANGED kernelVars
  BY <1>21 DEF kernelVars, schedVars, intVars, semVars, userVars, SchedulerInv, Idling
<1> QED
  BY <1>1, <1>2, <1>3, <1>4, <1>5, <1>6, <1>7, <1>8, <1>9, <1>10, <1>11,
     <1>12, <1>13, <1>14, <1>15, <1>16, <1>17, <1>18, <1>19, <1>20,
     <1>21 DEF AnyStep, AnyCall, KernelStep


(* At the start no thread is to be destroyed.                              *)
LEMMA DestroyInit ==
  ASSUME NEW polling \in SUBSET Devices, KernelStart(polling)
  PROVE  DestroySafe
  BY DEF KernelStart, DestroySafe

(* Every step keeps DestroySafe: Thread::Finish sets toBeDestroyed and the *)
(* next thread to run deletes that thread.                                 *)
LEMMA DestroyStep ==
  IInv /\ [AnyStep]_kernelVars => DestroySafe'
<1> SUFFICES ASSUME KernelTypeOK, SchedulerInv, ControlInv, DestroySafe, [AnyStep]_kernelVars
             PROVE  DestroySafe'
  BY DEF IInv
<1>1. ASSUME NEW t \in Threads, NEW u \in Threads, NewThread(t, u)
     PROVE  DestroySafe'
  BY <1>1 DEF NewThread, At, Goto, schedVars, intVars, semVars, userVars, KernelTypeOK, DestroySafe, SwitchedOut
<1>2. ASSUME NEW t \in Threads, NEW u \in Threads, Fork(t, u)
     PROVE  DestroySafe'
  BY <1>2 DEF Fork, At, Goto, schedVars, intVars, semVars, userVars, KernelTypeOK, DestroySafe, SwitchedOut
<1>3. ASSUME NEW t \in Threads, Yield(t)
     PROVE  DestroySafe'
  <2>1. /\ currentThread = t /\ pc[t] = "body" /\ UNCHANGED toBeDestroyed
        /\ \E w \in {"yielded", "tick"} : pc' = [pc EXCEPT ![t] = w]
    BY <1>3 DEF Yield, YieldBody, At, Goto, schedVars, intVars, semVars, userVars
  <2> QED
    BY <2>1, KernelAssumption DEF DestroySafe, SwitchedOut, KernelTypeOK
<1>4. ASSUME NEW t \in Threads, NEW s \in Semaphores, P(t, s)
     PROVE  DestroySafe'
  BY <1>4 DEF P, At, Goto, schedVars, intVars, semVars, userVars, KernelTypeOK, DestroySafe, SwitchedOut
<1>5. ASSUME NEW t \in Threads, NEW s \in Semaphores, V(t, s)
     PROVE  DestroySafe'
  BY <1>5 DEF V, VBody, SetLevelOn, At, Goto, schedVars, intVars, semVars, userVars, KernelTypeOK, DestroySafe, SwitchedOut
<1>6. ASSUME NEW t \in Threads, NEW d \in Devices, StartIO(t, d)
     PROVE  DestroySafe'
  BY <1>6 DEF StartIO, At, Goto, schedVars, intVars, semVars, userVars, KernelTypeOK, DestroySafe, SwitchedOut
<1>7. ASSUME NEW t \in Threads, Finish(t)
     PROVE  DestroySafe'
  BY <1>7 DEF Finish, At, Goto, schedVars, intVars, semVars, userVars, KernelTypeOK, DestroySafe, SwitchedOut
<1>8. ASSUME NEW t \in Threads, Execute(t)
     PROVE  DestroySafe'
  BY <1>8 DEF Execute, At, Goto, schedVars, intVars, semVars, userVars, KernelTypeOK, DestroySafe, SwitchedOut
<1>9. ASSUME NEW t \in Threads, OneInstruction(t)
     PROVE  DestroySafe'
  BY <1>9 DEF OneInstruction, At, Goto, schedVars, intVars, semVars, userVars, KernelTypeOK, DestroySafe, SwitchedOut
<1>10. ASSUME NEW t \in Threads, RaiseException(t)
     PROVE  DestroySafe'
  BY <1>10 DEF RaiseException, At, Goto, schedVars, intVars, semVars, userVars, KernelTypeOK, DestroySafe, SwitchedOut
<1>11. ASSUME NEW t \in Threads, ReturnFromException(t)
     PROVE  DestroySafe'
  BY <1>11 DEF ReturnFromException, At, Goto, schedVars, intVars, semVars, userVars, KernelTypeOK, DestroySafe, SwitchedOut
<1>12. ASSUME NEW t \in Threads, PTest(t)
     PROVE  DestroySafe'
  BY <1>12, SMTT(60) DEF PTest, SetLevelOn, At, Goto, schedVars, intVars, semVars, userVars, KernelTypeOK, DestroySafe, SwitchedOut
<1>13. ASSUME NEW t \in Threads, SleepRun(t)
     PROVE  DestroySafe'
  <2>1. /\ currentThread = t /\ pc[t] = "sleep" /\ toBeDestroyed = NULL
        /\ \/ waitingOn[t] = NULL /\ toBeDestroyed' = t /\ pc' = [pc EXCEPT ![t] = "finished"]
           \/ toBeDestroyed' = NULL /\ pc' = [pc EXCEPT ![t] = "asleep"]
    BY <1>13 DEF SleepRun, At, Goto, DestroySafe, SwitchedOut
  <2>2. PICK h \in Threads :
          /\ currentThread' = h
          /\ status[h] = "READY" /\ (h = t \/ pc[h] \in SwitchedOut)
    BY <1>13, SleepRunHead
  <2>3. waitingOn[t] = NULL => h # t
    BY <2>1, <2>2 DEF ControlInv, Placed
  <2> QED
    BY <2>1, <2>2, <2>3, KernelAssumption, SMTT(60) DEF DestroySafe, SwitchedOut, KernelTypeOK
<1>14. ASSUME NEW t \in Threads, EnterIdle(t)
     PROVE  DestroySafe'
  BY <1>14 DEF EnterIdle, At, Goto, schedVars, intVars, semVars, userVars, KernelTypeOK, DestroySafe, SwitchedOut
<1>15. ASSUME NEW t \in Threads, LeaveIdle(t)
     PROVE  DestroySafe'
  BY <1>15 DEF LeaveIdle, At, Goto, schedVars, intVars, semVars, userVars, KernelTypeOK, DestroySafe, SwitchedOut
<1>16. ASSUME NEW t \in Threads, NEW d \in Devices, DeviceInterrupt(t, d)
     PROVE  DestroySafe'
  BY <1>16 DEF DeviceInterrupt, VBody, DestroySafe
<1>17. ASSUME NEW t \in Threads, TimerInterrupt(t)
     PROVE  DestroySafe'
  BY <1>17 DEF TimerInterrupt, At, Goto, schedVars, intVars, semVars, userVars, KernelTypeOK, DestroySafe, SwitchedOut
<1>18. ASSUME NEW t \in Threads, EndTick(t)
     PROVE  DestroySafe'
  BY <1>18, ZenonT(60) DEF EndTick, At, Goto, schedVars, intVars, semVars, userVars, KernelTypeOK, DestroySafe, SwitchedOut
<1>19. ASSUME NEW t \in Threads, PreemptTick(t)
     PROVE  DestroySafe'
  <2>1. /\ currentThread = t /\ pc[t] \in InTick /\ UNCHANGED toBeDestroyed
        /\ \E w \in {"preempted", "retick"} : pc' = [pc EXCEPT ![t] = w]
    BY <1>19 DEF PreemptTick, YieldBody, At, Goto, InTick, schedVars, intVars, semVars, userVars
  <2> QED
    BY <2>1, KernelAssumption DEF DestroySafe, SwitchedOut, InTick, KernelTypeOK
<1>20. ASSUME NEW t \in Threads, SwitchedIn(t)
     PROVE  DestroySafe'
  BY <1>20, SMTT(20) DEF SwitchedIn, At, Goto, schedVars, intVars, semVars, userVars, KernelTypeOK, DestroySafe, SwitchedOut
<1>21. CASE UNCHANGED kernelVars
  BY <1>21 DEF kernelVars, schedVars, intVars, semVars, userVars, DestroySafe
<1> QED
  BY <1>1, <1>2, <1>3, <1>4, <1>5, <1>6, <1>7, <1>8, <1>9, <1>10, <1>11,
     <1>12, <1>13, <1>14, <1>15, <1>16, <1>17, <1>18, <1>19, <1>20,
     <1>21 DEF AnyStep, AnyCall, KernelStep

(* Semaphore::V keeps ControlInv: the thread it wakes is one that sleeps   *)
(* in P.                                                                   *)
LEMMA VBodyControl ==
  ASSUME KernelTypeOK, SchedulerInv, ControlInv, NEW s \in Semaphores, VBody(s),
         NEW t \in Threads, currentThread = t, pc[t] \notin {"P", "asleep", "none", "created"},
         UNCHANGED waitingOn,
         UNCHANGED pc \/ (pc[t] = "body" /\ pc' = [pc EXCEPT ![t] = "tick"])
  PROVE  ControlInv'
<1>1. UNCHANGED currentThread
  BY DEF VBody
<1>2. \/ UNCHANGED status
      \/ \E h \in Threads : /\ status[h] = "BLOCKED" /\ waitingOn[h] = s
                            /\ status' = [status EXCEPT ![h] = "READY"]
  <2>1. CASE queue[s] = <<>>
    BY <2>1 DEF VBody
  <2>2. CASE queue[s] # <<>>
    <3>1. PICK h \in Threads : /\ h \in Range(queue[s])
                               /\ status' = [status EXCEPT ![h] = "READY"]
      BY <2>2, VBodyLists
    <3>2. status[h] = "BLOCKED" /\ waitingOn[h] = s
      BY <3>1 DEF SchedulerInv
    <3> QED
      BY <3>1, <3>2, ZenonT(60)
  <2> QED
    BY <2>1, <2>2
<1>3. CASE UNCHANGED status
  BY <1>1, <1>3, SMTT(60) DEF ControlInv, Placed, KernelTypeOK, SwitchedOut
<1>4. ASSUME NEW h \in Threads, status[h] = "BLOCKED", waitingOn[h] = s,
             status' = [status EXCEPT ![h] = "READY"]
      PROVE  ControlInv'
  <2>1. pc[h] \in {"asleep", "sleep", "idle"}
    BY <1>4, KernelAssumption DEF ControlInv, Placed
  <2>2. /\ status'[h] = "READY" /\ \A u \in Threads : u # h => status'[u] = status[u]
        /\ pc'[h] = pc[h]
        /\ \A u \in Threads : pc'[u] = pc[u] \/ (u = t /\ pc[t] = "body" /\ pc'[t] = "tick")
    BY <1>4, <2>1 DEF KernelTypeOK
  <2>3. ASSUME NEW u \in Threads
        PROVE  Placed(u)'
    <3>1. Placed(u)
      BY DEF ControlInv
    <3>2. CASE u = h
      <4>1. status'[u] = "READY" /\ pc'[u] = pc[u] /\ waitingOn'[u] = s
        BY <1>4, <2>2, <3>2
      <4> QED
        BY <1>1, <2>1, <3>1, <3>2, <4>1, KernelAssumption DEF Placed, SwitchedOut
    <3>3. CASE u # h
      <4>1. /\ status'[u] = status[u] /\ waitingOn'[u] = waitingOn[u]
            /\ pc'[u] = pc[u] \/ (u = t /\ pc[u] = "body" /\ pc'[u] = "tick")
        BY <2>2, <3>3
      <4> QED
        BY <1>1, <3>1, <4>1 DEF Placed, SwitchedOut
    <3> QED
      BY <3>2, <3>3
  <2>4. pc'[currentThread'] \notin {"none", "created", "finished"}
    BY <1>1, <2>2 DEF ControlInv
  <2> QED
    BY <2>3, <2>4 DEF ControlInv
<1> QED
  BY <1>2, <1>3, <1>4

(* Thread::Yield keeps ControlInv: the thread that yields stops in Run.    *)
LEMMA YieldBodyControl ==
  ASSUME KernelTypeOK, SchedulerInv, ControlInv, NEW t \in Threads,
         NEW p \in {"yielded", "preempted"}, NEW q \in {"tick", "retick"},
         YieldBody(t, p, q), UNCHANGED waitingOn,
         currentThread = t, status[t] = "RUNNING", waitingOn[t] = NULL
  PROVE  ControlInv'
<1>1. CASE readyList = <<>>
  BY <1>1, SMTT(60) DEF YieldBody, Goto, schedVars, ControlInv, Placed, SchedulerInv, KernelTypeOK, SwitchedOut
<1>2. CASE readyList # <<>>
  <2> DEFINE h == currentThread'
  <2>1. /\ h \in Range(readyList) /\ h \in Threads /\ h # t
        /\ status' = [status EXCEPT ![t] = "READY", ![h] = "RUNNING"]
    BY <1>2, YieldBodyLists
  <2>2. status[h] = "READY" /\ pc[h] \in SwitchedOut
    BY <2>1 DEF SchedulerInv, ControlInv, Placed
  <2>3. pc' = [pc EXCEPT ![t] = p]
    BY <1>2 DEF YieldBody, Goto
  <2>4. /\ status'[t] = "READY" /\ status'[h] = "RUNNING"
        /\ \A u \in Threads : u # t /\ u # h => status'[u] = status[u]
        /\ pc'[t] = p /\ \A u \in Threads : u # t => pc'[u] = pc[u]
    BY <2>1, <2>3 DEF KernelTypeOK
  <2>5. h = currentThread'
    OBVIOUS
  <2> HIDE DEF h
  <2>6. pc'[h] = pc[h] /\ pc[h] \notin {"none", "created", "finished"}
    BY <2>1, <2>2, <2>4 DEF SwitchedOut
  <2>7. ASSUME NEW u \in Threads
        PROVE  Placed(u)'
    <3>1. CASE u = t
      BY <2>1, <2>4, <3>1 DEF SwitchedOut, Placed
    <3>2. CASE u = h
      BY <2>1, <2>2, <2>4, <2>5, <2>6, <3>2 DEF ControlInv, Placed, SwitchedOut
    <3>3. CASE u # t /\ u # h
      <4>1. pc'[u] = pc[u] /\ status'[u] = status[u] /\ waitingOn'[u] = waitingOn[u]
        BY <2>4, <3>3
      <4>2. Placed(u)
        BY DEF ControlInv
      <4> QED
        BY <4>1, <4>2, <3>3 DEF Placed
    <3> QED
      BY <3>1, <3>2, <3>3
  <2> QED
    BY <2>1, <2>5, <2>6, <2>7, ZenonT(60) DEF ControlInv
<1> QED
  BY <1>1, <1>2

(* At the start only the main thread exists.                               *)
LEMMA ControlInit ==
  ASSUME NEW polling \in SUBSET Devices, KernelStart(polling)
  PROVE  ControlInv
  BY KernelAssumption DEF KernelStart, ControlInv, Placed, SwitchedOut

(* Every step leaves each thread where Scheduler::Run can resume it.       *)
LEMMA ControlStep ==
  IInv /\ [AnyStep]_kernelVars => ControlInv'
<1> SUFFICES ASSUME KernelTypeOK, SchedulerInv, ControlInv, DestroySafe, [AnyStep]_kernelVars
             PROVE  ControlInv'
  BY DEF IInv
<1>1. ASSUME NEW t \in Threads, NEW u \in Threads, NewThread(t, u)
     PROVE  ControlInv'
  BY <1>1, KernelAssumption, ZenonT(60) DEF NewThread, At, Goto, schedVars, intVars, semVars, userVars, KernelTypeOK, ControlInv, Placed, SwitchedOut
<1>2. ASSUME NEW t \in Threads, NEW u \in Threads, Fork(t, u)
     PROVE  ControlInv'
  BY <1>2, KernelAssumption, SMTT(60) DEF Fork, At, Goto, schedVars, intVars, semVars, userVars, KernelTypeOK, ControlInv, Placed, SwitchedOut
<1>3. ASSUME NEW t \in Threads, Yield(t)
     PROVE  ControlInv'
  <2>1. /\ YieldBody(t, "yielded", "tick") /\ UNCHANGED waitingOn
        /\ currentThread = t /\ pc[t] = "body"
    BY <1>3 DEF Yield, At
  <2>2. status[t] = "RUNNING" /\ waitingOn[t] = NULL
    BY <2>1, ZenonT(60) DEF SchedulerInv, Idling, ControlInv, Placed
  <2> QED
    BY <2>1, <2>2, YieldBodyControl
<1>4. ASSUME NEW t \in Threads, NEW s \in Semaphores, P(t, s)
     PROVE  ControlInv'
  BY <1>4, KernelAssumption, SMTT(60) DEF P, At, Goto, schedVars, intVars, semVars, userVars, KernelTypeOK, ControlInv, Placed, SwitchedOut
<1>5. ASSUME NEW t \in Threads, NEW s \in Semaphores, V(t, s)
     PROVE  ControlInv'
  BY <1>5, VBodyControl, ZenonT(60) DEF V, SetLevelOn, At, Goto
<1>6. ASSUME NEW t \in Threads, NEW d \in Devices, StartIO(t, d)
     PROVE  ControlInv'
  BY <1>6, KernelAssumption DEF StartIO, At, Goto, schedVars, intVars, semVars, userVars, KernelTypeOK, ControlInv, Placed, SwitchedOut
<1>7. ASSUME NEW t \in Threads, Finish(t)
     PROVE  ControlInv'
  BY <1>7, KernelAssumption, SMTT(60) DEF Finish, At, Goto, schedVars, intVars, semVars, userVars, KernelTypeOK, ControlInv, Placed, SwitchedOut
<1>8. ASSUME NEW t \in Threads, Execute(t)
     PROVE  ControlInv'
  BY <1>8, KernelAssumption, SMTT(60) DEF Execute, At, Goto, schedVars, intVars, semVars, userVars, KernelTypeOK, ControlInv, Placed, SwitchedOut
<1>9. ASSUME NEW t \in Threads, OneInstruction(t)
     PROVE  ControlInv'
  BY <1>9, KernelAssumption, SMTT(60) DEF OneInstruction, At, Goto, schedVars, intVars, semVars, userVars, KernelTypeOK, ControlInv, Placed, SwitchedOut
<1>10. ASSUME NEW t \in Threads, RaiseException(t)
     PROVE  ControlInv'
  BY <1>10, KernelAssumption, SMTT(60) DEF RaiseException, At, Goto, schedVars, intVars, semVars, userVars, KernelTypeOK, ControlInv, Placed, SwitchedOut
<1>11. ASSUME NEW t \in Threads, ReturnFromException(t)
     PROVE  ControlInv'
  BY <1>11, KernelAssumption, SMTT(60) DEF ReturnFromException, At, Goto, schedVars, intVars, semVars, userVars, KernelTypeOK, ControlInv, Placed, SwitchedOut
<1>12. ASSUME NEW t \in Threads, PTest(t)
     PROVE  ControlInv'
  <2>1. /\ currentThread = t /\ pc[t] = "P"
        /\ UNCHANGED currentThread
        /\ \/ /\ pc' = [pc EXCEPT ![t] = "tick"]
              /\ waitingOn' = [waitingOn EXCEPT ![t] = NULL]
              /\ UNCHANGED status
           \/ /\ pc' = [pc EXCEPT ![t] = "sleep"]
              /\ status' = [status EXCEPT ![t] = "BLOCKED"]
              /\ UNCHANGED waitingOn
    BY <1>12 DEF PTest, SetLevelOn, At, Goto
  <2>2. status[t] = "RUNNING" /\ waitingOn[t] # NULL
    BY <2>1 DEF SchedulerInv, Idling, ControlInv, Placed
  <2> QED
    BY <2>1, <2>2, SMTT(60) DEF KernelTypeOK, ControlInv, Placed, SwitchedOut
<1>13. ASSUME NEW t \in Threads, SleepRun(t)
     PROVE  ControlInv'
  <2>1. /\ currentThread = t /\ pc[t] = "sleep"
        /\ \/ waitingOn[t] = NULL /\ pc' = [pc EXCEPT ![t] = "finished"]
           \/ waitingOn[t] # NULL /\ pc' = [pc EXCEPT ![t] = "asleep"]
        /\ UNCHANGED waitingOn
    BY <1>13 DEF SleepRun, At, Goto
  <2>2. PICK h \in Threads :
          /\ currentThread' = h
          /\ status[h] = "READY" /\ (h = t \/ pc[h] \in SwitchedOut)
          /\ status' = [status EXCEPT ![h] = "RUNNING"]
    BY <1>13, SleepRunHead
  <2>3. /\ status'[h] = "RUNNING"
        /\ \A u \in Threads : u # h => status'[u] = status[u]
        /\ \A u \in Threads : u # t => pc'[u] = pc[u]
        /\ pc'[t] = IF waitingOn[t] = NULL THEN "finished" ELSE "asleep"
    BY <2>1, <2>2 DEF KernelTypeOK
  <2>4. waitingOn[t] = NULL => h # t /\ status[t] = "BLOCKED"
    BY <2>1, <2>2 DEF ControlInv, Placed
  <2>5. ASSUME NEW u \in Threads
        PROVE  Placed(u)'
    <3>1. CASE u = t
      BY <2>1, <2>2, <2>3, <2>4, <3>1, SMTT(60) DEF Placed, ControlInv, SwitchedOut
    <3>2. CASE u # t
      BY <2>1, <2>2, <2>3, <3>2, SMTT(60) DEF Placed, ControlInv, SwitchedOut
    <3> QED
      BY <3>1, <3>2
  <2>6. pc'[h] \notin {"none", "created", "finished"}
    BY <2>1, <2>2, <2>3, <2>4 DEF SwitchedOut
  <2> QED
    BY <2>2, <2>5, <2>6 DEF ControlInv
<1>14. ASSUME NEW t \in Threads, EnterIdle(t)
     PROVE  ControlInv'
  BY <1>14, KernelAssumption DEF EnterIdle, At, Goto, schedVars, intVars, semVars, userVars, KernelTypeOK, ControlInv, Placed, SwitchedOut
<1>15. ASSUME NEW t \in Threads, LeaveIdle(t)
     PROVE  ControlInv'
  BY <1>15, KernelAssumption, SMTT(60) DEF LeaveIdle, At, Goto, schedVars, intVars, semVars, userVars, KernelTypeOK, ControlInv, Placed, SwitchedOut
<1>16. ASSUME NEW t \in Threads, NEW d \in Devices, DeviceInterrupt(t, d)
     PROVE  ControlInv'
  BY <1>16, VBodyControl, KernelAssumption DEF DeviceInterrupt, InCheckIfDue, At
<1>17. ASSUME NEW t \in Threads, TimerInterrupt(t)
     PROVE  ControlInv'
  BY <1>17, KernelAssumption DEF TimerInterrupt, At, Goto, schedVars, intVars, semVars, userVars, KernelTypeOK, ControlInv, Placed, SwitchedOut
<1>18. ASSUME NEW t \in Threads, EndTick(t)
     PROVE  ControlInv'
  <2>1. /\ currentThread = t /\ pc[t] \in InTick
        /\ pc' = [pc EXCEPT ![t] = ret[t]]
        /\ UNCHANGED <<currentThread, status, waitingOn>>
    BY <1>18, ZenonT(60) DEF EndTick, At, Goto, InTick, schedVars, intVars, semVars, userVars
  <2>2. /\ pc'[t] = ret[t] /\ ret[t] \in {"body", "user"}
        /\ \A u \in Threads : u # t => pc'[u] = pc[u]
    BY <2>1 DEF KernelTypeOK
  <2>3. status[t] = "RUNNING" /\ waitingOn[t] = NULL
    BY <2>1 DEF InTick, SchedulerInv, Idling, ControlInv, Placed
  <2> QED
    BY <2>1, <2>2, <2>3, ZenonT(60) DEF ControlInv, Placed, SwitchedOut
<1>19. ASSUME NEW t \in Threads, PreemptTick(t)
     PROVE  ControlInv'
  <2>1. /\ YieldBody(t, "preempted", "retick") /\ UNCHANGED waitingOn
        /\ currentThread = t /\ pc[t] \in InTick
    BY <1>19 DEF PreemptTick, At, InTick
  <2>2. status[t] = "RUNNING" /\ waitingOn[t] = NULL
    BY <2>1 DEF InTick, SchedulerInv, Idling, ControlInv, Placed
  <2> QED
    BY <2>1, <2>2, YieldBodyControl
<1>20. ASSUME NEW t \in Threads, SwitchedIn(t)
     PROVE  ControlInv'
  <2>1. /\ currentThread = t /\ pc[t] \in SwitchedOut
        /\ UNCHANGED <<currentThread, waitingOn>>
    BY <1>20 DEF SwitchedIn
  <2>2. toBeDestroyed # NULL => waitingOn[toBeDestroyed] = NULL
    BY ZenonT(60) DEF DestroySafe, ControlInv, Placed, KernelTypeOK
  <2>3. status[t] = "RUNNING"
    BY <2>1 DEF SchedulerInv, Idling, SwitchedOut
  <2>4. pc'[t] \in {"tick", "retick", "P"} /\ Placed(t)'
    BY <1>20, <2>1, <2>3, SwitchedInEffect DEF Placed, ControlInv, SwitchedOut
  <2>5. ASSUME NEW u \in Threads, u # t
        PROVE  Placed(u)'
    <3>1. CASE u # toBeDestroyed
      <4>1. pc'[u] = pc[u] /\ status'[u] = status[u]
        BY <1>20, <2>5, <3>1, SwitchedInEffect
      <4> QED
        BY <2>1, <4>1 DEF Placed, ControlInv
    <3>2. CASE u = toBeDestroyed
      <4>1. pc'[u] = "none" /\ status'[u] = "FREE"
        BY <1>20, <2>5, <3>2, SwitchedInEffect
      <4> QED
        BY <2>1, <2>2, <3>2, <4>1, KernelAssumption DEF Placed
    <3> QED
      BY <3>1, <3>2
  <2> QED
    BY <2>1, <2>4, <2>5 DEF ControlInv
<1>21. CASE UNCHANGED kernelVars
  BY <1>21 DEF kernelVars, schedVars, intVars, semVars, userVars, ControlInv, Placed
<1> QED
  BY <1>1, <1>2, <1>3, <1>4, <1>5, <1>6, <1>7, <1>8, <1>9, <1>10, <1>11,
     <1>12, <1>13, <1>14, <1>15, <1>16, <1>17, <1>18, <1>19, <1>20,
     <1>21 DEF AnyStep, AnyCall, KernelStep

(* The four hold when the kernel starts, whatever devices are polling.     *)
LEMMA IInvStart ==
  ASSUME NEW polling \in SUBSET Devices, KernelStart(polling)
  PROVE  IInv
  BY TypeInit, SchedulerInit, ControlInit, DestroyInit DEF IInv

(* Every step of every client of the kernel keeps the four.                *)
LEMMA IInvStep == IInv /\ [AnyStep]_kernelVars => IInv'
  BY TypeStep, SchedulerStep, ControlStep, DestroyStep DEF IInv

(* The four hold in every state of the kernel.                             *)
LEMMA IInvInductive == KernelSpec => []IInv
<1>1. KernelInit => IInv
  BY IInvStart DEF KernelInit
<1> QED
  BY <1>1, IInvStep, NextIsAnyStep, PTL DEF KernelSpec

(* Every variable of the kernel keeps its type; in particular no value of  *)
(* a semaphore is negative (Semaphore::P, V).                              *)
THEOREM TypeCorrect == KernelSpec => []KernelTypeOK
<1>1. IInv => KernelTypeOK
  BY DEF IInv
<1> QED
  BY <1>1, IInvInductive, PTL

(* The ready list holds exactly the READY threads and each semaphore's     *)
(* queue exactly the threads BLOCKED in its P, once each, and only the     *)
(* current thread is RUNNING (Scheduler, Semaphore, Thread::Sleep).        *)
THEOREM SchedulerCorrect == KernelSpec => []SchedulerInv
<1>1. IInv => SchedulerInv
  BY DEF IInv
<1> QED
  BY <1>1, IInvInductive, PTL

(* A thread that does not run has stopped where Scheduler::Run can resume  *)
(* it: before its first step, after SWITCH, or asleep in P.                *)
THEOREM ControlCorrect == KernelSpec => []ControlInv
<1>1. IInv => ControlInv
  BY DEF IInv
<1> QED
  BY <1>1, IInvInductive, PTL

(* A finished thread is deleted by the next thread that runs, and never    *)
(* while it is the current one (Thread::Finish, CheckToBeDestroyed).       *)
THEOREM DestroyCorrect == KernelSpec => []DestroySafe
<1>1. IInv => DestroySafe
  BY DEF IInv
<1> QED
  BY <1>1, IInvInductive, PTL
-----------------------------------------------------------------------------
(***************************************************************************)
(* What a client of the kernel sees of its steps: the values of the        *)
(* semaphores, the threads that are in P, and the devices that will        *)
(* interrupt.                                                              *)
(***************************************************************************)
(* A thread that executes kernel code with interrupts on is in no P.       *)
LEMMA BodyNotInP ==
  ASSUME IInv, NEW t \in Threads, At(t, "body")
  PROVE  waitingOn[t] = NULL
  BY SMTT(20) DEF IInv, ControlInv, Placed, At

(* Inside the kernel a semaphore changes only when a P takes a unit of it. *)
LEMMA KernelStepEffect ==
  ASSUME IInv, NEW t \in Threads, KernelStep(t)
  PROVE  /\ UNCHANGED pending
         /\ \/ UNCHANGED <<value, waitingOn>>
            \/ \E s \in Semaphores :
                 /\ waitingOn[t] = s /\ value[s] > 0
                 /\ value' = [value EXCEPT ![s] = @ - 1]
                 /\ waitingOn' = [waitingOn EXCEPT ![t] = NULL]
<1>1. CASE PTest(t)
  <2>1. waitingOn[t] \in Semaphores
    BY <1>1, SMTT(20) DEF PTest, At, IInv, KernelTypeOK, ControlInv, Placed
  <2> QED
    BY <1>1, <2>1 DEF PTest
<1>2. CASE ~ PTest(t)
  BY <1>2 DEF KernelStep, SleepRun, EnterIdle, LeaveIdle, TimerInterrupt, EndTick,
    PreemptTick, SwitchedIn, intVars, semVars
<1> QED
  BY <1>1, <1>2
=============================================================================

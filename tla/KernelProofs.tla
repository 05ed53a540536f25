---------------------------- MODULE KernelProofs ----------------------------
(***************************************************************************)
(* Proofs that rest on the invariant of the kernel's lists and threads     *)
(* (ThreadsProofs.tla), for any number of threads, semaphores and devices: *)
(* the variables of the machine that all threads share fit the code that   *)
(* is executing; no wake-up of a semaphore is lost; and the synchronous    *)
(* disk of SynchDisk.tla, which is built on the kernel's semaphores, makes *)
(* one request at a time and loses no interrupt.                           *)
(***************************************************************************)
EXTENDS SynchDisk, ThreadsProofs, FiniteSetTheorems

(* A step that names no prover is for Zenon.                               *)
USE ZenonT(40)

-----------------------------------------------------------------------------
(***************************************************************************)
(* The variables of the machine that all threads share (the interrupt      *)
(* level, the time slice, the mode and the user registers) always fit the  *)
(* code that is executing.                                                 *)
(*                                                                         *)
(* A thread comes back to OneTick, possibly long after it was preempted    *)
(* there, with the mode it keeps in the local oldStatus; so the induction  *)
(* needs that what is kept is the mode of the code OneTick returns to      *)
(* (TickInv).  The registers of a thread that is switched out are in its   *)
(* Thread object, also between the SWITCH to it and its first step, and a  *)
(* thread that has not started or is finishing has no address space        *)
(* (ContextInv).                                                           *)
(***************************************************************************)
(* The mode of the code a OneTick returns to. *)
ModeOf(place) == IF place = "user" THEN "UserMode" ELSE "SystemMode"

(* The inductive invariant of the shared variables.                        *)
TickInv ==
  /\ TickSafe
  /\ pc[currentThread] = "tick" => machineStatus = ModeOf(ret[currentThread])
  /\ \A t \in Threads :
       /\ pc[t] \in {"retick", "preempted"} => oldStatus[t] = ModeOf(ret[t])
       /\ pc[t] \in {"begin", "yielded"} => ret[t] = "body"

(* The inductive invariant of the user registers.                          *)
ContextInv ==
  /\ UserContextSafe
  /\ \A t \in Threads :
       /\ space[t] /\ pc[t] \in SwitchedOut => saved[t] = t
       /\ pc[t] \in {"none", "created", "begin", "finished"} => ~ space[t]
       /\ pc[t] \in {"sleep", "idle"} /\ waitingOn[t] = NULL => ~ space[t]

(* Thread::Yield returns at once or switches to a thread that is stopped   *)
(* in Scheduler::Run, or has not started.                                  *)
LEMMA YieldSwitch ==
  ASSUME IInv, NEW t \in Threads, NEW p, NEW q, YieldBody(t, p, q),
         currentThread = t, pc[t] \in {"body"} \cup InTick
  PROVE  \/ /\ currentThread' = t /\ pc' = [pc EXCEPT ![t] = q]
            /\ UNCHANGED <<space, loaded, saved>>
         \/ /\ currentThread' \in Threads /\ currentThread' # t
            /\ pc[currentThread'] \in SwitchedOut
            /\ pc' = [pc EXCEPT ![t] = p] /\ SaveState(t)
<1>1. CASE readyList = <<>>
  BY <1>1 DEF YieldBody, Goto, schedVars, userVars
<1>2. CASE readyList # <<>>
  <2>1. KernelTypeOK /\ SchedulerInv /\ ControlInv
    BY DEF IInv
  <2>2. status[t] = "RUNNING"
    BY <2>1 DEF SchedulerInv, Idling, InTick
  <2>3. /\ currentThread' \in Range(readyList) /\ currentThread' \in Threads
        /\ currentThread' # t
    BY <1>2, <2>1, <2>2, YieldBodyLists
  <2>4. pc[currentThread'] \in SwitchedOut
    BY <2>1, <2>3 DEF SchedulerInv, ControlInv, Placed
  <2> QED
    BY <1>2, <2>3, <2>4 DEF YieldBody, Goto
<1> QED
  BY <1>1, <1>2

(* Thread::Sleep switches to a ready thread, which may be itself.          *)
LEMMA SleepSwitch ==
  ASSUME IInv, NEW t \in Threads, SleepRun(t)
  PROVE  /\ currentThread = t /\ pc[t] = "sleep"
         /\ currentThread' \in Threads
         /\ currentThread' = t \/ pc[currentThread'] \in SwitchedOut
         /\ \/ /\ waitingOn[t] = NULL /\ currentThread' # t
               /\ pc' = [pc EXCEPT ![t] = "finished"]
            \/ pc' = [pc EXCEPT ![t] = "asleep"]
<1>1. KernelTypeOK /\ SchedulerInv /\ ControlInv
  BY DEF IInv
<1>2. PICK h \in Threads : /\ currentThread' = h
                           /\ status[h] = "READY" /\ (h = t \/ pc[h] \in SwitchedOut)
  BY <1>1, SleepRunHead
<1>3. At(t, "sleep") /\ (waitingOn[t] = NULL => status[t] = "BLOCKED")
  BY <1>1 DEF SleepRun, At, ControlInv, Placed
<1> QED
  BY <1>2, <1>3 DEF SleepRun, At, Goto

(* When Initialize calls Enable, the machine is in the tick of main.       *)
LEMMA TickInit ==
  ASSUME NEW polling \in SUBSET Devices, KernelStart(polling)
  PROVE  TickInv
  BY KernelAssumption DEF KernelStart, TickInv, TickSafe,
    LevelSafe, SliceSafe, ModeSafe, ModeOf, SwitchedOut, InTick

(* Every step leaves the level, the time slice and the mode right for the  *)
(* thread that runs after it.                                              *)
LEMMA TickStep == IInv /\ TickInv /\ [AnyStep]_kernelVars => TickInv'
<1> SUFFICES ASSUME IInv, TickInv, [AnyStep]_kernelVars PROVE TickInv'
  OBVIOUS
<1> USE DEF At, Goto, schedVars, intVars, semVars, userVars
<1>1. ASSUME NEW t \in Threads, NEW u \in Threads, NewThread(t, u)
      PROVE  TickInv'
  <2>1. pc[u] = "none" /\ currentThread = t /\ pc[t] = "body" /\ pc' = [pc EXCEPT ![u] = "created"]
    BY <1>1 DEF NewThread, IInv, ControlInv, Placed
  <2> QED
    BY <1>1, <2>1 DEF NewThread, TickInv, TickSafe, LevelSafe, SliceSafe, ModeSafe, IInv, KernelTypeOK,
      SwitchedOut, InTick
<1>2. ASSUME NEW t \in Threads, NEW u \in Threads, Fork(t, u)
      PROVE  TickInv'
  BY <1>2 DEF Fork, TickInv, TickSafe, LevelSafe, SliceSafe, ModeSafe, ModeOf,
    SwitchedOut, InTick, IInv, KernelTypeOK
<1>3. ASSUME NEW t \in Threads, Yield(t)
      PROVE  TickInv'
  <2>1. /\ YieldBody(t, "yielded", "tick") /\ currentThread = t /\ pc[t] = "body"
        /\ level' = "IntOff" /\ ret' = [ret EXCEPT ![t] = "body"]
        /\ UNCHANGED <<machineStatus, yieldOnReturn, oldStatus>>
    BY <1>3 DEF Yield
  <2>2. \/ currentThread' = t /\ pc' = [pc EXCEPT ![t] = "tick"]
        \/ /\ currentThread' \in Threads /\ currentThread' # t
           /\ pc[currentThread'] \in SwitchedOut
           /\ pc' = [pc EXCEPT ![t] = "yielded"]
    BY <2>1, YieldSwitch
  <2> QED
    BY <2>1, <2>2, SMTT(30) DEF TickInv, TickSafe, LevelSafe, SliceSafe, ModeSafe, ModeOf,
      SwitchedOut, InTick, IInv, KernelTypeOK
<1>4. ASSUME NEW t \in Threads, NEW s \in Semaphores, P(t, s)
      PROVE  TickInv'
  BY <1>4 DEF P, TickInv, TickSafe, LevelSafe, SliceSafe, ModeSafe, ModeOf,
    SwitchedOut, InTick, IInv, KernelTypeOK
<1>5. ASSUME NEW t \in Threads, NEW s \in Semaphores, V(t, s)
      PROVE  TickInv'
  BY <1>5 DEF V, VBody, SetLevelOn, TickInv, TickSafe, LevelSafe, SliceSafe, ModeSafe, ModeOf,
    SwitchedOut, InTick, IInv, KernelTypeOK
<1>6. ASSUME NEW t \in Threads, NEW d \in Devices, StartIO(t, d)
      PROVE  TickInv'
  BY <1>6 DEF StartIO, TickInv, TickSafe, LevelSafe, SliceSafe, ModeSafe, ModeOf,
    SwitchedOut, InTick, IInv, KernelTypeOK
<1>7. ASSUME NEW t \in Threads, Finish(t)
      PROVE  TickInv'
  BY <1>7 DEF Finish, TickInv, TickSafe, LevelSafe, SliceSafe, ModeSafe, ModeOf,
    SwitchedOut, InTick, IInv, KernelTypeOK
<1>8. ASSUME NEW t \in Threads, Execute(t)
      PROVE  TickInv'
  BY <1>8 DEF Execute, TickInv, TickSafe, LevelSafe, SliceSafe, ModeSafe, ModeOf,
    SwitchedOut, InTick, IInv, KernelTypeOK
<1>9. ASSUME NEW t \in Threads, OneInstruction(t)
      PROVE  TickInv'
  BY <1>9 DEF OneInstruction, TickInv, TickSafe, LevelSafe, SliceSafe, ModeSafe, ModeOf,
    SwitchedOut, InTick, IInv, KernelTypeOK
<1>10. ASSUME NEW t \in Threads, RaiseException(t)
      PROVE  TickInv'
  BY <1>10 DEF RaiseException, TickInv, TickSafe, LevelSafe, SliceSafe, ModeSafe, ModeOf,
    SwitchedOut, InTick, IInv, KernelTypeOK
<1>11. ASSUME NEW t \in Threads, ReturnFromException(t)
      PROVE  TickInv'
  BY <1>11 DEF ReturnFromException, TickInv, TickSafe, LevelSafe, SliceSafe, ModeSafe, ModeOf,
    SwitchedOut, InTick, IInv, KernelTypeOK
<1>12. ASSUME NEW t \in Threads, PTest(t)
      PROVE  TickInv'
  BY <1>12, SMTT(30) DEF PTest, SetLevelOn, TickInv, TickSafe, LevelSafe, SliceSafe, ModeSafe, ModeOf,
    SwitchedOut, InTick, IInv, KernelTypeOK
<1>13. ASSUME NEW t \in Threads, SleepRun(t)
      PROVE  TickInv'
  <2>1. UNCHANGED <<level, machineStatus, yieldOnReturn, ret, oldStatus>>
    BY <1>13 DEF SleepRun
  <2>2. /\ currentThread = t /\ pc[t] = "sleep"
        /\ pc'[t] \in {"asleep", "finished"} /\ \A u \in Threads : u # t => pc'[u] = pc[u]
        /\ currentThread' \in Threads /\ pc'[currentThread'] \in SwitchedOut
    BY <1>13, SleepSwitch, SMTT(30) DEF SwitchedOut, IInv, KernelTypeOK
  <2> QED
    BY <2>1, <2>2 DEF TickInv, TickSafe, LevelSafe, SliceSafe, ModeSafe, SwitchedOut, InTick
<1>14. ASSUME NEW t \in Threads, EnterIdle(t)
      PROVE  TickInv'
  BY <1>14 DEF EnterIdle, TickInv, TickSafe, LevelSafe, SliceSafe, ModeSafe, ModeOf,
    SwitchedOut, InTick, IInv, KernelTypeOK
<1>15. ASSUME NEW t \in Threads, LeaveIdle(t)
      PROVE  TickInv'
  BY <1>15 DEF LeaveIdle, TickInv, TickSafe, LevelSafe, SliceSafe, ModeSafe, ModeOf,
    SwitchedOut, InTick, IInv, KernelTypeOK
<1>16. ASSUME NEW t \in Threads, NEW d \in Devices, DeviceInterrupt(t, d)
      PROVE  TickInv'
  BY <1>16 DEF DeviceInterrupt, VBody, InCheckIfDue, TickInv, TickSafe, LevelSafe, SliceSafe, ModeSafe, ModeOf,
    SwitchedOut, InTick, IInv, KernelTypeOK
<1>17. ASSUME NEW t \in Threads, TimerInterrupt(t)
      PROVE  TickInv'
  BY <1>17 DEF TimerInterrupt, InCheckIfDue, TickInv, TickSafe, LevelSafe, SliceSafe, ModeSafe, ModeOf,
    SwitchedOut, InTick, IInv, KernelTypeOK
<1>18. ASSUME NEW t \in Threads, EndTick(t)
      PROVE  TickInv'
  BY <1>18 DEF EndTick, TickInv, TickSafe, LevelSafe, SliceSafe, ModeSafe, ModeOf,
    SwitchedOut, InTick, IInv, KernelTypeOK
<1>19. ASSUME NEW t \in Threads, PreemptTick(t)
      PROVE  TickInv'
  <2>1. /\ YieldBody(t, "preempted", "retick") /\ currentThread = t /\ pc[t] \in InTick
        /\ yieldOnReturn' = FALSE /\ machineStatus' = "SystemMode"
        /\ oldStatus' = IF pc[t] = "tick"
                          THEN [oldStatus EXCEPT ![t] = machineStatus] ELSE oldStatus
        /\ UNCHANGED <<level, ret>>
    BY <1>19 DEF PreemptTick, InTick
  <2>2. \/ currentThread' = t /\ pc' = [pc EXCEPT ![t] = "retick"]
        \/ /\ currentThread' \in Threads /\ currentThread' # t
           /\ pc[currentThread'] \in SwitchedOut
           /\ pc' = [pc EXCEPT ![t] = "preempted"]
    BY <2>1, YieldSwitch
  <2>3. oldStatus'[t] = ModeOf(ret[t]) /\ \A u \in Threads : u # t => oldStatus'[u] = oldStatus[u]
    BY <2>1 DEF TickInv, InTick, IInv, KernelTypeOK
  <2> QED
    BY <2>1, <2>2, <2>3, SMTT(30) DEF TickInv, TickSafe, LevelSafe, SliceSafe, ModeSafe,
      SwitchedOut, InTick, IInv, KernelTypeOK
<1>20. ASSUME NEW t \in Threads, SwitchedIn(t)
      PROVE  TickInv'
  BY <1>20, SMTT(30) DEF SwitchedIn, TickInv, TickSafe, LevelSafe, SliceSafe, ModeSafe, ModeOf,
    SwitchedOut, InTick, IInv, KernelTypeOK
<1>21. CASE UNCHANGED kernelVars
  BY <1>21 DEF kernelVars, TickInv, TickSafe, LevelSafe, SliceSafe, ModeSafe
<1> QED
  BY <1>1, <1>2, <1>3, <1>4, <1>5, <1>6, <1>7, <1>8, <1>9, <1>10, <1>11,
     <1>12, <1>13, <1>14, <1>15, <1>16, <1>17, <1>18, <1>19, <1>20,
     <1>21 DEF AnyStep, AnyCall, KernelStep

(* At the start no thread has an address space.                            *)
LEMMA ContextInit ==
  ASSUME NEW polling \in SUBSET Devices, KernelStart(polling)
  PROVE  ContextInv
  BY KernelAssumption DEF KernelStart, ContextInv, UserContextSafe

(* Every step leaves the registers of each user program in the machine or  *)
(* in its thread.                                                          *)
LEMMA ContextStep == IInv /\ ContextInv /\ [AnyStep]_kernelVars => ContextInv'
<1> SUFFICES ASSUME IInv, ContextInv, [AnyStep]_kernelVars PROVE ContextInv'
  OBVIOUS
<1> USE DEF At, Goto, schedVars, intVars, semVars, userVars
<1>1. ASSUME NEW t \in Threads, NEW u \in Threads, NewThread(t, u)
      PROVE  ContextInv'
  <2>1. pc[u] = "none" /\ currentThread = t /\ pc[t] = "body" /\ pc' = [pc EXCEPT ![u] = "created"]
    BY <1>1 DEF NewThread, IInv, ControlInv, Placed
  <2> QED
    BY <1>1, <2>1, SMTT(30) DEF NewThread, ContextInv, UserContextSafe, IInv, KernelTypeOK,
      SwitchedOut
<1>2. ASSUME NEW t \in Threads, NEW u \in Threads, Fork(t, u)
      PROVE  ContextInv'
  <2>1. /\ pc[u] = "created" /\ currentThread = t /\ pc[t] = "body"
        /\ pc' = [pc EXCEPT ![u] = "begin", ![t] = "tick"]
        /\ UNCHANGED <<currentThread, waitingOn, space, loaded, saved>>
    BY <1>2 DEF Fork, IInv, ControlInv, Placed
  <2>2. /\ u # t /\ pc'[u] = "begin" /\ pc'[t] = "tick" 
        /\ \A v \in Threads : v # t /\ v # u => pc'[v] = pc[v]
    BY <2>1 DEF IInv, KernelTypeOK
  <2>3. ~ space[u] /\ (space[t] => loaded = t)
    BY <2>1 DEF ContextInv, UserContextSafe, SwitchedOut
  <2>4. UserContextSafe'
    BY <2>1, <2>2, <2>3 DEF ContextInv, UserContextSafe, SwitchedOut
  <2>5. ASSUME NEW v \in Threads
        PROVE  /\ space'[v] /\ pc'[v] \in SwitchedOut => saved'[v] = v
               /\ pc'[v] \in {"none", "created", "begin", "finished"} => ~ space'[v]
               /\ pc'[v] \in {"sleep", "idle"} /\ waitingOn'[v] = NULL => ~ space'[v]
    <3>1. CASE v = t \/ v = u
      BY <2>1, <2>2, <2>3, <3>1 DEF SwitchedOut
    <3>2. CASE v # t /\ v # u
      BY <2>1, <2>2, <3>2 DEF ContextInv
    <3> QED
      BY <3>1, <3>2
  <2> QED
    BY <2>4, <2>5 DEF ContextInv
<1>3. ASSUME NEW t \in Threads, Yield(t)
      PROVE  ContextInv'
  <2>1. /\ YieldBody(t, "yielded", "tick") /\ currentThread = t
        /\ pc[t] \in {"body"} \cup InTick /\ UNCHANGED waitingOn
    BY <1>3 DEF Yield, InTick
  <2>2. \/ /\ currentThread' = t /\ pc' = [pc EXCEPT ![t] = "tick"]
           /\ UNCHANGED <<space, loaded, saved>>
        \/ /\ currentThread' \in Threads /\ currentThread' # t
           /\ pc[currentThread'] \in SwitchedOut
           /\ pc' = [pc EXCEPT ![t] = "yielded"] /\ SaveState(t)
    BY <2>1, YieldSwitch
  <2>3. /\ UNCHANGED <<space, loaded>>
        /\ \A u \in Threads : u # t => saved'[u] = saved[u] /\ pc'[u] = pc[u]
        /\ currentThread' # t /\ space[t] => saved'[t] = t
    BY <2>1, <2>2, SMTT(30) DEF SaveState, ContextInv, UserContextSafe,
      SwitchedOut, InTick, IInv, KernelTypeOK
  <2>4. /\ currentThread' = t => pc'[t] = "tick"
        /\ currentThread' # t => /\ currentThread' \in Threads
                                 /\ pc'[t] = "yielded" /\ pc'[currentThread'] \in SwitchedOut
    BY <2>2 DEF IInv, KernelTypeOK
  <2>5. UserContextSafe'
    BY <2>1, <2>3, <2>4 DEF ContextInv, UserContextSafe, SwitchedOut, InTick
  <2> QED
    BY <2>1, <2>3, <2>4, <2>5 DEF ContextInv, SwitchedOut
<1>4. ASSUME NEW t \in Threads, NEW s \in Semaphores, P(t, s)
      PROVE  ContextInv'
  BY <1>4, KernelAssumption DEF P, ContextInv, UserContextSafe,
    SwitchedOut, InTick, IInv, KernelTypeOK
<1>5. ASSUME NEW t \in Threads, NEW s \in Semaphores, V(t, s)
      PROVE  ContextInv'
  BY <1>5, KernelAssumption DEF V, VBody, SetLevelOn, ContextInv, UserContextSafe,
    SwitchedOut, InTick, IInv, KernelTypeOK
<1>6. ASSUME NEW t \in Threads, NEW d \in Devices, StartIO(t, d)
      PROVE  ContextInv'
  BY <1>6, KernelAssumption DEF StartIO, ContextInv, UserContextSafe,
    SwitchedOut, InTick, IInv, KernelTypeOK
<1>7. ASSUME NEW t \in Threads, Finish(t)
      PROVE  ContextInv'
  BY <1>7, KernelAssumption DEF Finish, ContextInv, UserContextSafe,
    SwitchedOut, InTick, IInv, KernelTypeOK
<1>8. ASSUME NEW t \in Threads, Execute(t)
      PROVE  ContextInv'
  BY <1>8, KernelAssumption DEF Execute, ContextInv, UserContextSafe,
    SwitchedOut, InTick, IInv, KernelTypeOK
<1>9. ASSUME NEW t \in Threads, OneInstruction(t)
      PROVE  ContextInv'
  BY <1>9, KernelAssumption DEF OneInstruction, ContextInv, UserContextSafe,
    SwitchedOut, InTick, IInv, KernelTypeOK
<1>10. ASSUME NEW t \in Threads, RaiseException(t)
      PROVE  ContextInv'
  BY <1>10, KernelAssumption DEF RaiseException, ContextInv, UserContextSafe,
    SwitchedOut, InTick, IInv, KernelTypeOK
<1>11. ASSUME NEW t \in Threads, ReturnFromException(t)
      PROVE  ContextInv'
  BY <1>11, KernelAssumption DEF ReturnFromException, ContextInv, UserContextSafe,
    SwitchedOut, InTick, IInv, KernelTypeOK
<1>12. ASSUME NEW t \in Threads, PTest(t)
      PROVE  ContextInv'
  <2>1. /\ currentThread = t /\ pc[t] = "P" /\ waitingOn[t] # NULL
        /\ \/ pc' = [pc EXCEPT ![t] = "tick"] /\ waitingOn' = [waitingOn EXCEPT ![t] = NULL]
           \/ pc' = [pc EXCEPT ![t] = "sleep"] /\ UNCHANGED waitingOn
        /\ UNCHANGED <<currentThread, space, loaded, saved>>
    BY <1>12 DEF PTest, SetLevelOn, IInv, ControlInv, Placed
  <2> QED
    BY <2>1, SMTT(30) DEF ContextInv, UserContextSafe, SwitchedOut, IInv, KernelTypeOK
<1>13. ASSUME NEW t \in Threads, SleepRun(t)
      PROVE  ContextInv'
  <2>1. SaveState(t) /\ UNCHANGED waitingOn
    BY <1>13 DEF SleepRun
  <2>2. /\ currentThread = t /\ pc[t] = "sleep"
        /\ currentThread' \in Threads
        /\ currentThread' = t \/ pc[currentThread'] \in SwitchedOut
        /\ \/ /\ waitingOn[t] = NULL /\ currentThread' # t
              /\ pc' = [pc EXCEPT ![t] = "finished"]
           \/ pc' = [pc EXCEPT ![t] = "asleep"]
    BY <1>13, SleepSwitch
  <2>3. /\ UNCHANGED <<space, loaded>>
        /\ \A u \in Threads : u # t => saved'[u] = saved[u] /\ pc'[u] = pc[u]
        /\ space[t] => saved'[t] = t
    BY <2>1, <2>2 DEF SaveState, ContextInv, UserContextSafe,
      SwitchedOut, IInv, KernelTypeOK
  <2>4. pc'[t] = "asleep" \/ (pc'[t] = "finished" /\ ~ space[t])
    BY <2>2, SMTT(20) DEF ContextInv, IInv, KernelTypeOK
  <2> QED
    BY <2>1, <2>2, <2>3, <2>4 DEF ContextInv, UserContextSafe, SwitchedOut
<1>14. ASSUME NEW t \in Threads, EnterIdle(t)
      PROVE  ContextInv'
  BY <1>14, KernelAssumption DEF EnterIdle, ContextInv, UserContextSafe,
    SwitchedOut, InTick, IInv, KernelTypeOK
<1>15. ASSUME NEW t \in Threads, LeaveIdle(t)
      PROVE  ContextInv'
  BY <1>15, KernelAssumption DEF LeaveIdle, ContextInv, UserContextSafe,
    SwitchedOut, InTick, IInv, KernelTypeOK
<1>16. ASSUME NEW t \in Threads, NEW d \in Devices, DeviceInterrupt(t, d)
      PROVE  ContextInv'
  BY <1>16, KernelAssumption DEF DeviceInterrupt, VBody, InCheckIfDue, ContextInv, UserContextSafe,
    SwitchedOut, InTick, IInv, KernelTypeOK
<1>17. ASSUME NEW t \in Threads, TimerInterrupt(t)
      PROVE  ContextInv'
  BY <1>17, KernelAssumption DEF TimerInterrupt, InCheckIfDue, ContextInv, UserContextSafe,
    SwitchedOut, InTick, IInv, KernelTypeOK
<1>18. ASSUME NEW t \in Threads, EndTick(t)
      PROVE  ContextInv'
  <2>1. /\ currentThread = t /\ pc[t] \in InTick /\ pc' = [pc EXCEPT ![t] = ret[t]]
        /\ UNCHANGED <<currentThread, waitingOn, space, loaded, saved>>
    BY <1>18 DEF EndTick, InTick
  <2>2. pc'[t] \in {"body", "user"} /\ \A u \in Threads : u # t => pc'[u] = pc[u]
    BY <2>1 DEF IInv, KernelTypeOK
  <2> QED
    BY <2>1, <2>2 DEF ContextInv, UserContextSafe, SwitchedOut, InTick
<1>19. ASSUME NEW t \in Threads, PreemptTick(t)
      PROVE  ContextInv'
  <2>1. /\ YieldBody(t, "preempted", "retick") /\ currentThread = t
        /\ pc[t] \in {"body"} \cup InTick /\ UNCHANGED waitingOn
    BY <1>19 DEF PreemptTick, InTick
  <2>2. \/ /\ currentThread' = t /\ pc' = [pc EXCEPT ![t] = "retick"]
           /\ UNCHANGED <<space, loaded, saved>>
        \/ /\ currentThread' \in Threads /\ currentThread' # t
           /\ pc[currentThread'] \in SwitchedOut
           /\ pc' = [pc EXCEPT ![t] = "preempted"] /\ SaveState(t)
    BY <2>1, YieldSwitch
  <2>3. /\ UNCHANGED <<space, loaded>>
        /\ \A u \in Threads : u # t => saved'[u] = saved[u] /\ pc'[u] = pc[u]
        /\ currentThread' # t /\ space[t] => saved'[t] = t
    BY <2>1, <2>2, SMTT(30) DEF SaveState, ContextInv, UserContextSafe,
      SwitchedOut, InTick, IInv, KernelTypeOK
  <2>4. /\ currentThread' = t => pc'[t] = "retick"
        /\ currentThread' # t => /\ currentThread' \in Threads
                                 /\ pc'[t] = "preempted" /\ pc'[currentThread'] \in SwitchedOut
    BY <2>2 DEF IInv, KernelTypeOK
  <2>5. UserContextSafe'
    BY <2>1, <2>3, <2>4 DEF ContextInv, UserContextSafe, SwitchedOut, InTick
  <2> QED
    BY <2>1, <2>3, <2>4, <2>5 DEF ContextInv, SwitchedOut
<1>20. ASSUME NEW t \in Threads, SwitchedIn(t)
      PROVE  ContextInv'
  <2>1. /\ currentThread = t /\ pc[t] \in SwitchedOut
        /\ loaded' = IF space[t] /\ pc[t] # "begin" THEN saved[t] ELSE loaded
        /\ UNCHANGED <<currentThread, waitingOn, space, saved>>
    BY <1>20 DEF SwitchedIn
  <2>2. space[t] => loaded' = t
    BY <2>1 DEF ContextInv
  <2>3. pc'[t] \in {"tick", "retick", "P"}
    BY <1>20, SwitchedInEffect DEF IInv
  <2>4. ASSUME NEW u \in Threads, u # t
        PROVE  pc'[u] = pc[u] \/ (pc[u] = "finished" /\ pc'[u] = "none")
    BY <1>20, <2>4 DEF SwitchedIn, IInv, DestroySafe, KernelTypeOK
  <2>5. \A u \in Threads : /\ space[u] /\ pc'[u] \in SwitchedOut => saved[u] = u
                           /\ pc'[u] \in {"none", "created", "begin", "finished"} => ~ space[u]
                           /\ pc'[u] \in {"sleep", "idle"} /\ waitingOn[u] = NULL => ~ space[u]
    BY <2>3, <2>4 DEF ContextInv, SwitchedOut
  <2> QED
    BY <2>1, <2>2, <2>3, <2>5 DEF ContextInv, UserContextSafe
<1>21. CASE UNCHANGED kernelVars
  BY <1>21 DEF kernelVars, ContextInv, UserContextSafe
<1> QED
  BY <1>1, <1>2, <1>3, <1>4, <1>5, <1>6, <1>7, <1>8, <1>9, <1>10, <1>11,
     <1>12, <1>13, <1>14, <1>15, <1>16, <1>17, <1>18, <1>19, <1>20,
     <1>21 DEF AnyStep, AnyCall, KernelStep

(* The interrupt level, the time slice and Interrupt::status always fit    *)
(* the code that is executing, however OneTick, Yield and Sleep of several *)
(* threads are nested (Interrupt::OneTick, Thread::Yield, Thread::Sleep).  *)
THEOREM TickCorrect == KernelSpec => []TickSafe
<1>1. IInv /\ TickInv /\ [AnyStep]_kernelVars => TickInv'
  BY TickStep
<1>3. KernelInit => TickInv
  BY TickInit DEF KernelInit
<1>2. TickInv => TickSafe
  BY DEF TickInv
<1> QED
  BY <1>1, <1>2, <1>3, NextIsAnyStep, IInvInductive, PTL DEF KernelSpec

(* The machine holds the registers of the thread that executes user code,  *)
(* whatever threads ran in between (Scheduler::Run).                       *)
THEOREM UserContextCorrect == KernelSpec => []UserContextSafe
<1>1. IInv /\ ContextInv /\ [AnyStep]_kernelVars => ContextInv'
  BY ContextStep
<1>3. KernelInit => ContextInv
  BY ContextInit DEF KernelInit
<1>2. ContextInv => UserContextSafe
  BY DEF ContextInv
<1> QED
  BY <1>1, <1>2, <1>3, NextIsAnyStep, IInvInductive, PTL DEF KernelSpec

-----------------------------------------------------------------------------
(***************************************************************************)
(* No wake-up of a semaphore is ever lost.                                 *)
(*                                                                         *)
(* NoLostWakeup counts the threads that are on their way to the loop test  *)
(* of Semaphore::P.  Relative to IInv, the invariant of the scheduler, it  *)
(* is inductive: V adds one to the value and, when somebody waits, one     *)
(* thread to those that will test it; PTest takes one away from both; a    *)
(* thread joins the queue only when the value is zero; and no other step   *)
(* makes a thread that is in P sleep or wake.                              *)
(***************************************************************************)
(* The threads that will test a semaphore are finitely many.               *)
LEMMA TestingFinite ==
  ASSUME NEW s
  PROVE  IsFiniteSet(Testing(s)) /\ Cardinality(Testing(s)) \in Nat
<1>1. Testing(s) \in SUBSET Threads
  BY DEF Testing
<1>2. IsFiniteSet(Testing(s))
  BY <1>1, FS_Subset, KernelAssumption
<1> QED
  BY <1>2, FS_CardinalityType

(* A step of the scheduler that leaves the semaphores alone and neither    *)
(* wakes a thread that is in P nor puts it to sleep.                       *)
Quiet ==
  /\ UNCHANGED <<value, queue, waitingOn>>
  /\ \A u \in Threads :
       waitingOn[u] # NULL => (status'[u] = "BLOCKED" <=> status[u] = "BLOCKED")

(* Such a step keeps NoLostWakeup.                                         *)
LEMMA QuietStep ==
  ASSUME NoLostWakeup, Quiet
  PROVE  NoLostWakeup'
<1>1. ASSUME NEW s \in Semaphores
      PROVE  Testing(s)' = Testing(s)
  BY KernelAssumption DEF Quiet, Testing
<1> QED
  BY <1>1 DEF NoLostWakeup, Quiet

(* Thread::Yield moves only threads that are READY or RUNNING.             *)
LEMMA YieldQuiet ==
  ASSUME IInv, NEW t \in Threads, NEW p, NEW q, YieldBody(t, p, q),
         status[t] = "RUNNING", UNCHANGED <<value, queue, waitingOn>>
  PROVE  Quiet
<1>1. CASE readyList = <<>>
  BY <1>1 DEF YieldBody, schedVars, Quiet
<1>2. CASE readyList # <<>>
  <2>1. /\ currentThread' \in Range(readyList) /\ currentThread' \in Threads
        /\ status' = [status EXCEPT ![t] = "READY", ![currentThread'] = "RUNNING"]
    BY <1>2, YieldBodyLists DEF IInv
  <2>2. status[currentThread'] = "READY"
    BY <2>1 DEF IInv, SchedulerInv
  <2> QED
    BY <2>1, <2>2 DEF Quiet, IInv, KernelTypeOK
<1> QED
  BY <1>1, <1>2

(* Semaphore::V keeps NoLostWakeup, whoever calls it: the thread it wakes  *)
(* is one more that will test the value.                                   *)
LEMMA VBodyWakes ==
  ASSUME IInv, NoLostWakeup, NEW s \in Semaphores, VBody(s), UNCHANGED waitingOn
  PROVE  NoLostWakeup'
<1> USE DEF IInv
<1>1. CASE queue[s] = <<>>
  <2>1. UNCHANGED <<queue, status>> /\ \A x \in Semaphores : x # s => value'[x] = value[x]
    BY <1>1 DEF VBody, KernelTypeOK
  <2>2. \A x : Testing(x)' = Testing(x)
    BY <2>1 DEF Testing
  <2> QED
    BY <1>1, <2>1, <2>2 DEF NoLostWakeup
<1>2. CASE queue[s] # <<>>
  <2>1. PICK h \in Threads : /\ h \in Range(queue[s])
                             /\ status' = [status EXCEPT ![h] = "READY"]
    BY <1>2, VBodyLists
  <2>2. status[h] = "BLOCKED" /\ waitingOn[h] = s
    BY <2>1 DEF SchedulerInv
  <2>3. /\ status'[h] = "READY"
        /\ \A u \in Threads : u # h => status'[u] = status[u]
    BY <2>1 DEF KernelTypeOK
  <2>4. /\ Testing(s)' = Testing(s) \cup {h} /\ h \notin Testing(s)
        /\ \A x : x # s => Testing(x)' = Testing(x)
    BY <2>2, <2>3 DEF Testing
  <2>5. Cardinality(Testing(s)') = Cardinality(Testing(s)) + 1
    BY <2>4, TestingFinite, FS_AddElement, SMTT(20)
  <2>6. /\ value'[s] = value[s] + 1 /\ value[s] \in Nat
        /\ \A x \in Semaphores : x # s => value'[x] = value[x] /\ queue'[x] = queue[x]
    BY <1>2 DEF VBody, KernelTypeOK
  <2>7. ASSUME NEW x \in Semaphores, queue'[x] # <<>>
        PROVE  value'[x] <= Cardinality(Testing(x)')
    <3>1. CASE x = s
      <4>1. value[s] <= Cardinality(Testing(s))
        BY <1>2 DEF NoLostWakeup
      <4> QED
        BY <2>5, <2>6, <3>1, <4>1, TestingFinite, SMTT(20)
    <3>2. CASE x # s
      BY <2>4, <2>6, <2>7, <3>2 DEF NoLostWakeup
    <3> QED
      BY <3>1, <3>2
  <2> QED
    BY <2>7 DEF NoLostWakeup
<1> QED
  BY <1>1, <1>2

(* The loop of Semaphore::P keeps NoLostWakeup: a thread takes its unit    *)
(* away with itself, and sleeps only when there is none.                   *)
LEMMA PTestWakes ==
  ASSUME IInv, NoLostWakeup, NEW t \in Threads, PTest(t)
  PROVE  NoLostWakeup'
<1>1. PICK s \in Semaphores : /\ s = waitingOn[t] /\ currentThread = t
                               /\ status[t] = "RUNNING" /\ t \in Testing(s)
  BY SMTT(30) DEF PTest, At, IInv, KernelTypeOK, SchedulerInv, Idling,
    ControlInv, Placed, Testing
<1>2. CASE value[s] > 0
  <2>1. /\ value' = [value EXCEPT ![s] = value[s] - 1]
        /\ waitingOn' = [waitingOn EXCEPT ![t] = NULL]
        /\ UNCHANGED <<queue, status>>
    BY <1>1, <1>2, SMTT(20) DEF PTest
  <2>2. /\ Testing(s)' = Testing(s) \ {t}
        /\ \A x \in Semaphores : x # s => Testing(x)' = Testing(x)
    BY <1>1, <2>1, KernelAssumption DEF Testing, IInv, KernelTypeOK
  <2>3. Cardinality(Testing(s)') = Cardinality(Testing(s)) - 1
    BY <1>1, <2>2, TestingFinite, FS_RemoveElement
  <2>4. /\ value'[s] = value[s] - 1 /\ value[s] \in Nat
        /\ \A x \in Semaphores : x # s => value'[x] = value[x]
    BY <1>1, <2>1 DEF IInv, KernelTypeOK
  <2>5. ASSUME NEW x \in Semaphores, queue[x] # <<>>
        PROVE  value'[x] <= Cardinality(Testing(x)')
    <3>1. value[x] <= Cardinality(Testing(x))
      BY <2>5 DEF NoLostWakeup
    <3>2. CASE x = s
      BY <2>3, <2>4, <3>1, <3>2, TestingFinite, SMTT(20)
    <3>3. CASE x # s
      BY <2>2, <2>4, <3>1, <3>3
    <3> QED
      BY <3>2, <3>3
  <2> QED
    BY <2>1, <2>5 DEF NoLostWakeup
<1>3. CASE value[s] = 0
  <2>1. /\ queue' = [queue EXCEPT ![s] = Append(queue[s], t)]
        /\ status' = [status EXCEPT ![t] = "BLOCKED"]
        /\ UNCHANGED <<value, waitingOn>>
    BY <1>1, <1>3, SMTT(20) DEF PTest
  <2>2. /\ \A x \in Semaphores : x # s => queue'[x] = queue[x]
        /\ \A x \in Semaphores : x # s => Testing(x)' = Testing(x)
    BY <1>1, <2>1 DEF Testing, IInv, KernelTypeOK
  <2>3. IsFiniteSet(Testing(s)') /\ Cardinality(Testing(s)') \in Nat
    <3>1. Testing(s)' \in SUBSET Threads
      BY DEF Testing
    <3> QED
      BY <3>1, FS_Subset, FS_CardinalityType, KernelAssumption
  <2>4. ASSUME NEW x \in Semaphores, queue'[x] # <<>>
        PROVE  value'[x] <= Cardinality(Testing(x)')
    <3>1. CASE x = s
      BY <1>3, <2>1, <2>3, <3>1, SMTT(20)
    <3>2. CASE x # s
      BY <2>1, <2>2, <2>4, <3>2 DEF NoLostWakeup
    <3> QED
      BY <3>1, <3>2
  <2> QED
    BY <2>4 DEF NoLostWakeup
<1> QED
  BY <1>1, <1>2, <1>3 DEF PTest

(* Every step of the kernel keeps NoLostWakeup.                            *)
LEMMA WakeupStep == IInv /\ NoLostWakeup /\ [AnyStep]_kernelVars => NoLostWakeup'
<1> SUFFICES ASSUME IInv, NoLostWakeup, [AnyStep]_kernelVars PROVE NoLostWakeup'
  OBVIOUS
<1> USE DEF IInv, schedVars, intVars, semVars, userVars
<1>1. ASSUME NEW t \in Threads, NEW u \in Threads, NewThread(t, u)
      PROVE  NoLostWakeup'
  <2>1. waitingOn[u] = NULL /\ status' = [status EXCEPT ![u] = "JUST_CREATED"]
    BY <1>1 DEF NewThread, ControlInv, Placed
  <2> QED
    BY <1>1, <2>1, QuietStep DEF NewThread, KernelTypeOK, Quiet
<1>2. ASSUME NEW t \in Threads, NEW u \in Threads, Fork(t, u)
      PROVE  NoLostWakeup'
  BY <1>2, QuietStep DEF Fork, At, KernelTypeOK, Quiet, ControlInv, Placed
<1>3. ASSUME NEW t \in Threads, Yield(t)
      PROVE  NoLostWakeup'
  <2>1. YieldBody(t, "yielded", "tick") /\ status[t] = "RUNNING" /\ UNCHANGED <<value, queue, waitingOn>>
    BY <1>3 DEF Yield, At, SchedulerInv, Idling
  <2> QED
    BY <2>1, YieldQuiet, QuietStep
<1>4. ASSUME NEW t \in Threads, NEW s \in Semaphores, P(t, s)
      PROVE  NoLostWakeup'
  <2>1. /\ UNCHANGED <<value, queue, status>> /\ waitingOn[t] = NULL
        /\ waitingOn' = [waitingOn EXCEPT ![t] = s]
    BY <1>4 DEF P, At, ControlInv, Placed
  <2>2. ASSUME NEW x \in Semaphores
        PROVE  Testing(x) \subseteq Testing(x)' /\ Testing(x)' \in SUBSET Threads
    BY <2>1, KernelAssumption DEF Testing, KernelTypeOK
  <2>3. ASSUME NEW x \in Semaphores
        PROVE  /\ Cardinality(Testing(x)) <= Cardinality(Testing(x)')
               /\ Cardinality(Testing(x)') \in Nat
    <3>1. IsFiniteSet(Testing(x)')
      BY <2>2, FS_Subset, KernelAssumption
    <3> QED
      BY <2>2, <3>1, FS_Subset, FS_CardinalityType
  <2>4. ASSUME NEW x \in Semaphores, queue[x] # <<>>
        PROVE  value[x] <= Cardinality(Testing(x)')
    <3>1. value[x] <= Cardinality(Testing(x)) /\ value[x] \in Nat
      BY <2>4 DEF NoLostWakeup, KernelTypeOK
    <3> QED
      BY <2>3, <3>1, TestingFinite, SMTT(20)
  <2> QED
    BY <2>1, <2>4 DEF NoLostWakeup
<1>5. ASSUME NEW t \in Threads, NEW s \in Semaphores, V(t, s)
      PROVE  NoLostWakeup'
  BY <1>5, VBodyWakes DEF V
<1>6. ASSUME NEW t \in Threads, NEW d \in Devices, StartIO(t, d)
      PROVE  NoLostWakeup'
  BY <1>6, QuietStep DEF StartIO, Quiet
<1>7. ASSUME NEW t \in Threads, Finish(t)
      PROVE  NoLostWakeup'
  <2>1. waitingOn[t] = NULL /\ status' = [status EXCEPT ![t] = "BLOCKED"]
    BY <1>7 DEF Finish, At, ControlInv, Placed
  <2> QED
    BY <1>7, <2>1, QuietStep DEF Finish, KernelTypeOK, Quiet
<1>8. ASSUME NEW t \in Threads, Execute(t)
      PROVE  NoLostWakeup'
  BY <1>8, QuietStep DEF Execute, Quiet
<1>9. ASSUME NEW t \in Threads, OneInstruction(t)
      PROVE  NoLostWakeup'
  BY <1>9, QuietStep DEF OneInstruction, Quiet
<1>10. ASSUME NEW t \in Threads, RaiseException(t)
      PROVE  NoLostWakeup'
  BY <1>10, QuietStep DEF RaiseException, Quiet
<1>11. ASSUME NEW t \in Threads, ReturnFromException(t)
      PROVE  NoLostWakeup'
  BY <1>11, QuietStep DEF ReturnFromException, Quiet
<1>12. ASSUME NEW t \in Threads, PTest(t)
      PROVE  NoLostWakeup'
  BY <1>12, PTestWakes
<1>13. ASSUME NEW t \in Threads, SleepRun(t)
      PROVE  NoLostWakeup'
  <2>1. PICK h \in Threads : status[h] = "READY" /\ status' = [status EXCEPT ![h] = "RUNNING"]
    BY <1>13, SleepRunHead
  <2> QED
    BY <1>13, <2>1, QuietStep DEF SleepRun, KernelTypeOK, Quiet
<1>14. ASSUME NEW t \in Threads, EnterIdle(t)
      PROVE  NoLostWakeup'
  BY <1>14, QuietStep DEF EnterIdle, Quiet
<1>15. ASSUME NEW t \in Threads, LeaveIdle(t)
      PROVE  NoLostWakeup'
  BY <1>15, QuietStep DEF LeaveIdle, Quiet
<1>16. ASSUME NEW t \in Threads, NEW d \in Devices, DeviceInterrupt(t, d)
      PROVE  NoLostWakeup'
  BY <1>16, VBodyWakes, KernelAssumption DEF DeviceInterrupt
<1>17. ASSUME NEW t \in Threads, TimerInterrupt(t)
      PROVE  NoLostWakeup'
  BY <1>17, QuietStep DEF TimerInterrupt, Quiet
<1>18. ASSUME NEW t \in Threads, EndTick(t)
      PROVE  NoLostWakeup'
  BY <1>18, QuietStep DEF EndTick, Quiet
<1>19. ASSUME NEW t \in Threads, PreemptTick(t)
      PROVE  NoLostWakeup'
  <2>1. YieldBody(t, "preempted", "retick") /\ status[t] = "RUNNING" /\ UNCHANGED <<value, queue, waitingOn>>
    BY <1>19 DEF PreemptTick, At, SchedulerInv, Idling
  <2> QED
    BY <2>1, YieldQuiet, QuietStep
<1>20. ASSUME NEW t \in Threads, SwitchedIn(t)
      PROVE  NoLostWakeup'
  <2>1. UNCHANGED <<value, queue, waitingOn>>
    BY <1>20 DEF SwitchedIn
  <2>2. ASSUME NEW u \in Threads, waitingOn[u] # NULL
        PROVE  status'[u] = status[u]
    <3>1. u = toBeDestroyed => waitingOn[u] = NULL
      BY KernelAssumption DEF DestroySafe, ControlInv, Placed
    <3> QED
      BY <1>20, <2>2, <3>1, SwitchedInEffect
  <2> QED
    BY <2>1, <2>2, QuietStep DEF Quiet
<1>21. CASE UNCHANGED kernelVars
  BY <1>21, QuietStep DEF kernelVars, Quiet
<1> QED
  BY <1>1, <1>2, <1>3, <1>4, <1>5, <1>6, <1>7, <1>8, <1>9, <1>10, <1>11,
     <1>12, <1>13, <1>14, <1>15, <1>16, <1>17, <1>18, <1>19, <1>20,
     <1>21 DEF AnyStep, AnyCall, KernelStep

(* While somebody sleeps in the queue of a semaphore, every unit of its    *)
(* value has a thread on its way to take it (Semaphore::P, V).             *)
THEOREM WakeupCorrect == KernelSpec => []NoLostWakeup
<1>1. KernelInit => NoLostWakeup
  BY SMTT(20) DEF KernelInit, KernelStart, NoLostWakeup
<1>2. IInv /\ NoLostWakeup /\ [AnyStep]_kernelVars => NoLostWakeup'
  BY WakeupStep
<1> QED
  BY <1>1, <1>2, NextIsAnyStep, IInvInductive, PTL DEF KernelSpec

-----------------------------------------------------------------------------
(***************************************************************************)
(* The synchronous disk.                                                   *)
(*                                                                         *)
(* RequestSafe counts threads.  The induction works with what the counts   *)
(* say of single threads (DiskInv): the lock's semaphore is zero exactly   *)
(* while somebody has it, and while a request is not answered the wake-up  *)
(* is either pending or stored in the disk's semaphore.  It also needs to  *)
(* know which semaphore each thread may be in P of, and that the kernel    *)
(* keeps its own invariant (IInv of ThreadsProofs.tla), because every step *)
(* of the disk is a step of some client of the kernel.                     *)
(***************************************************************************)
(* The P a thread is in belongs to the place in the disk operation.        *)
InPlace ==
  \A t \in Threads :
    waitingOn[t] # NULL =>
      \/ stage[t] = "acquire" /\ waitingOn[t] = LockSem
      \/ stage[t] = "wait" /\ waitingOn[t] = DiskSem

(* The lock of the disk. *)
LockInv ==
  /\ value[LockSem] \in {0, 1}
  /\ value[LockSem] = 1 <=> \A t \in Threads : t \notin Locked
  /\ \A t, u \in Locked : t = u
  /\ \A t \in Threads : stage[t] \in {"requested", "wait"} => lockHolder = t

(* The answer to a request. *)
AnswerInv ==
  /\ active <=> disk \in pending
  /\ value[DiskSem] = 0 \/ (value[DiskSem] = 1 /\ ~ active)
  /\ (\E t \in Threads : t \in Unanswered) <=> (active \/ value[DiskSem] = 1)

(* The inductive invariant of the disk.                                    *)
DiskInv == TypeOK /\ InPlace /\ LockInv /\ AnswerInv

(* The assumptions on the disk, one by one.                                *)
LEMMA DiskConstants ==
  /\ LockSem \in Semaphores /\ DiskSem \in Semaphores /\ LockSem # DiskSem
  /\ disk \in Devices /\ DoneSem[disk] = DiskSem
  /\ LockSem # NULL /\ DiskSem # NULL
  BY SynchDiskAssumption, KernelAssumption

(* Every step of the disk is a step of a client of the kernel.             *)
LEMMA DiskStepIsAnyStep == [Next]_vars => [AnyStep]_kernelVars
<1> USE DiskConstants DEF AnyStep, AnyCall
<1>1. ASSUME NEW t \in Threads, Call(t)
      PROVE  AnyStep
  BY <1>1 DEF Call, LockAcquire
<1>2. ASSUME NEW t \in Threads, Request(t)
      PROVE  AnyStep
  BY <1>2 DEF Request
<1>3. ASSUME NEW t \in Threads, WaitForDisk(t)
      PROVE  AnyStep
  BY <1>3 DEF WaitForDisk
<1>4. ASSUME NEW t \in Threads, Return(t)
      PROVE  AnyStep
  BY <1>4 DEF Return, LockRelease
<1>5. ASSUME NEW t \in Threads, DiskInterrupt(t)
      PROVE  AnyStep
  BY <1>5 DEF DiskInterrupt
<1>6. ASSUME NEW t \in Threads, Outside(t)
      PROVE  AnyStep
  BY <1>6 DEF Outside
<1>7. ASSUME NEW t \in Threads, KernelStep(t)
      PROVE  AnyStep
  BY <1>7
<1>8. CASE UNCHANGED vars
  BY <1>8 DEF vars
<1> HIDE DEF AnyStep, AnyCall
<1> QED
  BY <1>1, <1>2, <1>3, <1>4, <1>5, <1>6, <1>7, <1>8 DEF Next

(* SynchDisk::SynchDisk and Disk::Disk establish the invariant.            *)
LEMMA DiskStart == Init => IInv /\ DiskInv
<1> SUFFICES ASSUME Init PROVE IInv /\ DiskInv
  BY SMTT(20)
<1>1. IInv
  BY IInvStart DEF Init, KernelInit
<1>2. TypeOK
  <2>1. stage \in [Threads -> Stages]
    BY SMTT(20) DEF Init, Stages
  <2>2. active \in BOOLEAN /\ lockHolder \in Threads \cup {NULL}
    BY DEF Init, LockInit
  <2> QED
    BY <1>1, <2>1, <2>2 DEF TypeOK, IInv
<1>3. /\ value[LockSem] = 1 /\ value[DiskSem] = 0
      /\ disk \notin pending /\ ~ active
      /\ \A t \in Threads : stage[t] = "out" /\ waitingOn[t] = NULL
  BY SynchDiskAssumption, SMTT(20) DEF Init, KernelInit, KernelStart
<1>4. InPlace
  BY <1>3 DEF InPlace
<1>5. LockInv
  BY <1>3, SMTT(20) DEF LockInv, Locked
<1>6. AnswerInv
  BY <1>3, SMTT(20) DEF AnswerInv, Unanswered
<1> QED
  BY <1>1, <1>2, <1>4, <1>5, <1>6 DEF DiskInv

(* What the invariant says without the sets.                               *)
LEMMA DiskTypes ==
  ASSUME IInv, DiskInv
  PROVE  /\ value \in [Semaphores -> Nat]
         /\ waitingOn \in [Threads -> Semaphores \cup {NULL}]
         /\ stage \in [Threads -> Stages] /\ active \in BOOLEAN
         /\ lockHolder \in Threads \cup {NULL}
  BY DEF IInv, KernelTypeOK, DiskInv, TypeOK

(* lock->Acquire() at the start of a disk operation keeps the invariant.   *)
LEMMA CallKeeps ==
  ASSUME IInv, DiskInv, NEW t \in Threads, Call(t)
  PROVE  InPlace' /\ LockInv' /\ AnswerInv'
<1>1. waitingOn[t] = NULL
  BY BodyNotInP DEF Call, LockAcquire, P
<1>2. /\ stage[t] = "out" /\ stage' = [stage EXCEPT ![t] = "acquire"]
      /\ waitingOn' = [waitingOn EXCEPT ![t] = LockSem]
      /\ UNCHANGED <<value, pending, active, lockHolder>>
  BY DEF Call, LockAcquire, P, SetStage, semVars
<1>3. /\ stage'[t] = "acquire" /\ waitingOn'[t] = LockSem
      /\ \A u \in Threads : u # t => stage'[u] = stage[u] /\ waitingOn'[u] = waitingOn[u]
  BY <1>2, DiskTypes
<1>4. InPlace'
  BY <1>3 DEF DiskInv, InPlace
<1>5. Locked' = Locked /\ Unanswered' = Unanswered
  BY <1>2, <1>3, DiskConstants, SMTT(20) DEF Locked, Unanswered
<1>6. LockInv'
  BY <1>2, <1>3, <1>5, SMTT(20) DEF DiskInv, LockInv
<1>7. AnswerInv'
  BY <1>2, <1>5 DEF DiskInv, AnswerInv
<1> QED
  BY <1>4, <1>6, <1>7

(* Disk::ReadRequest and WriteRequest keep it: the thread has the lock, so *)
(* no earlier request is unanswered.                                       *)
LEMMA RequestKeeps ==
  ASSUME IInv, DiskInv, NEW t \in Threads, Request(t)
  PROVE  InPlace' /\ LockInv' /\ AnswerInv'
<1>1. waitingOn[t] = NULL
  BY BodyNotInP DEF Request, StartIO
<1>2. /\ stage[t] = "acquire" /\ stage' = [stage EXCEPT ![t] = "requested"]
      /\ pending' = pending \cup {disk} /\ active' = TRUE /\ lockHolder' = t
      /\ UNCHANGED <<value, waitingOn>>
  BY DEF Request, StartIO, LockAcquired, SetStage, semVars
<1>3. /\ stage'[t] = "requested"
      /\ \A u \in Threads : u # t => stage'[u] = stage[u]
  BY <1>2, DiskTypes
<1>4. t \in Locked /\ \A u \in Threads : u \in Unanswered => u \in Locked
  BY <1>1, <1>2 DEF Locked, Unanswered
<1>5. \A u \in Threads : u \notin Unanswered
  BY <1>2, <1>4, SMTT(20) DEF DiskInv, LockInv, Unanswered
<1>6. ~ active /\ value[DiskSem] = 0
  BY <1>5, SMTT(20) DEF DiskInv, AnswerInv
<1>7. InPlace'
  BY <1>1, <1>2, <1>3 DEF DiskInv, InPlace
<1>8. Locked' = Locked
  BY <1>1, <1>2, <1>3, SMTT(20) DEF Locked
<1>9. LockInv'
  <2>1. ASSUME NEW u \in Threads, stage'[u] \in {"requested", "wait"}
        PROVE  u = t
    <3>1. u \in Locked
      BY <1>8, <2>1 DEF Locked
    <3> QED
      BY <1>4, <3>1 DEF DiskInv, LockInv
  <2> QED
    BY <1>2, <1>8, <2>1, SMTT(20) DEF DiskInv, LockInv
<1>10. AnswerInv'
  <2>1. t \in Unanswered'
    BY <1>3 DEF Unanswered
  <2> QED
    BY <1>2, <1>6, <2>1, SMTT(20) DEF AnswerInv
<1> QED
  BY <1>7, <1>9, <1>10

(* semaphore->P() keeps it: the request stays unanswered.                  *)
LEMMA WaitKeeps ==
  ASSUME IInv, DiskInv, NEW t \in Threads, WaitForDisk(t)
  PROVE  InPlace' /\ LockInv' /\ AnswerInv'
<1>1. /\ stage[t] = "requested" /\ stage' = [stage EXCEPT ![t] = "wait"]
      /\ waitingOn' = [waitingOn EXCEPT ![t] = DiskSem]
      /\ UNCHANGED <<value, pending, active, lockHolder>>
  BY DEF WaitForDisk, P, SetStage, semVars
<1>2. /\ stage'[t] = "wait" /\ waitingOn'[t] = DiskSem
      /\ \A u \in Threads : u # t => stage'[u] = stage[u] /\ waitingOn'[u] = waitingOn[u]
  BY <1>1, DiskTypes
<1>3. InPlace'
  BY <1>2 DEF DiskInv, InPlace
<1>4. Locked' = Locked /\ Unanswered' = Unanswered
  BY <1>1, <1>2, DiskConstants, SMTT(20) DEF Locked, Unanswered
<1>5. LockInv'
  BY <1>1, <1>2, <1>4, SMTT(20) DEF DiskInv, LockInv
<1>6. AnswerInv'
  BY <1>1, <1>4 DEF DiskInv, AnswerInv
<1> QED
  BY <1>3, <1>5, <1>6

(* lock->Release() at the end of a disk operation keeps it: the request is *)
(* answered, and nobody else has the lock.                                 *)
LEMMA ReturnKeeps ==
  ASSUME IInv, DiskInv, NEW t \in Threads, Return(t)
  PROVE  InPlace' /\ LockInv' /\ AnswerInv'
<1>1. waitingOn[t] = NULL
  BY BodyNotInP DEF Return, LockRelease, V
<1>2. /\ stage[t] = "wait" /\ stage' = [stage EXCEPT ![t] = "out"]
      /\ value' = [value EXCEPT ![LockSem] = @ + 1]
      /\ lockHolder' = NULL
      /\ UNCHANGED <<waitingOn, pending, active>>
  BY DEF Return, LockRelease, V, VBody, SetStage
<1>3. /\ stage'[t] = "out"
      /\ \A u \in Threads : u # t => stage'[u] = stage[u]
  BY <1>2, DiskTypes
<1>4. t \in Locked
  BY <1>2 DEF Locked
<1>5. \A u \in Threads : u \in Locked => u = t
  BY <1>4 DEF DiskInv, LockInv
<1>6. \A u \in Threads : u \notin Locked'
  BY <1>2, <1>3, <1>5, SMTT(20) DEF Locked
<1>7. value'[LockSem] = 1 /\ value'[DiskSem] = value[DiskSem]
  <2>1. value[LockSem] = 0
    BY <1>4, SMTT(20) DEF DiskInv, LockInv
  <2> QED
    BY <1>2, <2>1, DiskTypes, DiskConstants, SMTT(20)
<1>8. InPlace'
  BY <1>1, <1>2, <1>3 DEF DiskInv, InPlace
<1>9. LockInv'
  <2>1. \A u \in Threads : stage'[u] \notin {"requested", "wait"}
    BY <1>6 DEF Locked
  <2>2. \A u \in Locked' : u \in Threads
    BY DEF Locked
  <2> QED
    BY <1>6, <1>7, <2>1, <2>2, SMTT(20) DEF LockInv
<1>10. Unanswered' = Unanswered
  BY <1>1, <1>2, <1>3, SMTT(20) DEF Unanswered
<1>11. AnswerInv'
  BY <1>2, <1>7, <1>10, SMTT(20) DEF DiskInv, AnswerInv
<1> QED
  BY <1>8, <1>9, <1>11

(* Disk::CallBack and SynchDisk::CallBack keep it: the wake-up that was    *)
(* pending is now a unit of the semaphore.                                 *)
LEMMA InterruptKeeps ==
  ASSUME IInv, DiskInv, NEW t \in Threads, DiskInterrupt(t)
  PROVE  InPlace' /\ LockInv' /\ AnswerInv'
<1>1. /\ disk \in pending /\ pending' = pending \ {disk}
      /\ value' = [value EXCEPT ![DiskSem] = @ + 1]
      /\ active' = FALSE
      /\ UNCHANGED <<waitingOn, stage, lockHolder>>
  BY DiskConstants DEF DiskInterrupt, DeviceInterrupt, VBody
<1>2. active /\ value[DiskSem] = 0
  BY <1>1, SMTT(20) DEF DiskInv, AnswerInv
<1>3. value'[DiskSem] = 1 /\ value'[LockSem] = value[LockSem]
  BY <1>1, <1>2, DiskTypes, DiskConstants, SMTT(20)
<1>4. InPlace'
  BY <1>1 DEF DiskInv, InPlace
<1>5. Locked' = Locked /\ Unanswered' = Unanswered
  BY <1>1 DEF Locked, Unanswered
<1>6. LockInv'
  BY <1>1, <1>3, <1>5 DEF DiskInv, LockInv
<1>7. AnswerInv'
  BY <1>1, <1>2, <1>3, <1>5, SMTT(20) DEF DiskInv, AnswerInv
<1> QED
  BY <1>4, <1>6, <1>7

(* A step inside the kernel keeps it: a P that takes a unit of the lock    *)
(* finds nobody inside, and a P that takes a unit of the disk's semaphore  *)
(* is that of the one thread whose request was not answered.               *)
LEMMA KernelStepKeeps ==
  ASSUME IInv, DiskInv, NEW t \in Threads, KernelStep(t), UNCHANGED diskVars
  PROVE  InPlace' /\ LockInv' /\ AnswerInv'
<1>1. UNCHANGED <<pending, stage, active, lockHolder>>
  BY KernelStepEffect DEF diskVars
<1>2. CASE UNCHANGED <<value, waitingOn>>
  <2>1. Locked' = Locked /\ Unanswered' = Unanswered
    BY <1>1, <1>2 DEF Locked, Unanswered
  <2> QED
    BY <1>1, <1>2, <2>1 DEF DiskInv, InPlace, LockInv, AnswerInv
<1>3. ASSUME NEW s \in Semaphores, waitingOn[t] = s, value[s] > 0,
             value' = [value EXCEPT ![s] = @ - 1],
             waitingOn' = [waitingOn EXCEPT ![t] = NULL]
      PROVE  InPlace' /\ LockInv' /\ AnswerInv'
  <2>1. /\ waitingOn'[t] = NULL
        /\ \A u \in Threads : u # t => waitingOn'[u] = waitingOn[u]
        /\ value'[s] = value[s] - 1 /\ \A x \in Semaphores : x # s => value'[x] = value[x]
    BY <1>3, DiskTypes, SMTT(20)
  <2>2. InPlace'
    BY <1>1, <2>1 DEF DiskInv, InPlace
  <2>3. CASE s = LockSem
    <3>1. stage[t] = "acquire"
      BY <1>3, <2>3, DiskConstants, SMTT(20) DEF DiskInv, InPlace
    <3>2. value[LockSem] = 1 /\ value'[LockSem] = 0 /\ value'[DiskSem] = value[DiskSem]
      BY <1>3, <2>1, <2>3, DiskConstants, SMTT(20) DEF DiskInv, LockInv
    <3>3. \A u \in Threads : u \notin Locked
      BY <3>2 DEF DiskInv, LockInv
    <3>4. \A u \in Threads : u \in Locked' <=> u = t
      BY <1>1, <2>1, <3>1, <3>3, SMTT(20) DEF Locked
    <3>5. \A u \in Locked' : u \in Threads
      BY DEF Locked
    <3>6. LockInv'
      BY <1>1, <3>2, <3>4, <3>5, SMTT(20) DEF DiskInv, LockInv
    <3>7. Unanswered' = Unanswered
      BY <1>1, <2>1, <3>1, SMTT(20) DEF Unanswered
    <3>8. AnswerInv'
      BY <1>1, <3>2, <3>7 DEF DiskInv, AnswerInv
    <3> QED
      BY <2>2, <3>6, <3>8
  <2>4. CASE s # LockSem
    <3>1. s = DiskSem /\ stage[t] = "wait"
      BY <1>3, <2>4, KernelAssumption, SMTT(20) DEF DiskInv, InPlace
    <3>2. /\ value[DiskSem] = 1 /\ ~ active /\ value'[DiskSem] = 0
          /\ value'[LockSem] = value[LockSem]
      BY <1>3, <2>1, <3>1, DiskConstants, SMTT(20) DEF DiskInv, AnswerInv
    <3>3. Locked' = Locked
      BY <1>1, <2>1, <3>1, SMTT(20) DEF Locked
    <3>4. LockInv'
      BY <1>1, <3>2, <3>3 DEF DiskInv, LockInv
    <3>5. \A u \in Threads : u \notin Unanswered'
      <4>1. t \in Locked
        BY <3>1 DEF Locked
      <4> SUFFICES ASSUME NEW u \in Threads, u \in Unanswered' PROVE FALSE
        BY SMTT(20)
      <4>2. u \in Locked /\ u # t
        BY <1>1, <2>1, <3>1, SMTT(20) DEF Locked, Unanswered
      <4> QED
        BY <4>1, <4>2 DEF DiskInv, LockInv
    <3>6. AnswerInv'
      BY <1>1, <3>2, <3>5, SMTT(20) DEF DiskInv, AnswerInv
    <3> QED
      BY <2>2, <3>4, <3>6
  <2> QED
    BY <2>3, <2>4
<1> QED
  BY <1>2, <1>3, KernelStepEffect

(* Creating, forking, yielding and finishing keep it.                      *)
LEMMA OutsideKeeps ==
  ASSUME DiskInv, NEW t \in Threads, Outside(t)
  PROVE  InPlace' /\ LockInv' /\ AnswerInv'
<1>1. UNCHANGED <<value, waitingOn, pending, stage, active, lockHolder>>
  BY DEF Outside, NewThread, Fork, Yield, Finish, intVars, semVars, diskVars
<1>2. Locked' = Locked /\ Unanswered' = Unanswered
  BY <1>1 DEF Locked, Unanswered
<1> QED
  BY <1>1, <1>2 DEF DiskInv, InPlace, LockInv, AnswerInv

(* The types of the disk's own variables are kept.                         *)
LEMMA DiskTypesKept ==
  ASSUME IInv', DiskInv, [Next]_vars
  PROVE  TypeOK'
<1>1. /\ lockHolder \in Threads \cup {NULL} /\ active \in BOOLEAN
      /\ stage \in [Threads -> Stages]
  BY DEF DiskInv, TypeOK
<1>2. lockHolder' \in Threads \cup {NULL} /\ active' \in BOOLEAN
  BY <1>1
     DEF Next, Call, Request, WaitForDisk, Return, DiskInterrupt, Outside,
         LockAcquire, LockAcquired, LockRelease, diskVars, vars
<1>3. \/ stage' = stage
      \/ \E t \in Threads, s \in Stages : stage' = [stage EXCEPT ![t] = s]
  <2>1. "acquire" \in Stages /\ "requested" \in Stages /\ "wait" \in Stages /\ "out" \in Stages
    BY DEF Stages
  <2> QED
    BY <2>1
       DEF Next, Call, Request, WaitForDisk, Return, DiskInterrupt, Outside,
           SetStage, diskVars, vars
<1>4. stage' \in [Threads -> Stages]
  BY <1>1, <1>3
<1> QED
  BY <1>2, <1>4 DEF TypeOK, IInv

(* Every step of the disk keeps the invariant.                             *)
LEMMA DiskStep == IInv /\ DiskInv /\ [Next]_vars => IInv' /\ DiskInv'
<1> SUFFICES ASSUME IInv, DiskInv, [Next]_vars
             PROVE  IInv' /\ DiskInv'
  BY SMTT(20)
<1>1. IInv'
  BY DiskStepIsAnyStep, IInvStep
<1>2. TypeOK'
  BY <1>1, DiskTypesKept
<1>3. CASE UNCHANGED vars
  <2>1. UNCHANGED <<value, waitingOn, pending, stage, active, lockHolder>>
    BY <1>3 DEF vars, diskVars, kernelVars, semVars, intVars
  <2>2. Locked' = Locked /\ Unanswered' = Unanswered
    BY <2>1 DEF Locked, Unanswered
  <2> QED
    BY <1>1, <1>2, <2>1, <2>2 DEF DiskInv, InPlace, LockInv, AnswerInv
<1>4. CASE Next
  <2>1. InPlace' /\ LockInv' /\ AnswerInv'
    BY <1>4, CallKeeps, RequestKeeps, WaitKeeps, ReturnKeeps, InterruptKeeps,
       OutsideKeeps, KernelStepKeeps DEF Next
  <2> QED
    BY <1>1, <1>2, <2>1 DEF DiskInv
<1> QED
  BY <1>3, <1>4

(* A set whose members are all equal has one member or none.               *)
LEMMA AtMostOne ==
  ASSUME NEW S, \A x, y \in S : x = y
  PROVE  /\ Cardinality(S) = 0 \/ Cardinality(S) = 1
         /\ Cardinality(S) = 0 <=> \A x \in S : FALSE
<1>1. CASE \A x \in S : FALSE
  <2>1. S = {}
    BY <1>1
  <2> QED
    BY <1>1, <2>1, FS_EmptySet
<1>2. ASSUME NEW x \in S
      PROVE  Cardinality(S) = 1
  <2>1. S = {x}
    OBVIOUS
  <2> QED
    BY <2>1, FS_Singleton
<1> QED
  BY <1>1, <1>2, SMTT(20)

(* What the invariant says of single threads gives the counts.             *)
LEMMA DiskInvSafe == IInv /\ DiskInv => RequestSafe
<1> SUFFICES ASSUME IInv, DiskInv PROVE RequestSafe
  BY SMTT(20)
<1>1. \A t \in Threads : t \in Unanswered => t \in Locked
  BY SMTT(20) DEF Locked, Unanswered
<1>2. \A t \in Threads : At(t, "body") /\ stage[t] = "acquire" => ~ active
  <2> SUFFICES ASSUME NEW t \in Threads, At(t, "body"), stage[t] = "acquire", active
               PROVE  FALSE
    BY SMTT(20)
  <2>1. t \in Locked /\ t \notin Unanswered
    BY BodyNotInP, SMTT(20) DEF Locked, Unanswered
  <2>2. PICK u \in Threads : u \in Unanswered
    BY DEF DiskInv, AnswerInv
  <2> QED
    BY <1>1, <2>1, <2>2 DEF DiskInv, LockInv
<1>3. \A t \in Threads : stage[t] \in {"requested", "wait"} => lockHolder = t
  BY DEF DiskInv, LockInv
<1>4. Cardinality(Locked) + value[LockSem] = 1
  <2>1. \A t \in Locked : t \in Threads
    BY DEF Locked
  <2>2. \A t, u \in Locked : t = u
    BY DEF DiskInv, LockInv
  <2>3. /\ Cardinality(Locked) = 0 \/ Cardinality(Locked) = 1
        /\ Cardinality(Locked) = 0 <=> \A x \in Locked : FALSE
    BY <2>2, AtMostOne
  <2>4. /\ value[LockSem] = 0 \/ value[LockSem] = 1
        /\ value[LockSem] = 1 <=> \A x \in Locked : FALSE
    BY <2>1 DEF DiskInv, LockInv
  <2> QED
    BY <2>3, <2>4, SMTT(20)
<1>5. active <=> disk \in pending
  BY DEF DiskInv, AnswerInv
<1>6. Cardinality(Unanswered) = value[DiskSem] + (IF active THEN 1 ELSE 0)
  <2>1. \A t \in Unanswered : t \in Threads
    BY DEF Unanswered
  <2>2. \A t, u \in Unanswered : t = u
    BY <1>1, <2>1 DEF DiskInv, LockInv
  <2>3. /\ Cardinality(Unanswered) = 0 \/ Cardinality(Unanswered) = 1
        /\ Cardinality(Unanswered) = 0 <=> \A x \in Unanswered : FALSE
    BY <2>2, AtMostOne
  <2>4. (\A x \in Unanswered : FALSE) <=> ~ (active \/ value[DiskSem] = 1)
    BY <2>1 DEF DiskInv, AnswerInv
  <2>5. value[DiskSem] = 0 \/ (value[DiskSem] = 1 /\ ~ active)
    BY DEF DiskInv, AnswerInv
  <2> QED
    BY <2>3, <2>4, <2>5, SMTT(20)
<1> QED
  BY <1>2, <1>3, <1>4, <1>5, <1>6 DEF RequestSafe

(* The synchronous disk makes one request at a time, its lock is released  *)
(* by the thread that holds it, and no interrupt is lost or left over.     *)
THEOREM RequestCorrect == Spec => []RequestSafe
<1>1. Init => IInv /\ DiskInv
  BY DiskStart, SMTT(20)
<1>2. IInv /\ DiskInv /\ [Next]_vars => (IInv /\ DiskInv)'
  BY DiskStep, SMTT(20)
<1>3. IInv /\ DiskInv => RequestSafe
  BY DiskInvSafe, SMTT(20)
<1> QED
  BY <1>1, <1>2, <1>3, PTL DEF Spec
=============================================================================

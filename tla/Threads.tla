------------------------------ MODULE Threads -------------------------------
(***************************************************************************)
(* The kernel under its most general client: whenever a thread is in       *)
(* kernel code with interrupts on it may make any call of the thread,      *)
(* semaphore and device interfaces, and a thread with an address space     *)
(* alternates between user instructions and system calls.  What holds here *)
(* holds for every program built on the kernel.                            *)
(***************************************************************************)
EXTENDS Kernel, Functions

CONSTANTS
  UserThreads,  \* the threads that may run a user program
  MaxValue      \* bound on the value of a semaphore, in the guards

KernelCalls(t) ==
  \/ \E u \in Threads : NewThread(t, u)
  \/ \E u \in Threads : Fork(t, u)
  \/ Yield(t)
  \/ \E s \in Semaphores : P(t, s)
  \/ \E s \in Semaphores : value[s] < MaxValue /\ V(t, s)
  \/ \E d \in Devices : value[DoneSem[d]] < MaxValue /\ StartIO(t, d)
  \/ Finish(t)
  \/ t \in UserThreads /\ Execute(t)
  \/ OneInstruction(t)
  \/ RaiseException(t)
  \/ ReturnFromException(t)

KernelNext ==
  \E t \in Threads :
    \/ KernelCalls(t)
    \/ KernelStep(t)
    \/ \E d \in Devices : DeviceInterrupt(t, d)

KernelSpec == KernelInit /\ [][KernelNext]_kernelVars

(***************************************************************************)
(* Fairness.  The simulated clock advances at every tick and the simulator *)
(* runs until it is halted, so the machine always takes a step; an         *)
(* interrupt that is pending becomes due after finitely many ticks; and a  *)
(* timer that fires every TimerTicks does not cut short every tick of a    *)
(* thread (a tick is SystemTick, a tenth of TimerTicks).                   *)
(***************************************************************************)
KernelFairness ==
  /\ WF_kernelVars(KernelNext)
  /\ SF_kernelVars(\E t \in Threads : TimerInterrupt(t))
  /\ \A t \in Threads : SF_kernelVars(EndTick(t))
  /\ \A d \in Devices : SF_kernelVars(\E t \in Threads : DeviceInterrupt(t, d))

KernelFairSpec == KernelSpec /\ KernelFairness

-----------------------------------------------------------------------------
Idling == pc[currentThread] \in {"sleep", "idle"}

(* Thread::status tells where the thread object is: the ready list holds   *)
(* exactly the READY threads and the queue of a semaphore exactly the      *)
(* BLOCKED threads that are in its P, each once (List::Append asserts      *)
(* that), and only the current thread is RUNNING.  So no wake-up, yield or *)
(* fork ever loses a thread or puts it on two lists.                       *)
SchedulerInv ==
  /\ IsInjective(readyList)
  /\ \A t \in Threads : status[t] = "READY" <=> t \in Range(readyList)
  /\ \A s \in Semaphores :
       /\ IsInjective(queue[s])
       /\ \A t \in Threads :
            t \in Range(queue[s]) <=> status[t] = "BLOCKED" /\ waitingOn[t] = s
  /\ \A t \in Threads :
       status[t] = "RUNNING" <=> t = currentThread /\ ~ Idling

(* Where thread t may be, given its status and the semaphore it is in.     *)
Placed(t) ==
  /\ pc[t] = "none" <=> status[t] = "FREE"
  /\ pc[t] = "created" <=> status[t] = "JUST_CREATED"
  /\ t # currentThread =>
       pc[t] \in {"none", "created", "finished"} \cup SwitchedOut
  /\ status[t] = "READY" => pc[t] \in {"sleep", "idle"} \cup SwitchedOut
  /\ status[t] = "BLOCKED" => pc[t] \in {"asleep", "sleep", "idle", "finished"}
  /\ pc[t] \in {"P", "asleep"} => waitingOn[t] # NULL
  /\ pc[t] \in {"sleep", "idle"} /\ waitingOn[t] = NULL => status[t] = "BLOCKED"
  /\ pc[t] \notin {"P", "asleep", "sleep", "idle"} => waitingOn[t] = NULL

(* A thread that does not run is stopped in Scheduler::Run or has not      *)
(* started, a READY one can be switched to as it stands, and a BLOCKED one *)
(* is in the P of a semaphore unless it is finishing: nothing but a V ever *)
(* has to wake it.                                                         *)
ControlInv ==
  /\ pc[currentThread] \notin {"none", "created", "finished"}
  /\ \A t \in Threads : Placed(t)

(* Threads that will test the value of s without being woken again.        *)
Testing(s) == {t \in Threads : waitingOn[t] = s /\ status[t] # "BLOCKED"}

(* No lost wake-up (Semaphore::V): while somebody sleeps in the queue of a *)
(* semaphore, every unit of its value has a thread on its way to take it,  *)
(* even though a thread that never slept may take it first (the "while" of *)
(* Semaphore::P).                                                          *)
NoLostWakeup ==
  \A s \in Semaphores :
    queue[s] # <<>> => value[s] <= Cardinality(Testing(s))

(* A finished thread is deleted in the context of another thread, before   *)
(* anything else happens (Scheduler::CheckToBeDestroyed): toBeDestroyed is *)
(* set only between the SWITCH and the first step of the thread switched   *)
(* to, which makes the assertions of Scheduler::Run (toBeDestroyed ==      *)
(* NULL) and of ~Thread (this != currentThread) hold.                      *)
DestroySafe ==
  /\ toBeDestroyed # NULL =>
       /\ toBeDestroyed # currentThread
       /\ pc[currentThread] \in SwitchedOut
       /\ pc[toBeDestroyed] = "finished"
  /\ \A t \in Threads : pc[t] = "finished" => t = toBeDestroyed

(* Interrupts are off whenever one thread is switched for another, a       *)
(* thread sleeps or a handler runs, and on whenever a thread executes its  *)
(* own code (the assertions on getLevel() in Sleep, ReadyToRun,            *)
(* FindNextToRun, Run and CheckIfDue).                                     *)
LevelSafe == level = "IntOn" <=> pc[currentThread] \in {"body", "user"}

(* A time slice is charged to the thread the timer interrupted, never to   *)
(* the one that runs next (Interrupt::YieldOnReturn, Alarm::CallBack).     *)
SliceSafe == yieldOnReturn => pc[currentThread] \in InTick

(* Interrupt::status is the mode of the code that is executing, although   *)
(* it is one variable shared by all threads: UserMode exactly for user     *)
(* instructions, IdleMode only in Idle, and SystemMode at every SWITCH.    *)
ModeSafe ==
  LET here == pc[currentThread] IN
  /\ here = "user" => machineStatus = "UserMode"
  /\ here \in {"body", "P", "sleep", "retick"} \cup SwitchedOut
       => machineStatus = "SystemMode"
  /\ here = "idle" <=> machineStatus = "IdleMode"

(* So the kernel never leaks a piece of one thread's state into another:   *)
(* the interrupt level, the time slice and the mode, each of them one      *)
(* variable of the machine, fit the code that is executing.                *)
TickSafe == LevelSafe /\ SliceSafe /\ ModeSafe

(* The machine registers are those of the thread that executes user code   *)
(* (SaveUserState and RestoreUserState in Scheduler::Run), whatever        *)
(* threads ran in between.                                                 *)
UserContextSafe ==
  /\ space[currentThread] /\ pc[currentThread] \notin SwitchedOut
       => loaded = currentThread
  /\ \A t \in Threads : space[t] /\ t # currentThread => saved[t] = t

(* Round robin starves nobody: a thread on the ready list runs after       *)
(* finitely many steps, whatever the other threads do.                     *)
ReadyRuns ==
  \A t \in Threads : status[t] = "READY" ~> currentThread = t

(* A unit of a semaphore does not stay untaken while threads are in its P. *)
ValueTaken ==
  \A s \in Semaphores :
    value[s] > 0 /\ (\E t \in Threads : waitingOn[t] = s)
      ~> value[s] = 0 \/ \A t \in Threads : waitingOn[t] # s
=============================================================================

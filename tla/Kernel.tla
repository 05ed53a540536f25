------------------------------- MODULE Kernel -------------------------------
(***************************************************************************)
(* The uniprocessor kernel of Nachos: threads (threads/thread.cc), the     *)
(* scheduler (threads/scheduler.cc), the simulated interrupt hardware      *)
(* (machine/interrupt.cc, machine/timer.cc, threads/alarm.cc) and          *)
(* semaphores (threads/synch.cc).                                          *)
(*                                                                         *)
(* There is one CPU.  Control leaves the running thread only at a SWITCH   *)
(* (Scheduler::Run) and an interrupt handler runs only inside OneTick or   *)
(* Idle, so every step is a step of currentThread, and pc[t] says where    *)
(* thread t is in the code:                                                *)
(*                                                                         *)
(*   none      no thread object (never allocated, or deleted)              *)
(*   created   new Thread, not forked yet                                  *)
(*   begin     its stack is set up, it will start in Thread::Begin         *)
(*   body      in kernel code, interrupts on                               *)
(*   user      in Machine::Run, executing user instructions                *)
(*   tick      in OneTick, called from SetLevel(IntOn) or Machine::Run     *)
(*   retick    in the OneTick at the end of the Yield that an outer        *)
(*             OneTick called                                              *)
(*   P         at the loop test of Semaphore::P, interrupts off            *)
(*   sleep     at the loop test of Thread::Sleep, interrupts off           *)
(*   idle      in Interrupt::Idle, called from Thread::Sleep               *)
(*   asleep    switched out, in the Run called from Sleep(FALSE)           *)
(*   yielded   switched out, in the Run of a Yield the thread called       *)
(*   preempted switched out, in the Run of a Yield that OneTick called     *)
(*   finished  switched out for good, in the Run called from Sleep(TRUE)   *)
(*                                                                         *)
(* The simulated clock is left out: which interrupts are due at a tick is  *)
(* a nondeterministic choice.  The timer reschedules itself each time it   *)
(* fires (Timer::SetInterrupt), so it is always pending and is not a       *)
(* member of the variable "pending".                                       *)
(***************************************************************************)
EXTENDS Naturals, Sequences, FiniteSets

CONSTANTS
  Threads,       \* thread objects; a deleted one may be allocated again
  Main,          \* the thread that runs main()
  Semaphores,    \* the semaphores of the kernel
  InitialValue,  \* the value each semaphore is constructed with
  Devices,       \* devices whose interrupt handler is the V of a semaphore
  DoneSem,       \* that semaphore, for each device
  NULL

ASSUME KernelAssumption ==
  /\ IsFiniteSet(Threads) /\ Main \in Threads
  /\ NULL \notin Threads /\ NULL \notin Semaphores
  /\ InitialValue \in [Semaphores -> Nat]
  /\ DoneSem \in [Devices -> Semaphores]

VARIABLES
  currentThread,  \* kernel->currentThread
  status,         \* Thread::status; "FREE" when there is no such object
  readyList,      \* Scheduler::readyList
  toBeDestroyed,  \* Scheduler::toBeDestroyed
  level,          \* Interrupt::level
  machineStatus,  \* Interrupt::status
  yieldOnReturn,  \* Interrupt::yieldOnReturn
  pending,        \* devices with an interrupt in Interrupt::pending
  value, queue,   \* Semaphore::value, Semaphore::queue
  pc,             \* where each thread is (see above)
  ret,            \* where the OneTick of a thread returns to
  waitingOn,      \* the semaphore a thread is in P of
  oldStatus,      \* OneTick's local of that name
  space,          \* whether Thread::space is set
  loaded,         \* the thread whose registers are in the machine
  saved           \* the registers Thread::userRegisters holds

schedVars == <<currentThread, status, readyList, toBeDestroyed>>
intVars   == <<level, machineStatus, yieldOnReturn, pending>>
semVars   == <<value, queue>>
userVars  == <<space, loaded, saved>>
kernelVars ==
  <<schedVars, intVars, semVars, pc, ret, waitingOn, oldStatus, userVars>>

Statuses == {"FREE", "JUST_CREATED", "RUNNING", "READY", "BLOCKED"}
SwitchedOut == {"begin", "asleep", "yielded", "preempted"}
InTick == {"tick", "retick"}
Pcs == {"none", "created", "body", "user", "P", "sleep", "idle", "finished"}
         \cup SwitchedOut \cup InTick

KernelTypeOK ==
  /\ currentThread \in Threads
  /\ status \in [Threads -> Statuses]
  /\ readyList \in Seq(Threads)
  /\ toBeDestroyed \in Threads \cup {NULL}
  /\ level \in {"IntOn", "IntOff"}
  /\ machineStatus \in {"IdleMode", "SystemMode", "UserMode"}
  /\ yieldOnReturn \in BOOLEAN
  /\ pending \subseteq Devices
  /\ value \in [Semaphores -> Nat]
  /\ queue \in [Semaphores -> Seq(Threads)]
  /\ pc \in [Threads -> Pcs]
  /\ ret \in [Threads -> {"body", "user"}]
  /\ waitingOn \in [Threads -> Semaphores \cup {NULL}]
  /\ oldStatus \in [Threads -> {"IdleMode", "SystemMode", "UserMode"}]
  /\ space \in [Threads -> BOOLEAN]
  /\ loaded \in Threads \cup {NULL}
  /\ saved \in [Threads -> Threads \cup {NULL}]

(***************************************************************************)
(* Kernel::Kernel and Kernel::Initialize: main is the current thread, the  *)
(* alarm has started the timer, and the last thing Initialize does is      *)
(* Enable(), whose OneTick is about to run.  The devices in "polling" have *)
(* scheduled an interrupt when they were constructed.  The postal worker,  *)
(* which PostOfficeInput forks before Enable, is here a thread that main   *)
(* forks after it, as it does any other.                                   *)
(***************************************************************************)
KernelStart(polling) ==
  /\ currentThread = Main
  /\ status = [t \in Threads |-> IF t = Main THEN "RUNNING" ELSE "FREE"]
  /\ readyList = <<>>
  /\ toBeDestroyed = NULL
  /\ level = "IntOff"
  /\ machineStatus = "SystemMode"
  /\ yieldOnReturn = FALSE
  /\ pending = polling
  /\ value = InitialValue
  /\ queue = [s \in Semaphores |-> <<>>]
  /\ pc = [t \in Threads |-> IF t = Main THEN "tick" ELSE "none"]
  /\ ret = [t \in Threads |-> "body"]
  /\ waitingOn = [t \in Threads |-> NULL]
  /\ oldStatus = [t \in Threads |-> "SystemMode"]
  /\ space = [t \in Threads |-> FALSE]
  /\ loaded = NULL
  /\ saved = [t \in Threads |-> NULL]

KernelInit == KernelStart({})

-----------------------------------------------------------------------------
(***************************************************************************)
(* Pieces shared by several steps.                                         *)
(***************************************************************************)
At(t, where) == currentThread = t /\ pc[t] = where

Goto(t, where) == pc' = [pc EXCEPT ![t] = where]

(* The SetLevel(IntOn) at the end of a kernel routine that began with      *)
(* interrupts on: OneTick turns them off again at once to look for due     *)
(* interrupts, so they are next on in EndTick.                             *)
SetLevelOn(t) ==
  /\ level' = "IntOff"
  /\ Goto(t, "tick")
  /\ ret' = [ret EXCEPT ![t] = "body"]

(* Mutant: V increments the value but wakes nobody. *)
VBodyNoWake(s) ==
  /\ value' = [value EXCEPT ![s] = @ + 1]
  /\ UNCHANGED <<queue, status, readyList, currentThread, toBeDestroyed>>

(* Mutant: V makes the first waiter ready and leaves it in the queue. *)
VBodyNoRemove(s) ==
  /\ value' = [value EXCEPT ![s] = @ + 1]
  /\ IF queue[s] = <<>>
       THEN UNCHANGED <<status, readyList>>
       ELSE /\ status' = [status EXCEPT ![Head(queue[s])] = "READY"]
            /\ readyList' = Append(readyList, Head(queue[s]))
  /\ UNCHANGED <<queue, currentThread, toBeDestroyed>>

(* Semaphore::V between its SetLevel calls: ReadyToRun the first waiter.   *)
VBody(s) ==
  /\ value' = [value EXCEPT ![s] = @ + 1]
  /\ IF queue[s] = <<>>
       THEN UNCHANGED <<queue, status, readyList>>
       ELSE /\ queue' = [queue EXCEPT ![s] = Tail(@)]
            /\ status' = [status EXCEPT ![Head(queue[s])] = "READY"]
            /\ readyList' = Append(readyList, Head(queue[s]))
  /\ UNCHANGED <<currentThread, toBeDestroyed>>

(* Mutant: Run does not save the user registers of the old thread. *)
SaveStateNot(t) == UNCHANGED <<space, loaded, saved>>

(* Scheduler::Run up to SWITCH: the user registers of the old thread are   *)
(* saved when it has an address space.                                     *)
SaveState(t) ==
  /\ saved' = IF space[t] THEN [saved EXCEPT ![t] = loaded] ELSE saved
  /\ UNCHANGED <<space, loaded>>

(* Mutant: a yielding thread goes to the front of the ready list. *)
YieldBodyLifo(t, switched, returned) ==
  IF readyList = <<>>
    THEN /\ Goto(t, returned)
         /\ UNCHANGED <<schedVars, userVars>>
    ELSE /\ currentThread' = Head(readyList)
         /\ status' = [status EXCEPT ![t] = "READY", ![Head(readyList)] = "RUNNING"]
         /\ readyList' = <<t>> \o Tail(readyList)
         /\ Goto(t, switched)
         /\ SaveState(t)
         /\ UNCHANGED toBeDestroyed

(* Thread::Yield with interrupts off: switch to the first ready thread and *)
(* go to the end of the ready list, or return when nobody is ready.        *)
YieldBody(t, switched, returned) ==
  IF readyList = <<>>
    THEN /\ Goto(t, returned)
         /\ UNCHANGED <<schedVars, userVars>>
    ELSE /\ currentThread' = Head(readyList)
         /\ status' = [status EXCEPT ![t] = "READY", ![Head(readyList)] = "RUNNING"]
         /\ readyList' = Append(Tail(readyList), t)
         /\ Goto(t, switched)
         /\ SaveState(t)
         /\ UNCHANGED toBeDestroyed

-----------------------------------------------------------------------------
(***************************************************************************)
(* Calls a thread makes from kernel code that runs with interrupts on.     *)
(***************************************************************************)
(* new Thread(name) *)
NewThread(t, u) ==
  /\ At(t, "body")
  /\ status[u] = "FREE"
  /\ status' = [status EXCEPT ![u] = "JUST_CREATED"]
  /\ Goto(u, "created")
  /\ UNCHANGED <<currentThread, readyList, toBeDestroyed, intVars, semVars,
                 ret, waitingOn, oldStatus, userVars>>

(* Mutant: Fork makes the thread ready without allocating its stack. *)
ForkNoStack(t, u) ==
  /\ At(t, "body")
  /\ status[u] = "JUST_CREATED"
  /\ status' = [status EXCEPT ![u] = "READY"]
  /\ readyList' = Append(readyList, u)
  /\ SetLevelOn(t)
  /\ UNCHANGED <<currentThread, toBeDestroyed, machineStatus, yieldOnReturn,
                 pending, semVars, waitingOn, oldStatus, userVars>>

(* Thread::Fork: StackAllocate, then ReadyToRun with interrupts off. *)
Fork(t, u) ==
  /\ At(t, "body")
  /\ status[u] = "JUST_CREATED"
  /\ status' = [status EXCEPT ![u] = "READY"]
  /\ readyList' = Append(readyList, u)
  /\ pc' = [pc EXCEPT ![u] = "begin", ![t] = "tick"]
  /\ ret' = [ret EXCEPT ![u] = "body", ![t] = "body"]
  /\ level' = "IntOff"
  /\ UNCHANGED <<currentThread, toBeDestroyed, machineStatus, yieldOnReturn,
                 pending, semVars, waitingOn, oldStatus, userVars>>

(* Thread::Yield called by the thread itself. *)
Yield(t) ==
  /\ At(t, "body")
  /\ level' = "IntOff"
  /\ ret' = [ret EXCEPT ![t] = "body"]
  /\ YieldBody(t, "yielded", "tick")
  /\ UNCHANGED <<machineStatus, yieldOnReturn, pending, semVars, waitingOn,
                 oldStatus>>

(* Semaphore::P: SetLevel(IntOff), then the loop (see PTest). *)
P(t, s) ==
  /\ At(t, "body")
  /\ level' = "IntOff"
  /\ Goto(t, "P")
  /\ waitingOn' = [waitingOn EXCEPT ![t] = s]
  /\ UNCHANGED <<schedVars, machineStatus, yieldOnReturn, pending, semVars,
                 ret, oldStatus, userVars>>

(* Semaphore::V called by a thread. *)
V(t, s) ==
  /\ At(t, "body")
  /\ VBody(s)
  /\ SetLevelOn(t)
  /\ UNCHANGED <<machineStatus, yieldOnReturn, pending, waitingOn, oldStatus,
                 userVars>>

(* A request to a device that is idle: Interrupt::Schedule. *)
StartIO(t, d) ==
  /\ At(t, "body")
  /\ d \notin pending
  /\ pending' = pending \cup {d}
  /\ UNCHANGED <<schedVars, level, machineStatus, yieldOnReturn, semVars, pc,
                 ret, waitingOn, oldStatus, userVars>>

(* Thread::Finish: SetLevel(IntOff), then Sleep(TRUE).  A thread with an   *)
(* address space never gets here: Machine::Run does not return and no      *)
(* system call finishes a thread.                                          *)
Finish(t) ==
  /\ At(t, "body")
  /\ ~ space[t]
  /\ level' = "IntOff"
  /\ status' = [status EXCEPT ![t] = "BLOCKED"]
  /\ Goto(t, "sleep")
  /\ UNCHANGED <<currentThread, readyList, toBeDestroyed, machineStatus,
                 yieldOnReturn, pending, semVars, ret, waitingOn, oldStatus,
                 userVars>>

(* AddrSpace::Execute: set the space, load the machine registers and enter *)
(* Machine::Run.                                                           *)
Execute(t) ==
  /\ At(t, "body")
  /\ ~ space[t]
  /\ space' = [space EXCEPT ![t] = TRUE]
  /\ loaded' = t
  /\ machineStatus' = "UserMode"
  /\ Goto(t, "user")
  /\ UNCHANGED <<schedVars, level, yieldOnReturn, pending, semVars, ret,
                 waitingOn, oldStatus, saved>>

(* One round of the loop of Machine::Run that does not trap: OneTick. *)
OneInstruction(t) ==
  /\ At(t, "user")
  /\ level' = "IntOff"
  /\ Goto(t, "tick")
  /\ ret' = [ret EXCEPT ![t] = "user"]
  /\ UNCHANGED <<schedVars, machineStatus, yieldOnReturn, pending, semVars,
                 waitingOn, oldStatus, userVars>>

(* Machine::RaiseException up to the call of ExceptionHandler. *)
RaiseException(t) ==
  /\ At(t, "user")
  /\ machineStatus' = "SystemMode"
  /\ Goto(t, "body")
  /\ UNCHANGED <<schedVars, level, yieldOnReturn, pending, semVars, ret,
                 waitingOn, oldStatus, userVars>>

(* ExceptionHandler returns to RaiseException, and OneInstruction to       *)
(* Machine::Run, which calls OneTick.                                      *)
ReturnFromException(t) ==
  /\ At(t, "body")
  /\ space[t]
  /\ machineStatus' = "UserMode"
  /\ level' = "IntOff"
  /\ Goto(t, "tick")
  /\ ret' = [ret EXCEPT ![t] = "user"]
  /\ UNCHANGED <<schedVars, yieldOnReturn, pending, semVars, waitingOn,
                 oldStatus, userVars>>

(* Mutant: P takes a unit without testing that there is one. *)
PTestNot(t) ==
  /\ At(t, "P")
  /\ value' = [value EXCEPT ![waitingOn[t]] = @ - 1]
  /\ waitingOn' = [waitingOn EXCEPT ![t] = NULL]
  /\ SetLevelOn(t)
  /\ UNCHANGED <<schedVars, queue, machineStatus, yieldOnReturn, pending,
                 oldStatus, userVars>>

-----------------------------------------------------------------------------
(***************************************************************************)
(* Steps inside the kernel, with interrupts off.                           *)
(***************************************************************************)
(* The loop test of Semaphore::P: consume the value, or join the queue and *)
(* call Sleep(FALSE).                                                      *)
PTest(t) ==
  LET s == waitingOn[t] IN
  /\ At(t, "P")
  /\ \/ /\ value[s] > 0
        /\ value' = [value EXCEPT ![s] = @ - 1]
        /\ waitingOn' = [waitingOn EXCEPT ![t] = NULL]
        /\ SetLevelOn(t)
        /\ UNCHANGED <<queue, status>>
     \/ /\ value[s] = 0
        /\ queue' = [queue EXCEPT ![s] = Append(@, t)]
        /\ status' = [status EXCEPT ![t] = "BLOCKED"]
        /\ Goto(t, "sleep")
        /\ UNCHANGED <<value, waitingOn, level, ret>>
  /\ UNCHANGED <<currentThread, readyList, toBeDestroyed, machineStatus,
                 yieldOnReturn, pending, oldStatus, userVars>>

(* Thread::Sleep finds a ready thread and Runs it.  A thread that is in    *)
(* Sleep and not in P is finishing: Run leaves it in toBeDestroyed.  The   *)
(* ready thread may be the sleeper, woken by a handler while it idled.     *)
SleepRun(t) ==
  /\ At(t, "sleep")
  /\ readyList # <<>>
  /\ currentThread' = Head(readyList)
  /\ status' = [status EXCEPT ![Head(readyList)] = "RUNNING"]
  /\ readyList' = Tail(readyList)
  /\ IF waitingOn[t] = NULL
       THEN toBeDestroyed' = t /\ Goto(t, "finished")
       ELSE UNCHANGED toBeDestroyed /\ Goto(t, "asleep")
  /\ SaveState(t)
  /\ UNCHANGED <<intVars, semVars, ret, waitingOn, oldStatus>>

(* Thread::Sleep finds no ready thread and calls Interrupt::Idle. *)
EnterIdle(t) ==
  /\ At(t, "sleep")
  /\ readyList = <<>>
  /\ machineStatus' = "IdleMode"
  /\ Goto(t, "idle")
  /\ UNCHANGED <<schedVars, level, yieldOnReturn, pending, semVars, ret,
                 waitingOn, oldStatus, userVars>>

(* Idle returns.  CheckIfDue(TRUE) has always fired something, if only the *)
(* timer, whose handler does nothing while the machine is idle.            *)
LeaveIdle(t) ==
  /\ At(t, "idle")
  /\ machineStatus' = "SystemMode"
  /\ Goto(t, "sleep")
  /\ UNCHANGED <<schedVars, level, yieldOnReturn, pending, semVars, ret,
                 waitingOn, oldStatus, userVars>>

(* Where CheckIfDue runs the handlers of interrupts that are due. *)
InCheckIfDue(t) == At(t, "tick") \/ At(t, "retick") \/ At(t, "idle")

(* CheckIfDue calls the handler of a device: V of its semaphore. *)
DeviceInterrupt(t, d) ==
  /\ InCheckIfDue(t)
  /\ d \in pending
  /\ pending' = pending \ {d}
  /\ VBody(DoneSem[d])
  /\ UNCHANGED <<level, machineStatus, yieldOnReturn, pc, ret, waitingOn,
                 oldStatus, userVars>>

(* CheckIfDue calls the handler of the timer, Alarm::CallBack. *)
TimerInterrupt(t) ==
  /\ InCheckIfDue(t)
  /\ machineStatus # "IdleMode"
  /\ ~ yieldOnReturn
  /\ yieldOnReturn' = TRUE
  /\ UNCHANGED <<schedVars, level, machineStatus, pending, semVars, pc, ret,
                 waitingOn, oldStatus, userVars>>

(* OneTick ends without a time slice.  In the nested case the Yield and    *)
(* the outer OneTick return too, which restores its oldStatus.             *)
EndTick(t) ==
  /\ At(t, "tick") \/ At(t, "retick")
  /\ ~ yieldOnReturn
  /\ level' = "IntOn"
  /\ machineStatus' = IF pc[t] = "retick" THEN oldStatus[t] ELSE machineStatus
  /\ Goto(t, ret[t])
  /\ UNCHANGED <<schedVars, yieldOnReturn, pending, semVars, ret, waitingOn,
                 oldStatus, userVars>>

(* Mutant: OneTick does not switch to SystemMode before it yields. *)
PreemptTickMode(t) ==
  /\ At(t, "tick") \/ At(t, "retick")
  /\ yieldOnReturn
  /\ yieldOnReturn' = FALSE
  /\ oldStatus' = IF pc[t] = "tick"
                    THEN [oldStatus EXCEPT ![t] = machineStatus] ELSE oldStatus
  /\ YieldBody(t, "preempted", "retick")
  /\ UNCHANGED <<level, machineStatus, pending, semVars, ret, waitingOn>>

(* OneTick ends with the Yield that the timer asked for.  A nested OneTick *)
(* began in SystemMode, so only the outer oldStatus has to be kept.        *)
PreemptTick(t) ==
  /\ At(t, "tick") \/ At(t, "retick")
  /\ yieldOnReturn
  /\ yieldOnReturn' = FALSE
  /\ oldStatus' = IF pc[t] = "tick"
                    THEN [oldStatus EXCEPT ![t] = machineStatus] ELSE oldStatus
  /\ machineStatus' = "SystemMode"
  /\ YieldBody(t, "preempted", "retick")
  /\ UNCHANGED <<level, pending, semVars, ret, waitingOn>>

(* Mutant: Thread::Begin does not call CheckToBeDestroyed. *)
SwitchedInBegin(t) ==
  /\ currentThread = t
  /\ pc[t] \in SwitchedOut
  /\ LET next == CASE pc[t] = "begin"     -> "tick"
                   [] pc[t] = "yielded"   -> "tick"
                   [] pc[t] = "preempted" -> "retick"
                   [] pc[t] = "asleep"    -> "P"
     IN IF toBeDestroyed = NULL \/ pc[t] = "begin"
          THEN Goto(t, next) /\ UNCHANGED <<status, toBeDestroyed>>
          ELSE /\ pc' = [pc EXCEPT ![t] = next, ![toBeDestroyed] = "none"]
               /\ status' = [status EXCEPT ![toBeDestroyed] = "FREE"]
               /\ toBeDestroyed' = NULL
  /\ loaded' = IF space[t] /\ pc[t] # "begin" THEN saved[t] ELSE loaded
  /\ UNCHANGED <<currentThread, readyList, intVars, semVars, ret, waitingOn,
                 oldStatus, space, saved>>

(* SWITCH has brought t in: CheckToBeDestroyed deletes the thread that     *)
(* finished, the user registers of t are restored, and t goes on where it  *)
(* called Run, or with Thread::Begin.                                      *)
SwitchedIn(t) ==
  /\ currentThread = t
  /\ pc[t] \in SwitchedOut
  /\ LET next == CASE pc[t] = "begin"     -> "tick"
                   [] pc[t] = "yielded"   -> "tick"
                   [] pc[t] = "preempted" -> "retick"
                   [] pc[t] = "asleep"    -> "P"
     IN IF toBeDestroyed = NULL
          THEN Goto(t, next) /\ UNCHANGED status
          ELSE /\ pc' = [pc EXCEPT ![t] = next, ![toBeDestroyed] = "none"]
               /\ status' = [status EXCEPT ![toBeDestroyed] = "FREE"]
  /\ toBeDestroyed' = NULL
  /\ loaded' = IF space[t] /\ pc[t] # "begin" THEN saved[t] ELSE loaded
  /\ UNCHANGED <<currentThread, readyList, intVars, semVars, ret, waitingOn,
                 oldStatus, space, saved>>

(* A step of the kernel on behalf of thread t. *)
KernelStep(t) ==
  \/ PTest(t)
  \/ SleepRun(t)
  \/ EnterIdle(t)
  \/ LeaveIdle(t)
  \/ TimerInterrupt(t)
  \/ EndTick(t)
  \/ PreemptTick(t)
  \/ SwitchedIn(t)
=============================================================================

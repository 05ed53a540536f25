----------------------------- MODULE SynchDisk ------------------------------
(***************************************************************************)
(* The synchronous disk (filesys/synchdisk.cc) over the simulated one      *)
(* (machine/disk.cc): a lock lets one request at a time reach the disk,    *)
(* and the thread that made it waits on a semaphore for the interrupt.     *)
(*                                                                         *)
(* The sector is transferred when the request is made, under the lock;     *)
(* its contents and the latency of the request are left out here, and so   *)
(* ReadSector and WriteSector are the same.  stage[t] is                   *)
(*                                                                         *)
(*   out        in no disk operation                                       *)
(*   acquire    in the P of lock->Acquire()                                *)
(*   requested  has made its request                                       *)
(*   wait       in semaphore->P()                                          *)
(***************************************************************************)
EXTENDS Lock

CONSTANTS
  disk,     \* the disk, a device of the kernel
  DiskSem   \* SynchDisk::semaphore

ASSUME SynchDiskAssumption ==
  /\ {LockSem, DiskSem} \subseteq Semaphores /\ LockSem # DiskSem
  /\ InitialValue[LockSem] = 1 /\ InitialValue[DiskSem] = 0
  /\ Devices = {disk} /\ DoneSem[disk] = DiskSem

VARIABLES
  active,  \* Disk::active
  stage    \* where each thread is (see above)

diskVars == <<lockHolder, active, stage>>
vars == <<kernelVars, diskVars>>

Stages == {"out", "acquire", "requested", "wait"}

(* SynchDisk::SynchDisk, Disk::Disk *)
Init ==
  /\ KernelInit
  /\ LockInit
  /\ active = FALSE
  /\ stage = [t \in Threads |-> "out"]

SetStage(t, s) == stage' = [stage EXCEPT ![t] = s]

(* SynchDisk::ReadSector and WriteSector: lock->Acquire() *)
Call(t) ==
  /\ stage[t] = "out"
  /\ LockAcquire(t)
  /\ SetStage(t, "acquire")
  /\ UNCHANGED active

(* The lock is acquired: Disk::ReadRequest or WriteRequest, which asserts  *)
(* that the disk is not active.                                            *)
Request(t) ==
  /\ stage[t] = "acquire"
  /\ LockAcquired(t)
  /\ ~ active
  /\ active' = TRUE
  /\ StartIO(t, disk)
  /\ SetStage(t, "requested")

(* Mutant: the lock is released before the wait for the interrupt. *)
WaitForDiskUnlocked(t) ==
  /\ stage[t] = "requested"
  /\ LockRelease(t)
  /\ SetStage(t, "out")
  /\ UNCHANGED active

(* semaphore->P() *)
WaitForDisk(t) ==
  /\ stage[t] = "requested"
  /\ P(t, DiskSem)
  /\ SetStage(t, "wait")
  /\ UNCHANGED <<lockHolder, active>>

(* The interrupt has come: lock->Release() *)
Return(t) ==
  /\ stage[t] = "wait"
  /\ LockRelease(t)
  /\ SetStage(t, "out")
  /\ UNCHANGED active

(* Disk::CallBack and SynchDisk::CallBack *)
DiskInterrupt(t) ==
  /\ DeviceInterrupt(t, disk)
  /\ active' = FALSE
  /\ UNCHANGED <<lockHolder, stage>>

(* A thread in no disk operation may create, fork, yield and finish.       *)
Outside(t) ==
  /\ stage[t] = "out"
  /\ \/ \E u \in Threads : NewThread(t, u) \/ Fork(t, u)
     \/ Yield(t)
     \/ Finish(t)
  /\ UNCHANGED diskVars

Next ==
  \E t \in Threads :
    \/ Call(t)
    \/ Request(t)
    \/ WaitForDisk(t)
    \/ Return(t)
    \/ DiskInterrupt(t)
    \/ Outside(t)
    \/ KernelStep(t) /\ UNCHANGED diskVars

Spec == Init /\ [][Next]_vars

(***************************************************************************)
(* The fairness of the simulated machine: see Threads.tla.                 *)
(***************************************************************************)
Fairness ==
  /\ WF_vars(Next)
  /\ SF_vars(\E t \in Threads : TimerInterrupt(t) /\ UNCHANGED diskVars)
  /\ \A t \in Threads : SF_vars(EndTick(t) /\ UNCHANGED diskVars)
  /\ SF_vars(\E t \in Threads : DiskInterrupt(t))

FairSpec == Spec /\ Fairness

-----------------------------------------------------------------------------
(* Every variable has its type. *)
TypeOK ==
  /\ KernelTypeOK
  /\ lockHolder \in Threads \cup {NULL}
  /\ active \in BOOLEAN
  /\ stage \in [Threads -> Stages]

(* The threads that hold the lock of the disk. *)
Locked ==
  {t \in Threads : \/ stage[t] = "acquire" /\ waitingOn[t] = NULL
                   \/ stage[t] \in {"requested", "wait"}}

(* The threads whose request has not been answered yet. *)
Unanswered ==
  {t \in Threads : \/ stage[t] = "requested"
                   \/ stage[t] = "wait" /\ waitingOn[t] # NULL}

(* "Only one request allowed at a time" (Disk::ReadRequest and             *)
(* WriteRequest assert it), whoever made a request holds the lock to the   *)
(* end (Lock::Release asserts it), and each request is answered by its own *)
(* interrupt: the one thread whose request is not answered has either the  *)
(* disk active or its wake-up stored in the semaphore, so no interrupt is  *)
(* lost or left over for the next request, even when it comes before the P *)
(* or the thread is preempted.                                             *)
RequestSafe ==
  /\ \A t \in Threads : At(t, "body") /\ stage[t] = "acquire" => ~ active
  /\ \A t \in Threads : stage[t] \in {"requested", "wait"} => lockHolder = t
  /\ Cardinality(Locked) + value[LockSem] = 1
  /\ active <=> disk \in pending
  /\ Cardinality(Unanswered) = value[DiskSem] + (IF active THEN 1 ELSE 0)

(* A disk request is answered: the thread that made it returns from        *)
(* ReadSector or WriteSector.                                              *)
RequestReturns ==
  \A t \in Threads : stage[t] = "requested" ~> stage[t] = "out"
=============================================================================

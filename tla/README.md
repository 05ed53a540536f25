# A TLA+ model of Nachos

Nachos is a teaching operating system: a kernel and the machine it runs on,
simulated in one UNIX process. This directory models its parts, checks them with
TLC on small instances, and proves with TLAPS, for every value of the constants, the
invariants of the thread system, of everything that waits on its semaphores (locks,
condition variables, the synchronized list, the disk and the console), of the
simulated clock, the post office, the system calls and the Nachos file system, and two
refinements: of the synchronized list and of the file system.

The build that is modelled is the one of `build.linux/Makefile`: the stub file
system (`FILESYS_STUB`), UNIX sockets for the network, `RDATA`, `SIM_FIX` and no
TLB. `FileSystem` is the exception: it models the file system of Nachos itself,
from the code that is compiled without `FILESYS_STUB`.

## The system and its parts

| Part | Source | Modules | Proofs |
| --- | --- | --- | --- |
| Threads, scheduler, semaphores | `threads/thread.cc`, `scheduler.cc`, `synch.cc` | `Kernel`, `Threads` | `ThreadsProofs`, `KernelProofs` |
| Interrupts, timer, alarm | `machine/interrupt.cc`, `timer.cc`, `threads/alarm.cc` | `Kernel`; with time: `Interrupts` | the same; `MachineProofs` |
| Locks, condition variables | `threads/synch.cc` | `Lock`, `Monitor`, `MonitorClient` | `MonitorProofs` |
| Synchronized list | `threads/synchlist.cc` | `SynchList`, abstract: `BlockingList` | `MonitorProofs` |
| Synchronous disk | `filesys/synchdisk.cc`, `machine/disk.cc` | `SynchDisk`; with time: `Interrupts` | `KernelProofs`; `MachineProofs` |
| Console | `machine/console.cc`, `userprog/synchconsole.cc` | `Console` | `ConsoleProofs` |
| Network, post office, network self-test | `machine/network.cc`, `network/post.cc`, `threads/kernel.cc` | `PostOffice`, `PostOfficeClient`, `NetworkTest`, `Network`, abstract: `BlockingList` | `NetworkProofs` |
| File and socket system calls, stub file system | `userprog/exception.cc`, `filesys/filesys.h`, `openfile.h` | `FileCalls`, `SocketCalls` | `MachineProofs` |
| Nachos file system, bitmap | `filesys/filesys.cc`, `directory.cc`, `filehdr.cc`, `openfile.cc`, `pbitmap.cc`, `lib/bitmap.cc` | `FileSystem`, abstract: `FileMap` | `FileSystemTerms`, `FileSystemLemmas`, `FileSystemProofs` |
| MIPS simulator | `machine/mipssim.cc`, `machine.cc` | `Mips`, `UserMachine`, abstract: `MipsArch` | |
| Address spaces, translation | `userprog/addrspace.cc`, `machine/translate.cc` | `AddrSpace`, `UserMachine` | `MachineProofs` |
| Lists, hash table | `lib/list.cc`, `lib/hash.cc` | `List`, `HashTable`, `Library`, abstract: `Containers` | |

Everything rests on the kernel. A semaphore is the only thing a thread sleeps
on; locks, conditions, the synchronized list, the disk and the console are built
from semaphores, and a device reports by a V in its interrupt handler. So
`Monitor`, `SynchList`, `SynchDisk` and `Console` EXTEND `Kernel` and add their
own variables and calls, and every interleaving that the thread system allows,
time slices included, is an interleaving of theirs. Their proofs rest on the kernel's
in the same way.

The other modules cut the system at an interface that one of the models
establishes:

- `PostOffice` has several machines, so it does not carry a whole kernel for each.
  Semaphores, locks and synchronized lists are atomic in it (`threads`, `monitor`),
  and its steps are the pieces of code between two of those operations.
- `Interrupts` has the times that `Kernel` leaves out, and no threads. Its
  `OneEach` is why `Kernel` may leave out the branch of `Idle` that halts the
  machine, and why one pending interrupt for each device is enough there.
- `FileSystem` takes from `SynchDisk` that reading or writing a sector is atomic.
- Every other module takes a list to be a sequence: `Library` shows that the linked
  lists implement sequences.

## Conventions

- Actions keep the names of the functions they model. A call that waits is
  split where the thread can be switched out.
- An `ASSERT` that the code itself has to make true is a guard of its action,
  and an invariant says that it holds whenever the action is reached. One that
  is a duty of the caller (`List::Append`) is kept by the client of the model.
- A definition whose comment begins "Mutant" is a faulty variant of the definition
  after it. No specification uses it; it is there to see that a property fails
  when the code is wrong in that way.
- Bounds are CONSTANTS, or definitions whose comment begins "bound": `MaxValue`,
  `MaxItems`, `MaxFile`, `MaxSocket`, `MaxSize`, `MaxLength`, `MaxTicks`, `Fds`,
  `Inodes`, `DescriptorLeft`, `Keyboard`, `unsent`.
- Undefined behaviour (`UndefinedBehaviour` in `FileCalls`) leaves it open
  whether the kernel crashes or goes on.

## The models and their runs

### Kernel, Threads: run `threads`

Nachos runs on one simulated CPU. Control moves from one thread to another only
at the `SWITCH` in `Scheduler::Run`, and an interrupt handler runs only inside
`Interrupt::OneTick` or `Interrupt::Idle`. So every step of the model is a step of
`currentThread`, and `pc[t]` says where each thread is in that code; the header of
`Kernel` lists the places. Each call (`NewThread`, `Fork`, `Yield`, `P`, `V`,
`StartIO`, `Finish`, `Execute`, `RaiseException`, `ReturnFromException`) is an
action enabled in kernel code with interrupts on. The steps in between, with
interrupts off, are `PTest` (the loop of `Semaphore::P`), `SleepRun`, `EnterIdle`,
`LeaveIdle`, `DeviceInterrupt`, `TimerInterrupt`, `EndTick`, `PreemptTick` and
`SwitchedIn` (what follows the `SWITCH`). Which interrupts are due at a tick is a
nondeterministic choice. `Threads` is the kernel under its most general client
(`KernelCalls`), which may make any call at any time. It starts with the `Enable` at
the end of `Kernel::Initialize`; the postal worker, which the constructor of
`PostOfficeInput` forks just before, is a thread that main forks after it.

- `KernelTypeOK`: the types; what it says beyond them is that no value of a semaphore
  is negative.
- `SchedulerInv`: the ready list and the semaphore queues hold exactly the
  threads whose status says so, once each.
- `ControlInv`: a thread that is not running is at a place where `Run` can
  resume it, and one that sleeps is in a `P` or is finishing.
- `NoLostWakeup`: while a thread sleeps in a queue, every unit of the value has
  a thread on its way to take it. `P` tests in a loop because a thread that
  never slept may take the unit of one that was woken.
- `DestroySafe`: `toBeDestroyed` is set only from a SWITCH to the next thread's
  first step; a thread is never deleted while it is current.
- `TickSafe`, `UserContextSafe`: the interrupt level, the pending time slice, the
  machine mode and the user registers are single variables that all threads
  share; each fits the thread that executes although a tick of one thread contains
  steps of others.
- `ReadyRuns`, `ValueTaken` (liveness): a thread on the ready list runs, and a unit
  of a semaphore is not left while threads are in its P.

Three threads are the fewest with which one runs, one is ready and one sleeps, or
a thread is deleted while two others wait. One semaphore, used by the threads and
signalled by the device, and one thread that may run a user program keep the
instance small enough for the liveness properties; the invariants are proved for
all sets of threads, semaphores and devices. `MaxValue` is 1: a second unit adds no
new choice for V.

### Lock, Monitor, SynchList: run `monitor`

`Lock` is the lock over its semaphore, and `Monitor` adds a condition variable with
one semaphore for each waiter. `at[t]` is the place of thread `t` in these calls.
`MonitorClient` has two clients, and each behaviour chooses one: the most general
client of a monitor, and the synchronized list. (`Condition::Broadcast` is called by
nothing in the source; the general client calls it.)

- `MonitorSafe`: mutual exclusion, with `lockHolder` right except in the window
  between the P of `Acquire` and its assignment; and although `Wait` releases the
  lock and then sleeps, a signal sent in between is kept in the waiter's semaphore.
- `NoItemStranded`: while a thread waits for an item, every item in the list has a
  thread on its way to test the list.
- `ListSpec`: `SynchList` implements `BlockingList`, a first-in first-out list whose
  operations are atomic; the mapping is the list itself, the threads in
  `RemoveFront` and the last item returned.
- `ItemsTaken` (liveness): no item stays in the list while somebody waits, *if the
  calls of `Apply` come to an end*. Without the proviso this is false: the lock is
  not fair, and TLC shows a thread that calls `Apply` in a loop and holds the lock
  each time the thread in `RemoveFront` is woken and tests it. Endless calls of
  `Append` could starve it in the same way; `Room`, the bound on the list, excludes
  them, so the model says nothing about that case.

`List::Append` asserts that the item is not yet in the list, so the client appends
an item only when it is not; two items and a list of two suffice for order. Of the
three threads two call `Append` and two `RemoveFront`, one of them both (`Appenders`,
`Removers`), so that appenders and removers compete among themselves and with each
other; the proofs are for all sets of callers.

### SynchDisk, Console: runs `synchdisk`, `console`, `console_eof`

`synchdisk`, with three threads: `RequestSafe`, one request at a time and one answer
for each even if the interrupt comes before its thread waits, with the assertions of
the disk and of `Lock::Release`; `RequestReturns`, every request returns.

`Console` has both halves of the console. `unread` is the rest of the input file,
`gotten` a history of what `GetChar` returned. `console` (two threads) checks

- `InputInOrder`: what was read, what the device holds and what is unread make up the
  input, in order, whichever threads read;
- `ConsoleSafe`: a character in the device has exactly one wake-up, stored in
  `waitFor` or taken by the one thread that will read it; each character put is
  answered by its own interrupt; the assertions of both devices and of `Lock::Release`
  hold, and no string outgrows a buffer of `GetString` that has any room;

and under fairness `PutReturns` and `InputConsumed`. The sizes that a caller may pass
to `GetString` are `Sizes`: with 1 or less nothing is read (`GetNothing`), and with 0
the terminating NUL is one byte too far (see Divergences). A poll that finds no character only
reschedules itself and is left out, as a step that changes nothing. `console_eof`
shows a disagreement: see below.

### PostOffice, NetworkTest, Network: run `network`

Each host has a one-packet buffer (`inHdr`), a postal worker, mailboxes, and an
output device with its lock. A packet is lost by choice of `Transmit`;
`chanceToWork` is fixed at the start to "never", "sometimes" or "always". `Network`
starts both machines either with `NetworkTest`, in which each sends a message to
box 0 of the other, waits for the other's, acknowledges it to box 1 and waits for
its own acknowledgement, or with programs that send and receive as they like. For
the latter `chanceToWork` is only "sometimes", a bound: it allows every step that
the other two allow.

- `OfficeSafe`: each buffered packet is announced to the worker exactly once and is
  not overwritten before the worker has it; one message at a time is sent.
- `MailSpec`: the packets on their way to a mailbox and those in it are one
  `BlockingList`, to which a Send appends and from which a Receive takes.
- `AckMeansReceived`: an acknowledgement means that the message was received,
  whatever is lost.
- `MailArrives`, `SendsReturn`, `TestEnds` (liveness): mail that was not lost is
  received while somebody waits for it; a Send that has `sendLock` returns; the test
  ends on both machines if nothing is lost. If something is, it never does: the test
  has no retry.

The instance has two machines, with one client thread on the first and two on the
second, so that senders compete for `sendLock` and receivers for a box. Each payload
is sent once by a program (`unsent`), and the test ends, so the run does not check
for deadlock.

### FileCalls, SocketCalls: runs `calls`, `socket_full`

One action for each system call, from the handlers of `ExceptionHandler`, over a
small UNIX (names, files, descriptors). A program may make any call with any
arguments, ids that are not its own included. `held` is the set of sockets that it
has been given and has not closed; `strayed` records that `SC_CloseSoc` has accepted
an id that is not one of them, which the entries it leaves behind make possible.

- `SocketsAndFilesApart`: each descriptor that a file holds belongs to exactly one
  slot of the table of open files, and the sockets that are open are those that the
  program holds. The table of sockets is wrong in ways shown below, but until a stray
  `SC_CloseSoc` no call leaks a descriptor or closes the descriptor of a file.
- `IdsAreStable`: an id stands for the same open file until it is closed, at an
  offset that only its own calls move; its descriptor stays open on the same UNIX file
  until a stray `SC_CloseSoc`.
- `WritesAreAllowed`: bytes of a file change only by a Write through an id that was
  opened for writing, at its offset, or by a Create of its name.

One name and two UNIX files are enough for a file that is removed and created again
while it is open. The ids lie on both sides of the ends of the tables, two descriptors
run out, and a transfer may be longer than the buffer of `SC_Receive`. What UNIX
answers is a choice among what it may answer; the bytes received are one too.
The VIEW of the run leaves out what the last call was and returned and the buffer
of the user, because no call reads them. A crash of the kernel ends a behaviour, so
deadlock is not checked.

### FileSystem, FileMap: run `file_system`

The file system on the sectors of its disk, as `main` uses it: boot, with or without
formatting (`-f`), then `-cp`, `-r` and `-p`. An operation reads what it needs (`disk`),
works on copies in memory (`image`) and then writes sectors one at a time (`todo`);
the machine may stop before each of these writes and boot again. A bitmap is the set
of its bits. Directory entries are cut into words so that an entry may lie across
two sectors, as it does with the real sizes, and uninitialized memory holds any of
`JunkNames`.

- `DiskAgrees`: bitmap, directory and headers agree between two operations, and no
  ASSERT of `Deallocate` fails, unless the machine stopped with only some of the writes
  of an operation done and they contradict each other (`crossed`). Nothing repairs the
  disk then, and the properties claim nothing beyond the assertions until it is
  formatted.
- `FileMapSpec`: the file system implements `FileMap`, a map from the names of the
  files there are to their bytes, which whole operations change; a stop harms no file
  but the one in progress. The mapping reads the map off `image`.
- `ReadsFile`, `CopyArrives`: `ReadAt` and `WriteAt`, which work in whole sectors,
  move exactly the bytes asked for, wherever they begin and end.

The disk has 11 sectors and the directory four entries, so both fill up.
`FileHeader::Allocate` does not compare the sectors of a file with `NumDirect`, the
length of the array in the header. A copy that needs more overruns the array in memory;
what becomes of the kernel then is not followed (`op.kind = "overrun"` is the last
state), and one of the UNIX files of the instance is that long.
`FileSystemAssumption` says how the constants go together: the sizes are positive, the
disk and a header have room for the system files, the UNIX files hold bytes, and `Names`
has the names of all files that are created and not `Missing`.
`openfile.h:103` declares `OpenFile(int, int)` and `openfile.cc:36` defines
`OpenFile(int, int, char*)`, so this build does not compile as it stands; the model
takes the definition.

### Mips, AddrSpace, UserMachine, MipsArch: run `machine`

`Mips` has the instructions of `Machine::OneInstruction` as functions of the machine,
with their widths as parameters; `AddrSpace` loads a program and translates
addresses; `UserMachine` runs any program drawn from `Code`, with an interrupt
possible between any two instructions and with exceptions and system calls.
`MipsArch` is the architecture a program may rely on, written without the simulator's
delayed-load registers.

- `ArchSpec`: `UserMachine` implements `MipsArch`, where the registers are mapped to
  what they are once the pending load is done. Interrupts, which complete the load
  early, and exceptions cannot be told from the processor's. What the architecture
  leaves undefined (`Undefined`) is not executed, and neither are `SRL` and `SRLV` of a
  negative word, which the simulator gets wrong (see Divergences).
- `MemorySafe`: an access that is translated lies in the address space and in memory,
  the kernel's `AddrSpace::Translate` agrees, and a changed page is marked dirty.

A byte has two bits and a word eight, which keeps sign extension, the four positions
of `LWL` and `LWR`, both halves of a product and the overflow of every operation. Each
program of the instance builds a value in two registers (0, -1, the least and the
greatest word and values near them, twelve in one and six in the other), may start a
load, executes any one instruction on them in either order, and then two more so that
loads and branches take effect.

### List, HashTable, Library, Containers: run `library`

Lists, sorted lists and the hash table at the level of their pointers, under any
series of calls whose ASSERTs hold, in the order of `LibSelfTest`. `LibrarySane` is
what their `SanityCheck` methods test. `ContainersSpec`: they implement sequences and
maps, with a sorted insertion behind the items it ties with, a fact the order of
simultaneous interrupts rests on. `IterationComplete`: a `HashIterator` is at each item
exactly once. Six items over four addresses exercise ties, reuse of freed elements and
rehashing.

### Interrupts: run `interrupts`

The clock, the sorted list of pending interrupts, and the timer, the network input,
the display and the disk with the delays they ask for. (The keyboard polls as the
network input does, and the network output delays as the display does; they are left
out here.) `OnTime`: interrupts come in order, never early and never a whole SystemTick
late. `OneEach`: a busy device has exactly one interrupt pending, an idle one none, the
timer and the network input always one. `DiskTiming`: `ComputeLatency`, with its track
buffer, is the time that a rotating disk takes. The times of the instance are pairwise
out of step and the clock passes several rotations before `MaxTicks`, where the
behaviours end; so deadlock is not checked.

## Fairness

The simulator runs until it is halted, so the machine always takes a step: weak
fairness of `Next`. An interrupt that is pending becomes due, since every tick
advances the clock (`OnTime`): strong fairness of each device's interrupt and of the
timer. A timer interrupt comes every `TimerTicks` (100), ten times a `SystemTick`, so
it does not end every tick of a thread: strong fairness of `EndTick` for each thread.
No fairness is assumed of what a thread chooses to call.

`Network` assumes weak fairness of the interrupts, which poll again and again, of the
workers, and of a thread that can go on. That a mailbox gives its mail to somebody who
waits is `ItemsTaken`: nobody calls `Apply` on a mailbox, and the worker, its only
appender, waits for an interrupt between two messages. Nothing is assumed of
`sendLock`, which is not fair, except in the test, where each machine has one sender.

## Divergences

Two runs state what the source says of itself and are expected to be violated.

- `console_eof` (`EndOfInputReturns`). `syscall.h:154` says that a Read from a
  device returns whatever is available. At the end of the input file no further
  interrupt is scheduled, and `GetString` asks for another character: it waits
  for ever and keeps the input lock.
- `socket_full` (`FullMeansFull`). `findIndexSocket` returns the descriptor where
  its index is meant, so `SC_CloseSoc` clears another entry. The entries of
  closed sockets fill the table until `SC_SocketTCP` says "Socket is full!"
  (`exception.cc:293`) with fewer than `MaxSocket` sockets open.

These others were met while modelling. The models follow the code; no run is
kept for them.

| Source | What it says | What the code does |
| --- | --- | --- |
| `network.h:107` | "Packet is being sent." | `sendBusy` is never set, so the assertion at `network.cc:165` tests nothing |
| `syscall.h:134`, `165` | "Return 1 on success" | `SC_Create` and `SC_Close` return 0 |
| `syscall.h:147` | "On failure, a negative error code is returned." | `SC_Write` to an id that is not open uses a NULL entry (`exception.cc:686`) |
| `exception.cc:242` | "check if file is opened or not" | the names compared with were freed by `SC_Open` (`exception.cc:206`) |
| `syscall.h:145` | "Write "size" bytes from "buffer"" | the copy of the buffer ends at the first 0 (`exception.cc:51`) |
| `exception.cc:498` | "Id socket invalid!" | said of a client's descriptor that `SC_Accept` returned and did not enter in the table |
| `exception.cc:477` | `SC_CloseSoc` closes a socket | the entry it leaves behind lets the same id pass again; UNIX may have given the descriptor to an open file by then, and it is closed under the file (`strayed`) |
| `exception.cc:448` | `char recv[MaxLenghtData]` | the length that `SC_Receive` asks `read` for is not compared with it |
| `filesys.h:79` | `Create` returns FALSE if `OpenForWrite` fails | with no UNIX descriptor left, `OpenForWrite` fails its ASSERT (`sysdep.cc:312`) and Nachos aborts |
| `filehdr.cc:51` | the loop that fills `dataSectors` | a file of more than `NumDirect` sectors is not refused, and the loop writes beyond the header |
| `synchconsole.cc:67` | the NUL at the end of the string | for a size of 0 it is written behind the buffer |
| `mipssim.cc:520`, `526` | `OP_SRL`, `OP_SRLV`, the logical shifts | they shift an `int`: of a negative word the sign is shifted in, so the run tries them on positive words only |

## What is proved

Every theorem holds for all values of the constants that satisfy the named
assumptions of the modules. Each is of the form Init => IInv, IInv /\ [Next]_vars =>
IInv', IInv => Inv, with a lemma for each conjunct of IInv or for each action; the two
refinements add that every step is a step of the abstract specification or a stutter. A
proof module makes Zenon the prover of the steps that name no other (`USE`). The
assumptions on the kernel's clients say how their constants are chosen: the
semaphores of a lock start at 1 and the others at 0, they are different objects, a
device signals the semaphore of its own handler, and EOF is no character of the
input.

| Theorem | States | Inductive invariant |
| --- | --- | --- |
| `ThreadsProofs`: `TypeCorrect`, `SchedulerCorrect`, `ControlCorrect`, `DestroyCorrect` | `KernelTypeOK`, `SchedulerInv`, `ControlInv`, `DestroySafe` | `IInv`, the four together |
| `KernelProofs`: `TickCorrect`, `UserContextCorrect`, `WakeupCorrect` | `TickSafe`, `UserContextSafe`, `NoLostWakeup` | `TickInv`, `ContextInv` and `NoLostWakeup` itself, over `IInv` |
| `MonitorProofs`: `MonitorCorrect`, `ListCorrect`, `ListImplements` | `MonitorSafe`, `NoItemStranded`, `ListSpec` | `MonitorInv` and `OperationInv`, over `IInv` |
| `KernelProofs`: `RequestCorrect` | `RequestSafe` | `DiskInv`, over `IInv` |
| `ConsoleProofs`: `ConsoleCorrect`, `InputCorrect` | `ConsoleSafe`, `InputInOrder` | `ConsoleInv`, over `IInv` |
| `MachineProofs`: `OnTimeCorrect`, `OneEachCorrect`, `TimingCorrect` | `OnTime`, `OneEach`, `DiskTiming` | `OInv`, `EInv`, `TInv` |
| `MachineProofs`: `SegmentsFit`, `TranslationInMemory` | facts about the operators of `AddrSpace` | |
| `MachineProofs`: `DescriptorsCorrect`, `IdsAreStableCorrect`, `WritesAreAllowedCorrect` | `SocketsAndFilesApart`, `IdsAreStable`, `WritesAreAllowed` | `CInv` |
| `NetworkProofs`: `OfficeCorrect`, `AckCorrect` | `OfficeSafe`, `AckMeansReceived` | `NetworkInv` |
| `FileSystemProofs`: `DiskCorrect`, `ReadCorrect`, `CopyCorrect` | `DiskAgrees`, `ReadsFile`, `CopyArrives` | `IInv` of `FileSystemTerms` |
| `FileSystemProofs`: `FileMapCorrect` | `FileMapSpec` | `RInv`, over `IInv` |

- **Threads.** None of the four conjuncts of `IInv` is inductive alone. Where a thread
  is switched in, `SchedulerInv` needs from `ControlInv` where the thread stopped;
  `ControlInv` needs from `SchedulerInv` that the thread taken from the ready list is
  READY and that a thread woken by V is BLOCKED; both need `DestroySafe` to know which
  thread a switched-in thread deletes; and all need the types. `VBody`, `YieldBody`,
  `SleepRun` and `SwitchedIn`, which several actions share, have lemmas of their own.
  The facts about lists without repetitions that they need come first in the module.
- **Clients of the kernel.** The lemmas of `ThreadsProofs` are about `AnyStep`, the step
  of any client: any call of the kernel's interface, a step inside the kernel or a
  device interrupt. A module built on `Kernel` shows that its steps are such steps
  (`DiskStepIsAnyStep`, `ConsoleStepIsAnyStep`, ...) and has `IInv` for itself. From it
  the proofs use two facts: a thread that executes its own code is in no P
  (`BodyNotInP`), and inside the kernel a semaphore changes only when a P takes a unit
  of it (`KernelStepEffect`). What each of them adds is where a thread may be when it is
  in the P of a given semaphore, so that the unit it takes can be told for whom it was.
- **Wake-ups.** `NoLostWakeup` counts the threads that will test the value. A V adds a
  unit and, if somebody sleeps, such a thread; a P that succeeds takes both away; a
  thread goes to sleep only when the value is 0; no other step adds a unit or takes
  such a thread away.
- **Monitor and list.** `HolderInv`: the semaphore of the lock is 1 exactly when nobody
  is inside. `QueueInv`: a thread in `Wait` either is in the queue of the condition
  and has nothing in its own semaphore, or has been signalled and has one unit there.
  `NoItemStranded` counts, so `ListCorrect` follows the number of takers through an
  Append (one item more, and one waiter more signalled if there is one), a
  RemoveFront (one less of each) and a Wait, which is entered only with an empty list.
  `ListImplements` is the refinement of `BlockingList`: the initial states are
  its initial state, `AppendItem` is its `Put`, the call of RemoveFront its `Call`,
  `TakeItem` its `Take`, and every other step changes none of its variables.
- **Disk and console.** The properties count threads, the invariants speak of single
  ones: at most one thread has the lock; a request (a character put) that is not
  answered has its interrupt pending or a unit in the semaphore, and only one of them.
  The poll of the keyboard is the mirror image (`PollInv`): a poll that is pending, a
  wake-up stored and a thread that has taken it exclude each other, which is why
  `incoming` is never overwritten. The input and the output are kept apart
  (`InputQuiet`, `OutputQuiet`): no thread reads and writes at once.
- **Clock.** `OnTime` is inductive with the types of the list and the times
  (`TimesOK`): a sorted insertion keeps the list sorted, and a tick is at most a
  SystemTick. `OneEach` adds the counts of pending interrupts, and with them that the
  list is never empty, so that `Idle` always finds an interrupt.
- **Disk times.** `DiskTiming` counts in sector times: `HeadSettles` shows that a seek
  ends on a multiple of RotationTime, `ModuloDiffLemma` and `NextPass` that ModuloDiff
  counts the sectors to the next pass, and from these come the two halves of
  `ComputeLatency` (`FirstPassLemma`, `TrackLemma`). The track buffer needs an
  invariant besides (`Settled`): `bufferInit`, which a request sets to a time in the
  future, is a multiple of RotationTime and no later than the interrupt of that request,
  so it is past when the disk is idle again and can be asked.
- **Calls.** `CInv` is the types, and until a stray `SC_CloseSoc` that each descriptor
  has one owner (`Apart`): a slot of the table of open files or the program. The two
  action properties follow from it action by action.
- **Network.** The lemmas about the post offices (`OfficeInv`) hold for any machines,
  mailboxes and payloads. For the test, `PacketsLegal` says that every packet,
  wherever it is, is one the test sends, and an acknowledgement only if the message was
  heard; `Progress` ties `step` to what the machine has received. The
  inductive invariants of the network, the monitor, the disk and the console, and
  `Settled`, were checked with TLC before they were proved.
- **File system, a disk.** `FileSystemLemmas` is about single disks.
  `Sound` is what `DiskAgrees` asks of a disk, in terms of directory entries and the
  sectors each uses. The lemmas show that `FindAndSet` and `Allocate` return distinct
  sectors that were clear (`FirstFit` is the n-th smallest), that a directory written
  in pieces and fetched again is the same although entries lie across sectors, what
  the disks after a Create, a Remove and a format are in these terms (`Made`,
  `Removed`), and that they are `Sound` if the disk before was. Others are about
  bytes: which byte of which sector `ReadAt` and `WriteAt` take or set.
- **File system, its invariants.** In `IInv` the soundness is that of `image`, what the
  disk will be when the operation has written all its sectors; `Pending` says that
  until then the two differ only in sectors of `todo`. So a sector write needs no
  argument about files, and `DiskAgrees` is the case that `todo` is empty. `CopyInv`
  follows a copy: the header that `Copy` holds is the one on the disk, and the bytes
  before `seekPosition` are those of the UNIX file, which a write of the next chunk keeps
  because it rewrites what it does not change of its first and last sectors.
- **File system, a map.** `FileMapCorrect` maps each step: `Create`, `Remove` and `Copy`
  take effect where `image` changes, `Boot`, `CopyOpen` and `WriteSector` are stutters,
  and an operation that fails returns. The hard step is `Stop`, where `image` falls back
  to a disk on which some sectors are new and some old (`Mixed`). `RInv` says what is
  known of that disk. During a Create or Remove it lies between two sound disks, which
  differ in one entry of the directory, so the other files are the same on both; the map
  is the last sector that Create writes (`MapLast`), so a file whose entry is there and
  whose sectors are not marked is a contradiction, and the stop sets `crossed`. During a
  format the sectors are written in ascending order, the map before the directory. A
  stop between the words of one entry can leave an entry in use with the name of a file
  removed earlier; `StaleNames`, that no unused entry before an entry in use has its
  name, is why such an entry hides no other file from `Find`.
- **Address spaces.** `AddrSpace::Load` counts pages from the sizes of the segments and
  then reads them in at the addresses of the file. `SegmentsFit` shows that this is
  sound for files whose non-empty segments follow each other from 0 (`Contiguous`), as
  in the executables of `code/test`; nothing in `Load` tests it. `TranslationInMemory`
  needs that the page size is a multiple of 4.

### Only model-checked

- Liveness (`ReadyRuns`, `ValueTaken`, `ItemsTaken`, `RequestReturns`, `PutReturns`,
  `InputConsumed`, `MailArrives`, `SendsReturn`, `TestEnds`): outside the prover's
  reach, as fairness and ENABLED are.
- The refinements `MailSpec`, `ContainersSpec` and `ArchSpec`. The mappings of `MailSpec`
  and `ContainersSpec` filter or collect sequences, which needs induction over data, and
  `Mips` uses bitwise operators; the prover has neither.
- `LibrarySane`, `IterationComplete`: what recursive definitions over pointers and
  buckets compute.
- `MemorySafe`: `UserMachine` reaches the bitwise operators of `Mips`.

## Not modelled

- `FileSystem::List` and `Print`, the debugger of the simulator (`-s`), the parsing of
  the command line, debugging output and statistics: they print or count, and no state
  depends on them (`totalTicks`, the exception, is the clock of `Interrupts`).
- The bytes that a socket sends (those it receives are any), and the sizes and addresses
  of packets.
- Two threads in the Nachos file system at once: `main` runs its file operations one
  after the other, and the file system has no locks of its own.
- The TLB (`USE_TLB`), which this build does not have.
- `SWITCH` and the contents of kernel stacks; the UNIX interface of `lib/sysdep.cc`,
  which appears as external definitions where a model needs it.
- The user programs in `test/` and `coff2noff`, which build and exercise the system
  from outside.

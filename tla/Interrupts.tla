----------------------------- MODULE Interrupts -----------------------------
(***************************************************************************)
(* Simulated time (machine/interrupt.cc): the list of pending interrupts,  *)
(* the clock that ticks or, when the machine idles, jumps, and the devices *)
(* that schedule interrupts: the timer (machine/timer.cc), the network     *)
(* input that polls, the display, and the disk, whose delay depends on     *)
(* where its head is (machine/disk.cc).  Two are left out: the keyboard,   *)
(* which polls as the network input does but not while a character waits   *)
(* to be read, and the network output, which delays as the display does.   *)
(*                                                                         *)
(* Kernel.tla leaves time out and lets any pending interrupt come at any   *)
(* tick; this module is where the times are.  The counters of Statistics   *)
(* other than totalTicks are only printed, and left out.                   *)
(***************************************************************************)
EXTENDS Integers, Sequences

CONSTANTS
  UserTick, SystemTick, RotationTime, SeekTime, ConsoleTime, NetworkTime,
  TimerTicks,                    \* stats.h
  SectorsPerTrack, NumTracks,    \* disk.h
  RandomSlice,                   \* option -rs
  MaxTicks                       \* bound: no step starts beyond it

ASSUME TimesAssumption ==
  /\ {UserTick, SystemTick, RotationTime, SeekTime, ConsoleTime, NetworkTime,
      TimerTicks, SectorsPerTrack, NumTracks} \subseteq Nat \ {0}
  /\ UserTick <= SystemTick
  /\ RandomSlice \in BOOLEAN

VARIABLES
  totalTicks,   \* Statistics::totalTicks, the clock
  pending,      \* Interrupt::pending, a SortedList by when
  inHandler,    \* in the loop of CheckIfDue that calls the handlers
  halted,       \* Idle has found nothing to wait for
  active, lastSector, bufferInit,    \* Disk
  putBusy       \* ConsoleOutput

diskVars == <<active, lastSector, bufferInit>>
interruptVars == <<totalTicks, pending, inHandler, halted, diskVars, putBusy>>

Sectors == 0..(SectorsPerTrack * NumTracks - 1)

-----------------------------------------------------------------------------
(* The list of pending interrupts *)

(* SortedList::Insert with PendingCompare: behind those due no later *)
Position(s, when) ==
  IF \E i \in 1..Len(s) : when < s[i].when
  THEN CHOOSE i \in 1..Len(s) :
         when < s[i].when /\ \A j \in 1..(i - 1) : s[j].when <= when
  ELSE Len(s) + 1

Inserted(s, p) ==
  LET k == Position(s, p.when)
  IN  [i \in 1..(Len(s) + 1) |->
         IF i < k THEN s[i] ELSE IF i = k THEN p ELSE s[i - 1]]

(* Mutant: Append in place of Insert. *)
ScheduleLast(s, fromNow, type) ==
  Append(s, [when |-> totalTicks + fromNow, type |-> type])

(* Interrupt::Schedule *)
Schedule(s, fromNow, type) ==
  Inserted(s, [when |-> totalTicks + fromNow, type |-> type])

Due(s, now) == s # <<>> /\ Head(s).when <= now

(* Timer::SetInterrupt *)
Delays == IF RandomSlice THEN 1..(TimerTicks * 2) ELSE {TimerTicks}

-----------------------------------------------------------------------------
(* The head of the disk *)

Track(sector) == sector \div SectorsPerTrack

Distance(a, b) == IF a < b THEN b - a ELSE a - b

(* Disk::TimeToSeek: the seek, and from its end to the next sector boundary *)
SeekOf(sector) == Distance(Track(sector), Track(lastSector)) * SeekTime

RotationOf(sector) ==
  LET over == (totalTicks + SeekOf(sector)) % RotationTime
  IN  IF over > 0 THEN RotationTime - over ELSE 0

ModuloDiff(to, from) ==
  (((to % SectorsPerTrack) - (from % SectorsPerTrack)) + SectorsPerTrack)
    % SectorsPerTrack

TimeAfter(sector) == totalTicks + SeekOf(sector) + RotationOf(sector)

(* Mutant: the buffer is taken to begin with the first sector of the track. *)
InTrackBufferFromZero(sector) ==
  /\ SeekOf(sector) = 0
  /\ (TimeAfter(sector) - bufferInit) \div RotationTime
       > ModuloDiff(sector, 0)

InTrackBuffer(sector) ==
  /\ SeekOf(sector) = 0
  /\ (TimeAfter(sector) - bufferInit) \div RotationTime
       > ModuloDiff(sector, bufferInit \div RotationTime)

ComputeLatency(sector, writing) ==
  IF ~writing /\ InTrackBuffer(sector) THEN RotationTime
  ELSE SeekOf(sector) + RotationOf(sector)
       + ModuloDiff(sector, TimeAfter(sector) \div RotationTime) * RotationTime
       + RotationTime

UpdateLast(sector) ==
  /\ bufferInit' = IF SeekOf(sector) # 0 THEN TimeAfter(sector) ELSE bufferInit
  /\ lastSector' = sector

-----------------------------------------------------------------------------
(* Disk::Disk *)
DiskInit == active = FALSE /\ lastSector = 0 /\ bufferInit = 0

(* The devices are constructed; of these the timer and the network input   *)
(* schedule their first interrupts, before the clock starts.               *)
InterruptInit ==
  /\ totalTicks = 0 /\ inHandler = FALSE /\ halted = FALSE
  /\ \E delay \in Delays :
       pending = Schedule(Schedule(<<>>, delay, "TimerInt"),
                          NetworkTime, "NetworkRecvInt")
  /\ DiskInit
  /\ putBusy = FALSE

Running == ~inHandler /\ ~halted /\ totalTicks < MaxTicks

(* Interrupt::OneTick, up to the call of the first handler that is due *)
OneTick(tick) ==
  /\ Running
  /\ totalTicks' = totalTicks + tick
  /\ inHandler' = Due(pending, totalTicks')
  /\ UNCHANGED <<pending, halted, diskVars, putBusy>>

(* Interrupt::Idle: the clock jumps to the next interrupt, or the machine *)
(* stops because there is none.                                           *)
Idle ==
  /\ Running
  /\ IF pending = <<>>
     THEN halted' = TRUE /\ UNCHANGED <<totalTicks, inHandler>>
     ELSE /\ totalTicks' = IF Head(pending).when > totalTicks
                           THEN Head(pending).when ELSE totalTicks
          /\ inHandler' = TRUE
          /\ UNCHANGED halted
  /\ UNCHANGED <<pending, diskVars, putBusy>>

(* One turn of the loop of CheckIfDue: the first interrupt is taken off,   *)
(* and its handler called, which leaves the list as pending'.              *)
Handle(type) ==
  /\ inHandler /\ Head(pending).type = type
  /\ inHandler' = Due(pending', totalTicks)
  /\ UNCHANGED <<totalTicks, halted>>

(* Mutant: the timer is disabled by its first interrupt. *)
TimerCallBackOnce ==
  /\ pending' = Tail(pending)
  /\ Handle("TimerInt")
  /\ UNCHANGED <<diskVars, putBusy>>

(* Timer::CallBack; nothing in the kernel disables the timer. *)
TimerCallBack ==
  /\ \E delay \in Delays : pending' = Schedule(Tail(pending), delay, "TimerInt")
  /\ Handle("TimerInt")
  /\ UNCHANGED <<diskVars, putBusy>>

(* NetworkInput::CallBack *)
NetworkCallBack ==
  /\ pending' = Schedule(Tail(pending), NetworkTime, "NetworkRecvInt")
  /\ Handle("NetworkRecvInt")
  /\ UNCHANGED <<diskVars, putBusy>>

(* Disk::CallBack *)
DiskCallBack ==
  /\ pending' = Tail(pending)
  /\ Handle("DiskInt")
  /\ active' = FALSE
  /\ UNCHANGED <<lastSector, bufferInit, putBusy>>

(* ConsoleOutput::CallBack *)
DisplayCallBack ==
  /\ pending' = Tail(pending)
  /\ Handle("ConsoleWriteInt")
  /\ putBusy' = FALSE
  /\ UNCHANGED diskVars

(* Disk::ReadRequest and WriteRequest *)
Request(sector, writing) ==
  /\ Running /\ ~active
  /\ active' = TRUE
  /\ pending' = Schedule(pending, ComputeLatency(sector, writing), "DiskInt")
  /\ UpdateLast(sector)
  /\ UNCHANGED <<totalTicks, inHandler, halted, putBusy>>

(* ConsoleOutput::PutChar *)
PutChar ==
  /\ Running /\ ~putBusy
  /\ putBusy' = TRUE
  /\ pending' = Schedule(pending, ConsoleTime, "ConsoleWriteInt")
  /\ UNCHANGED <<totalTicks, inHandler, halted, diskVars>>

InterruptNext ==
  \/ OneTick(UserTick) \/ OneTick(SystemTick) \/ Idle
  \/ TimerCallBack \/ NetworkCallBack \/ DiskCallBack \/ DisplayCallBack
  \/ \E sector \in Sectors, writing \in BOOLEAN : Request(sector, writing)
  \/ PutChar

InterruptSpec == InterruptInit /\ [][InterruptNext]_interruptVars

-----------------------------------------------------------------------------
(* Interrupts come in the order of their times, never early, and at the    *)
(* first tick at which they are due: whenever a thread runs, everything    *)
(* due has been handled (Interrupt::CheckIfDue), and none was handled as   *)
(* late as a whole SystemTick.                                             *)
OnTime ==
  /\ \A i, j \in 1..Len(pending) : i < j => pending[i].when <= pending[j].when
  /\ \A i \in 1..Len(pending) : pending[i].when > totalTicks - SystemTick
  /\ IF inHandler THEN Due(pending, totalTicks)
     ELSE \A i \in 1..Len(pending) : pending[i].when > totalTicks

(* How many interrupts of a device are pending *)
Outstanding(type) == {i \in 1..Len(pending) : pending[i].type = type}

(* A device has one interrupt pending while it is busy and none otherwise, *)
(* and the timer and the network input always have one: so Interrupt::Idle *)
(* always finds something to wait for and never halts the machine.         *)
OneEach ==
  /\ \A type \in {"TimerInt", "NetworkRecvInt"} :
       \E i \in 1..Len(pending) : Outstanding(type) = {i}
  /\ active => \E i \in 1..Len(pending) : Outstanding("DiskInt") = {i}
  /\ ~active => Outstanding("DiskInt") = {}
  /\ putBusy => \E i \in 1..Len(pending) : Outstanding("ConsoleWriteInt") = {i}
  /\ ~putBusy => Outstanding("ConsoleWriteInt") = {}
  /\ ~halted

(* The sector passes under the head at the times t, t a sector boundary.   *)
Passes(sector, t) ==
  /\ t % RotationTime = 0
  /\ (t \div RotationTime) % SectorsPerTrack = sector % SectorsPerTrack

(* The first of them at or after now *)
FirstPass(sector, now) ==
  CHOOSE t \in now..(now + RotationTime * SectorsPerTrack) :
    Passes(sector, t) /\ \A u \in now..(t - 1) : ~Passes(sector, u)

(* Disk::ComputeLatency is what the rotating disk takes: the seek, the     *)
(* wait for the sector to come by and its transfer; or one transfer when   *)
(* a read finds the sector in the track buffer, that is when it has gone   *)
(* by on this track since the head arrived, at bufferInit, which is never  *)
(* in the future when a request is made.                                   *)
DiskTiming ==
  ~active =>
    /\ bufferInit <= totalTicks
    /\ \A sector \in Sectors, writing \in BOOLEAN :
         LET buffered ==
               /\ ~writing /\ Track(sector) = Track(lastSector)
               /\ \E t \in bufferInit..(TimeAfter(sector) - RotationTime) :
                    Passes(sector, t)
             arrives == totalTicks + SeekOf(sector)
         IN  totalTicks + ComputeLatency(sector, writing) =
               RotationTime + (IF buffered THEN totalTicks
                               ELSE FirstPass(sector, arrives))
=============================================================================

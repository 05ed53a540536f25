--------------------------- MODULE ConsoleProofs ----------------------------
(***************************************************************************)
(* Proofs about the console of Console.tla, for any number of threads and  *)
(* any input.                                                              *)
(*                                                                         *)
(* The console is two devices, each with a lock and a semaphore.  The      *)
(* invariant of the input (InputInv) and that of the output (OutputInv)    *)
(* are kept apart: a step of one side is quiet for the other, because no   *)
(* thread reads and writes at once (Parked).  The kernel's own invariant   *)
(* (IInv of ThreadsProofs.tla) holds because every step of the console is  *)
(* a step of some client of the kernel.                                    *)
(***************************************************************************)
EXTENDS Console, ThreadsProofs

(* A step that names no prover is for Zenon.                               *)
USE ZenonT(40)

(* No thread reads and writes at once, and the P it is in belongs to its   *)
(* place in GetChar or PutChar.                                            *)
Parked ==
  \A t \in Threads :
    /\ reading[t] = "none" \/ writing[t] = "none"
    /\ waitingOn[t] # NULL =>
         \/ reading[t] = "acquire" /\ waitingOn[t] = inLock
         \/ reading[t] = "wait" /\ waitingOn[t] = inWait
         \/ writing[t] = "acquire" /\ waitingOn[t] = outLock
         \/ writing[t] = "wait" /\ waitingOn[t] = outWait

(* The threads that hold the lock of the input.                            *)
InGetChar ==
  {t \in Threads : \/ reading[t] = "acquire" /\ waitingOn[t] = NULL
                   \/ reading[t] \in {"wait", "more", "last"}}

InLockInv ==
  /\ value[inLock] = 0 \/ value[inLock] = 1
  /\ value[inLock] = 1 <=> \A t \in Threads : t \notin InGetChar
  /\ \A t, u \in InGetChar : t = u
  /\ \A t \in Threads : reading[t] \in {"wait", "more", "last"} => inHolder = t

(* The poll for a character, the wake-up it ends with and the thread that  *)
(* takes the wake-up: there is at most one of the three.                   *)
PollInv ==
  /\ value[inWait] = 0 \/ value[inWait] = 1
  /\ keys \in pending =>
       incoming = EOF /\ value[inWait] = 0 /\ \A t \in Threads : t \notin Awake
  /\ value[inWait] = 1 => \A t \in Threads : t \notin Awake
  /\ incoming # EOF => value[inWait] = 1 \/ \E t \in Threads : t \in Awake

(* The strings: there is room for another character while GetString loops. *)
StringInv ==
  /\ buffer \in [Threads -> Seq(Chars \cup {EOF})] /\ size \in [Threads -> Nat]
  /\ \A t \in Threads :
       /\ size[t] > 0 => Len(buffer[t]) < size[t]
       /\ reading[t] \in {"next", "acquire", "wait", "more"}
            => Len(buffer[t]) + 1 < size[t]

(* The characters on their way.                                            *)
OrderInv ==
  /\ gotten \in Seq(Chars) /\ unread \in Seq(Chars)
  /\ incoming \in Chars \cup {EOF}
  /\ InputInOrder

InputInv == InLockInv /\ PollInv /\ StringInv /\ OrderInv

(* The threads that hold the lock of the output.                           *)
InPutChar ==
  {t \in Threads : \/ writing[t] = "acquire" /\ waitingOn[t] = NULL
                   \/ writing[t] \in {"put", "wait"}}

OutLockInv ==
  /\ value[outLock] = 0 \/ value[outLock] = 1
  /\ value[outLock] = 1 <=> \A t \in Threads : t \notin InPutChar
  /\ \A t, u \in InPutChar : t = u
  /\ \A t \in Threads : writing[t] \in {"put", "wait"} => outHolder = t

AnswerInv ==
  /\ putBusy <=> display \in pending
  /\ value[outWait] = 0 \/ (value[outWait] = 1 /\ ~ putBusy)
  /\ (\E t \in Threads : t \in Unanswered) <=> (putBusy \/ value[outWait] = 1)

OutputInv == OutLockInv /\ AnswerInv

(* The places of the threads.                                              *)
PlaceTypes ==
  /\ reading \in [Threads -> {"none", "next", "acquire", "wait", "more", "last"}]
  /\ writing \in [Threads -> {"none", "next", "acquire", "put", "wait"}]

(* The inductive invariant of the console.                                 *)
ConsoleInv == PlaceTypes /\ Parked /\ InputInv /\ OutputInv

(* The characters on their way, when one arrives ...                       *)
LEMMA CharacterArrives ==
  ASSUME NEW S, NEW g \in Seq(S), NEW u \in Seq(S)
  PROVE  /\ <<>> \o <<>> \o u = u
         /\ u # <<>> => g \o <<>> \o u = g \o <<Head(u)>> \o Tail(u)
<1>1. <<>> \o <<>> \o u = u
  BY SMTT(20)
<1>2. u # <<>> => g \o <<>> \o u = g \o <<Head(u)>> \o Tail(u)
  BY SMTT(20)
<1> QED
  BY <1>1, <1>2

(* ... and when one is read.                                               *)
LEMMA CharacterRead ==
  ASSUME NEW S, NEW g \in Seq(S), NEW u \in Seq(S), NEW c \in S
  PROVE  g \o <<c>> \o u = Append(g, c) \o <<>> \o u
  BY SMTT(30)

(* The locks of the console, unfolded.                                     *)
LEMMA LocksUnfolded ==
  ASSUME NEW t
  PROVE  /\ InLock!LockAcquire(t) <=> P(t, inLock) /\ UNCHANGED inHolder
         /\ OutLock!LockAcquire(t) <=> P(t, outLock) /\ UNCHANGED outHolder
         /\ InLock!LockAcquired(t) <=> At(t, "body") /\ inHolder' = t
         /\ OutLock!LockAcquired(t) <=> At(t, "body") /\ outHolder' = t
         /\ InLock!LockRelease(t) <=>
              inHolder = t /\ inHolder' = NULL /\ V(t, inLock)
         /\ OutLock!LockRelease(t) <=>
              outHolder = t /\ outHolder' = NULL /\ V(t, outLock)
<1>1. InLock!LockAcquire(t) <=> P(t, inLock) /\ UNCHANGED inHolder
  BY DEF InLock!LockAcquire, InLock!P, InLock!At, InLock!Goto, InLock!schedVars, InLock!semVars,
         InLock!userVars, P, At, Goto, schedVars, semVars, userVars
<1>2. InLock!LockAcquired(t) <=> At(t, "body") /\ inHolder' = t
  BY DEF InLock!LockAcquired, InLock!At, At
<1>3. InLock!LockRelease(t) <=> inHolder = t /\ inHolder' = NULL /\ V(t, inLock)
  BY DEF InLock!LockRelease, InLock!V, InLock!VBody, InLock!SetLevelOn, InLock!At, InLock!Goto,
         InLock!userVars, V, VBody, SetLevelOn, At, Goto, userVars
<1>4. OutLock!LockAcquire(t) <=> P(t, outLock) /\ UNCHANGED outHolder
  BY DEF OutLock!LockAcquire, OutLock!P, OutLock!At, OutLock!Goto, OutLock!schedVars, OutLock!semVars,
         OutLock!userVars, P, At, Goto, schedVars, semVars, userVars
<1>5. OutLock!LockAcquired(t) <=> At(t, "body") /\ outHolder' = t
  BY DEF OutLock!LockAcquired, OutLock!At, At
<1>6. OutLock!LockRelease(t) <=> outHolder = t /\ outHolder' = NULL /\ V(t, outLock)
  BY DEF OutLock!LockRelease, OutLock!V, OutLock!VBody, OutLock!SetLevelOn, OutLock!At, OutLock!Goto,
         OutLock!userVars, V, VBody, SetLevelOn, At, Goto, userVars
<1> QED
  BY <1>1, <1>2, <1>3, <1>4, <1>5, <1>6

(* The assumptions on the console, one by one.                             *)
LEMMA ConsoleConstants ==
  /\ inLock \in Semaphores /\ inWait \in Semaphores
  /\ outLock \in Semaphores /\ outWait \in Semaphores
  /\ inLock # NULL /\ inWait # NULL /\ outLock # NULL /\ outWait # NULL
  /\ inLock # inWait /\ inLock # outLock /\ inLock # outWait
  /\ inWait # outLock /\ inWait # outWait /\ outLock # outWait
  /\ keys \in Devices /\ display \in Devices /\ keys # display
  /\ DoneSem[keys] = inWait /\ DoneSem[display] = outWait
<1>1. InitialValue[inLock] # InitialValue[inWait] /\ InitialValue[inLock] # InitialValue[outWait]
      /\ InitialValue[outLock] # InitialValue[inWait]
      /\ InitialValue[outLock] # InitialValue[outWait]
  BY ConsoleAssumption, SMTT(20)
<1>2. inLock # inWait /\ inLock # outWait /\ inWait # outLock /\ outLock # outWait
  BY <1>1
<1> QED
  BY <1>2, ConsoleAssumption, KernelAssumption

(* Every step of the console is a step of a client of the kernel.          *)
LEMMA ConsoleStepIsAnyStep == [Next]_vars => [AnyStep]_kernelVars
<1> SUFFICES ASSUME [Next]_vars PROVE [AnyStep]_kernelVars
  BY SMTT(20)
<1>1. CASE UNCHANGED vars
  BY <1>1 DEF vars
<1>2. ASSUME NEW t \in Threads,
             \/ \E n \in Sizes : GetString(t, n)
             \/ NextGetChar(t) \/ WaitForChar(t)
             \/ PutString(t) \/ NextPutChar(t) \/ WaitForPut(t)
      PROVE  \E s \in Semaphores : P(t, s)
  BY <1>2, LocksUnfolded, ConsoleConstants
     DEF GetString, NextGetChar, WaitForChar, PutString, NextPutChar, WaitForPut
<1>3. ASSUME NEW t \in Threads, ReturnChar(t) \/ ReturnPut(t)
      PROVE  \E s \in Semaphores : V(t, s)
  BY <1>3, LocksUnfolded, ConsoleConstants DEF ReturnChar, ReturnPut
<1>4. ASSUME NEW t \in Threads,
             GetChar(t) \/ PutChar(t) \/ \E n \in Sizes : GetNothing(t, n)
      PROVE  (\E d \in Devices : StartIO(t, d)) \/ UNCHANGED kernelVars
  BY <1>4, ConsoleConstants DEF GetChar, PutChar, GetNothing
<1>5. ASSUME NEW t \in Threads, KeyInterrupt(t) \/ DisplayInterrupt(t)
      PROVE  \E d \in Devices : DeviceInterrupt(t, d)
  BY <1>5, ConsoleConstants DEF KeyInterrupt, DisplayInterrupt
<1>6. ASSUME NEW t \in Threads, Outside(t)
      PROVE  \E u \in Threads : NewThread(t, u) \/ Fork(t, u)
  BY <1>6 DEF Outside
<1> QED
  BY <1>1, <1>2, <1>3, <1>4, <1>5, <1>6 DEF Next, AnyStep, AnyCall

(* The constructors of the console establish the invariant.                *)
LEMMA ConsoleStart == Init => IInv /\ ConsoleInv
<1> SUFFICES ASSUME Init PROVE IInv /\ ConsoleInv
  BY SMTT(20)
<1>1. IInv
  <2>1. {keys} \in SUBSET Devices
    BY ConsoleConstants
  <2> QED
    BY <2>1, IInvStart DEF Init
<1>2. /\ value[inLock] = 1 /\ value[inWait] = 0 /\ value[outLock] = 1 /\ value[outWait] = 0
      /\ display \notin pending /\ ~ putBusy
      /\ \A t \in Threads : reading[t] = "none" /\ writing[t] = "none" /\ waitingOn[t] = NULL
  BY ConsoleAssumption, ConsoleConstants DEF Init, KernelStart
<1>3. PlaceTypes
  BY SMTT(20) DEF Init, PlaceTypes
<1>4. Parked
  BY <1>2 DEF Parked
<1>5. InLockInv
  BY <1>2, SMTT(20) DEF InLockInv, InGetChar
<1>6. PollInv
  BY <1>2, SMTT(20) DEF PollInv, Awake, Init
<1>7. StringInv
  <2>1. \A t \in Threads : buffer[t] = <<>> /\ size[t] = 0 /\ reading[t] = "none"
    BY DEF Init
  <2>2. buffer \in [Threads -> Seq(Chars \cup {EOF})] /\ size \in [Threads -> Nat]
    BY SMTT(20) DEF Init
  <2> QED
    BY <2>1, <2>2, SMTT(20) DEF StringInv
<1>8. OrderInv
  <2>1. gotten = <<>> /\ unread = Keyboard /\ incoming = EOF /\ Keyboard \in Seq(Chars)
    BY ConsoleAssumption DEF Init
  <2>2. <<>> \in Seq(Chars)
    BY SMTT(20)
  <2>3. gotten \o <<>> \o unread = Keyboard
    BY <2>1, <2>2, CharacterArrives
  <2>4. InputInOrder
    BY <2>1, <2>3 DEF InputInOrder
  <2> QED
    BY <2>1, <2>2, <2>4 DEF OrderInv
<1>9. OutLockInv
  BY <1>2, SMTT(20) DEF OutLockInv, InPutChar
<1>10. AnswerInv
  BY <1>2, SMTT(20) DEF AnswerInv, Unanswered
<1> QED
  BY <1>1, <1>3, <1>4, <1>5, <1>6, <1>7, <1>8, <1>9, <1>10
     DEF ConsoleInv, InputInv, OutputInv

(* What the invariants say of the types of the variables.                  *)
LEMMA ConsoleTypes ==
  ASSUME IInv, ConsoleInv
  PROVE  /\ value \in [Semaphores -> Nat]
         /\ waitingOn \in [Threads -> Semaphores \cup {NULL}]
         /\ reading \in [Threads -> {"none", "next", "acquire", "wait", "more", "last"}]
         /\ writing \in [Threads -> {"none", "next", "acquire", "put", "wait"}]
  BY DEF IInv, KernelTypeOK, ConsoleInv, PlaceTypes

(* A step that leaves the input alone.                                     *)
LEMMA InputQuiet ==
  ASSUME InputInv, UNCHANGED inVars,
         value'[inLock] = value[inLock], value'[inWait] = value[inWait],
         keys \in pending' <=> keys \in pending,
         \A t \in Threads : reading[t] # "none" => waitingOn'[t] = waitingOn[t]
  PROVE  InputInv'
<1>1. UNCHANGED <<inHolder, incoming, unread, reading, size, buffer, gotten>>
  BY DEF inVars
<1>2. InGetChar' = InGetChar /\ Awake' = Awake
  BY <1>1, SMTT(20) DEF InGetChar, Awake
<1>3. InLockInv'
  BY <1>1, <1>2 DEF InputInv, InLockInv
<1>4. PollInv'
  BY <1>1, <1>2 DEF InputInv, PollInv
<1>5. StringInv' /\ OrderInv'
  BY <1>1 DEF InputInv, StringInv, OrderInv, InputInOrder
<1> QED
  BY <1>3, <1>4, <1>5 DEF InputInv

(* A step that leaves the output alone.                                    *)
LEMMA OutputQuiet ==
  ASSUME OutputInv, UNCHANGED outVars,
         value'[outLock] = value[outLock], value'[outWait] = value[outWait],
         display \in pending' <=> display \in pending,
         \A t \in Threads : writing[t] # "none" => waitingOn'[t] = waitingOn[t]
  PROVE  OutputInv'
<1>1. UNCHANGED <<outHolder, putBusy, writing, toPut>>
  BY DEF outVars
<1>2. InPutChar' = InPutChar /\ Unanswered' = Unanswered
  BY <1>1, SMTT(20) DEF InPutChar, Unanswered
<1>3. OutLockInv'
  BY <1>1, <1>2 DEF OutputInv, OutLockInv
<1>4. AnswerInv'
  BY <1>1, <1>2 DEF OutputInv, AnswerInv
<1> QED
  BY <1>3, <1>4 DEF OutputInv

-----------------------------------------------------------------------------
(***************************************************************************)
(* The input.                                                              *)
(***************************************************************************)
(* lock->Acquire() in GetChar, in the first round of GetString or a later  *)
(* one.                                                                    *)
LEMMA AcquireInput ==
  ASSUME IInv, ConsoleInv, NEW t \in Threads,
         (\E n \in Sizes : GetString(t, n)) \/ NextGetChar(t)
  PROVE  Parked' /\ InputInv' /\ OutputInv'
<1>1. P(t, inLock) /\ UNCHANGED <<inHolder, outVars, incoming, unread, gotten>>
  BY LocksUnfolded DEF GetString, NextGetChar
<1>2. waitingOn[t] = NULL
  BY <1>1, BodyNotInP DEF P
<1>3. /\ reading[t] \in {"none", "next"} /\ writing[t] = "none"
      /\ reading' = [reading EXCEPT ![t] = "acquire"]
      /\ waitingOn' = [waitingOn EXCEPT ![t] = inLock]
      /\ UNCHANGED <<value, pending>>
  <2>1. reading[t] \in {"none", "next"} /\ (reading[t] = "none" => writing[t] = "none")
    BY DEF GetString, NextGetChar
  <2>2. reading[t] # "none" => writing[t] = "none"
    BY DEF ConsoleInv, Parked
  <2> QED
    BY <1>1, <2>1, <2>2 DEF GetString, NextGetChar, P, SetReading, semVars
<1>4. /\ reading'[t] = "acquire" /\ waitingOn'[t] = inLock
      /\ \A u \in Threads : u # t => reading'[u] = reading[u] /\ waitingOn'[u] = waitingOn[u]
  BY <1>3, ConsoleTypes
<1>5. UNCHANGED <<outHolder, putBusy, writing, toPut>>
  BY <1>1 DEF outVars
<1>6. Parked'
  BY <1>3, <1>4, <1>5 DEF ConsoleInv, Parked
<1>7. InGetChar' = InGetChar /\ Awake' = Awake
  BY <1>3, <1>4, ConsoleConstants, SMTT(20) DEF InGetChar, Awake
<1>8. InLockInv'
  <2>1. \A u \in Threads : reading'[u] \in {"wait", "more", "last"}
                           => reading[u] \in {"wait", "more", "last"}
    BY <1>4, SMTT(20)
  <2> QED
    BY <1>1, <1>3, <1>7, <2>1 DEF ConsoleInv, InputInv, InLockInv
<1>9. PollInv'
  BY <1>1, <1>3, <1>7 DEF ConsoleInv, InputInv, PollInv
<1>10. OrderInv'
  BY <1>1 DEF ConsoleInv, InputInv, OrderInv, InputInOrder
<1>11. StringInv'
  <2>1. StringInv
    BY DEF ConsoleInv, InputInv
  <2>2. CASE \E n \in Sizes : GetString(t, n)
    <3>1. PICK n \in Sizes : GetString(t, n)
      BY <2>2
    <3>2. /\ n \in Nat /\ n > 1 /\ size' = [size EXCEPT ![t] = n]
          /\ buffer' = [buffer EXCEPT ![t] = <<>>]
      BY <3>1, ConsoleAssumption DEF GetString
    <3>3. <<>> \in Seq(Chars \cup {EOF}) /\ Len(<<>>) = 0
      BY SMTT(20)
    <3>4. /\ buffer' \in [Threads -> Seq(Chars \cup {EOF})] /\ buffer'[t] = <<>>
          /\ size' \in [Threads -> Nat] /\ size'[t] = n
          /\ \A u \in Threads : u # t => buffer'[u] = buffer[u] /\ size'[u] = size[u]
      BY <2>1, <3>2, <3>3 DEF StringInv
    <3>5. Len(buffer'[t]) < size'[t] /\ Len(buffer'[t]) + 1 < size'[t]
      BY <3>2, <3>3, <3>4, SMTT(30)
    <3> QED
      BY <1>4, <2>1, <3>4, <3>5 DEF StringInv
  <2>3. CASE NextGetChar(t)
    <3>1. UNCHANGED <<size, buffer>> /\ reading[t] = "next"
      BY <2>3 DEF NextGetChar
    <3> QED
      BY <1>4, <2>1, <3>1 DEF StringInv
  <2> QED
    BY <2>2, <2>3
<1>12. OutputInv'
  <2>1. \A u \in Threads : writing[u] # "none" => waitingOn'[u] = waitingOn[u]
    BY <1>3, <1>4
  <2> QED
    BY <1>1, <1>3, <2>1, OutputQuiet DEF ConsoleInv
<1> QED
  BY <1>6, <1>8, <1>9, <1>10, <1>11, <1>12 DEF InputInv

(* GetString with a size of 0 or 1: only its own buffer changes.           *)
LEMMA GetNothingKeeps ==
  ASSUME IInv, ConsoleInv, NEW t \in Threads, NEW n \in Sizes, GetNothing(t, n)
  PROVE  Parked' /\ InputInv' /\ OutputInv'
<1>1. /\ UNCHANGED <<value, waitingOn, pending, reading, inHolder, incoming, unread, gotten>>
      /\ UNCHANGED outVars
      /\ reading[t] = "none" /\ n \in Nat /\ n <= 1
      /\ size' = [size EXCEPT ![t] = n] /\ buffer' = [buffer EXCEPT ![t] = <<>>]
  BY ConsoleAssumption DEF GetNothing, kernelVars, intVars, semVars
<1>2. InGetChar' = InGetChar /\ Awake' = Awake
  BY <1>1 DEF InGetChar, Awake
<1>3. Parked' /\ InLockInv' /\ PollInv' /\ OrderInv'
  BY <1>1, <1>2
     DEF outVars, ConsoleInv, Parked, InputInv, InLockInv, PollInv, OrderInv, InputInOrder
<1>4. StringInv'
  <2>1. StringInv
    BY DEF ConsoleInv, InputInv
  <2>2. <<>> \in Seq(Chars \cup {EOF}) /\ Len(<<>>) = 0
    BY SMTT(20)
  <2>3. /\ buffer' \in [Threads -> Seq(Chars \cup {EOF})] /\ buffer'[t] = <<>>
        /\ size' \in [Threads -> Nat] /\ size'[t] = n
        /\ \A u \in Threads : u # t => buffer'[u] = buffer[u] /\ size'[u] = size[u]
    BY <1>1, <2>1, <2>2 DEF StringInv
  <2>4. /\ size'[t] > 0 => Len(buffer'[t]) < size'[t]
        /\ reading'[t] \notin {"next", "acquire", "wait", "more"}
    BY <1>1, <2>2, <2>3, SMTT(30)
  <2> QED
    BY <1>1, <2>1, <2>3, <2>4 DEF StringInv
<1>5. OutputInv'
  BY <1>1, OutputQuiet DEF ConsoleInv
<1> QED
  BY <1>3, <1>4, <1>5 DEF InputInv

(* waitFor->P() in GetChar: the thread has the lock.                       *)
LEMMA WaitForCharKeeps ==
  ASSUME IInv, ConsoleInv, NEW t \in Threads, WaitForChar(t)
  PROVE  Parked' /\ InputInv' /\ OutputInv'
<1>1. P(t, inWait) /\ inHolder' = t /\ UNCHANGED <<outVars, incoming, unread, gotten, size, buffer>>
  BY LocksUnfolded DEF WaitForChar
<1>2. waitingOn[t] = NULL
  BY <1>1, BodyNotInP DEF P
<1>3. /\ reading[t] = "acquire" /\ reading' = [reading EXCEPT ![t] = "wait"]
      /\ waitingOn' = [waitingOn EXCEPT ![t] = inWait]
      /\ UNCHANGED <<value, pending>>
  BY <1>1 DEF WaitForChar, P, SetReading, semVars
<1>4. /\ reading'[t] = "wait" /\ waitingOn'[t] = inWait
      /\ \A u \in Threads : u # t => reading'[u] = reading[u] /\ waitingOn'[u] = waitingOn[u]
  BY <1>3, ConsoleTypes
<1>5. UNCHANGED <<outHolder, putBusy, writing, toPut>> /\ writing[t] = "none"
  <2>1. reading[t] # "none"
    BY <1>3, SMTT(20)
  <2> QED
    BY <1>1, <2>1 DEF outVars, ConsoleInv, Parked
<1>6. Parked'
  BY <1>4, <1>5 DEF ConsoleInv, Parked
<1>7. InGetChar' = InGetChar /\ Awake' = Awake /\ t \in InGetChar
  BY <1>2, <1>3, <1>4, ConsoleConstants, SMTT(30) DEF InGetChar, Awake
<1>8. InLockInv'
  <2>1. \A u \in Threads : reading'[u] \in {"wait", "more", "last"} => u \in InGetChar'
    BY DEF InGetChar
  <2>2. \A u \in Threads : reading'[u] \in {"wait", "more", "last"} => u = t
    BY <1>7, <2>1 DEF ConsoleInv, InputInv, InLockInv
  <2> QED
    BY <1>1, <1>3, <1>7, <2>2 DEF ConsoleInv, InputInv, InLockInv
<1>9. PollInv'
  BY <1>1, <1>3, <1>7 DEF ConsoleInv, InputInv, PollInv
<1>10. OrderInv'
  BY <1>1 DEF ConsoleInv, InputInv, OrderInv, InputInOrder
<1>11. StringInv'
  BY <1>1, <1>3, <1>4 DEF ConsoleInv, InputInv, StringInv
<1>12. OutputInv'
  BY <1>1, <1>3, <1>4, <1>5, OutputQuiet DEF ConsoleInv
<1> QED
  BY <1>6, <1>8, <1>9, <1>10, <1>11, <1>12 DEF InputInv

(* lock->Release() at the end of GetChar.                                  *)
LEMMA ReturnCharKeeps ==
  ASSUME IInv, ConsoleInv, NEW t \in Threads, ReturnChar(t)
  PROVE  Parked' /\ InputInv' /\ OutputInv'
<1>1. /\ V(t, inLock) /\ inHolder' = NULL
      /\ UNCHANGED <<outVars, incoming, unread, gotten, size, buffer>>
  BY LocksUnfolded DEF ReturnChar
<1>2. waitingOn[t] = NULL
  BY <1>1, BodyNotInP DEF V
<1>3. /\ reading[t] \in {"more", "last"}
      /\ value' = [value EXCEPT ![inLock] = @ + 1]
      /\ UNCHANGED <<waitingOn, pending>>
  BY <1>1 DEF ReturnChar, V, VBody
<1>4. /\ reading'[t] = IF reading[t] = "more" THEN "next" ELSE "none"
      /\ \A u \in Threads : u # t => reading'[u] = reading[u]
  BY ConsoleTypes DEF ReturnChar, SetReading
<1>5. reading'[t] \in {"next", "none"} /\ (reading'[t] = "next" => reading[t] = "more")
  BY <1>4, SMTT(20)
<1>6. UNCHANGED <<outHolder, putBusy, writing, toPut>> /\ writing[t] = "none"
  <2>1. reading[t] # "none"
    BY <1>3, SMTT(20)
  <2> QED
    BY <1>1, <2>1 DEF outVars, ConsoleInv, Parked
<1>7. Parked'
  BY <1>2, <1>3, <1>4, <1>6 DEF ConsoleInv, Parked
<1>8. t \in InGetChar
  BY <1>3, SMTT(20) DEF InGetChar
<1>9. \A u \in Threads : u \notin InGetChar' /\ (u \in Awake' <=> u \in Awake)
  <2>1. \A u \in Threads : u \in InGetChar => u = t
    BY <1>8 DEF ConsoleInv, InputInv, InLockInv
  <2>2. t \notin InGetChar' /\ t \notin Awake /\ t \notin Awake'
    BY <1>3, <1>5, SMTT(20) DEF InGetChar, Awake
  <2>3. \A u \in Threads : u # t => (u \in InGetChar' <=> u \in InGetChar)
                                  /\ (u \in Awake' <=> u \in Awake)
    BY <1>3, <1>4 DEF InGetChar, Awake
  <2> QED
    BY <2>1, <2>2, <2>3
<1>10. /\ value'[inLock] = 1 /\ value'[inWait] = value[inWait]
       /\ value'[outLock] = value[outLock] /\ value'[outWait] = value[outWait]
  <2>1. value[inLock] = 0
    BY <1>8 DEF ConsoleInv, InputInv, InLockInv
  <2> QED
    BY <1>3, <2>1, ConsoleTypes, ConsoleConstants, SMTT(30)
<1>11. InLockInv'
  <2>1. \A u \in Threads : reading'[u] \notin {"wait", "more", "last"}
    BY <1>9 DEF InGetChar
  <2>2. \A u \in InGetChar' : u \in Threads
    BY DEF InGetChar
  <2> QED
    BY <1>9, <1>10, <2>1, <2>2 DEF InLockInv
<1>12. PollInv'
  BY <1>1, <1>3, <1>9, <1>10 DEF ConsoleInv, InputInv, PollInv
<1>13. OrderInv'
  BY <1>1 DEF ConsoleInv, InputInv, OrderInv, InputInOrder
<1>14. StringInv'
  <2>1. \A u \in Threads : reading'[u] \in {"next", "acquire", "wait", "more"}
                           => reading[u] \in {"next", "acquire", "wait", "more"}
    BY <1>4, SMTT(20)
  <2> QED
    BY <1>1, <2>1 DEF ConsoleInv, InputInv, StringInv
<1>15. OutputInv'
  BY <1>1, <1>3, <1>10, OutputQuiet DEF ConsoleInv
<1> QED
  BY <1>7, <1>11, <1>12, <1>13, <1>14, <1>15 DEF InputInv

(* ConsoleInput::GetChar: the thread has taken the wake-up, so no other is *)
(* left and the poll it asks for is the only one.                          *)
LEMMA CharReadKeeps ==
  ASSUME IInv, ConsoleInv, NEW t \in Threads, GetChar(t)
  PROVE  Parked' /\ InputInv' /\ OutputInv'
<1>1. /\ waitingOn[t] = NULL /\ reading[t] = "wait" /\ incoming' = EOF
      /\ UNCHANGED <<value, waitingOn, inHolder, unread, size, outVars>>
      /\ pending' = IF incoming = EOF THEN pending ELSE pending \cup {keys}
      /\ gotten' = IF incoming = EOF THEN gotten ELSE Append(gotten, incoming)
  BY BodyNotInP DEF GetChar, StartIO, kernelVars, intVars, semVars
<1>2. /\ reading'[t] = IF Stops(t, incoming) THEN "last" ELSE "more"
      /\ \A u \in Threads : u # t => reading'[u] = reading[u]
  BY ConsoleTypes DEF GetChar, SetReading
<1>3. reading'[t] \in {"more", "last"} /\ (reading'[t] = "more" => ~ Stops(t, incoming))
  BY <1>2, SMTT(20)
<1>4. UNCHANGED <<outHolder, putBusy, writing, toPut>> /\ writing[t] = "none"
  <2>1. reading[t] # "none"
    BY <1>1, SMTT(20)
  <2> QED
    BY <1>1, <2>1 DEF outVars, ConsoleInv, Parked
<1>5. Parked'
  BY <1>1, <1>2, <1>4 DEF ConsoleInv, Parked
<1>6. t \in InGetChar /\ t \in Awake
  BY <1>1 DEF InGetChar, Awake
<1>7. InGetChar' = InGetChar
  BY <1>1, <1>2, <1>3, SMTT(20) DEF InGetChar
<1>8. \A u \in Threads : u \notin Awake'
  <2>1. \A u \in Threads : u \in Awake => u = t
    BY <1>6 DEF ConsoleInv, InputInv, InLockInv, InGetChar, Awake
  <2>2. t \notin Awake'
    BY <1>3, SMTT(20) DEF Awake
  <2>3. \A u \in Threads : u # t => (u \in Awake' <=> u \in Awake)
    BY <1>1, <1>2 DEF Awake
  <2> QED
    BY <2>1, <2>2, <2>3
<1>9. InLockInv'
  <2>1. \A u \in Threads : reading'[u] \in {"wait", "more", "last"} => u \in InGetChar
    BY <1>7 DEF InGetChar
  <2>2. inHolder = t /\ \A u \in InGetChar : u = t
    BY <1>1, <1>6 DEF ConsoleInv, InputInv, InLockInv
  <2> QED
    BY <1>1, <1>7, <2>1, <2>2 DEF ConsoleInv, InputInv, InLockInv
<1>10. PollInv'
  <2>1. value[inWait] = 0
    BY <1>6 DEF ConsoleInv, InputInv, PollInv
  <2>2. value'[inWait] = 0 /\ value'[inWait] # 1
    BY <1>1, <2>1, SMTT(20)
  <2> QED
    BY <1>1, <1>8, <2>2 DEF PollInv
<1>11. OrderInv'
  <2>1. /\ gotten \in Seq(Chars) /\ unread \in Seq(Chars) /\ incoming \in Chars \cup {EOF}
        /\ InputInOrder
    BY DEF ConsoleInv, InputInv, OrderInv
  <2>2. CASE incoming = EOF
    BY <1>1, <2>1, <2>2 DEF OrderInv, InputInOrder
  <2>3. CASE incoming # EOF
    <3>1. incoming \in Chars /\ gotten' = Append(gotten, incoming)
      BY <1>1, <2>1, <2>3
    <3>2. gotten' \in Seq(Chars)
      BY <2>1, <3>1, SMTT(20)
    <3>3. Keyboard = gotten \o <<incoming>> \o unread
      BY <2>1, <2>3 DEF InputInOrder
    <3>4. Keyboard = gotten' \o <<>> \o unread
      <4>1. gotten \o <<incoming>> \o unread = Append(gotten, incoming) \o <<>> \o unread
        BY <2>1, <3>1, CharacterRead, SMTT(30)
      <4> QED
        BY <3>1, <3>3, <4>1
    <3> QED
      BY <1>1, <2>1, <3>2, <3>4 DEF OrderInv, InputInOrder
  <2> QED
    BY <2>2, <2>3
<1>12. StringInv'
  <2>1. StringInv /\ incoming \in Chars \cup {EOF}
    BY DEF ConsoleInv, InputInv, OrderInv
  <2> DEFINE kept == IF incoming \in {"newline", "nul"} THEN buffer[t]
                     ELSE Append(buffer[t], incoming)
  <2>2. /\ buffer[t] \in Seq(Chars \cup {EOF}) /\ Len(buffer[t]) + 1 < size[t]
        /\ size[t] \in Nat
    BY <1>1, <2>1, SMTT(30) DEF StringInv
  <2>3. /\ kept \in Seq(Chars \cup {EOF}) /\ Len(kept) < size[t]
        /\ ~ Stops(t, incoming) => Len(kept) + 1 < size[t]
    BY <2>1, <2>2, SMTT(20) DEF Stops
  <2>4. buffer' = [buffer EXCEPT ![t] = kept]
    BY DEF GetChar
  <2> HIDE DEF kept
  <2>5. /\ buffer' \in [Threads -> Seq(Chars \cup {EOF})] /\ buffer'[t] = kept
        /\ \A u \in Threads : u # t => buffer'[u] = buffer[u]
    BY <2>1, <2>3, <2>4 DEF StringInv
  <2>6. reading'[t] \in {"next", "acquire", "wait", "more"} => ~ Stops(t, incoming)
    BY <1>3, SMTT(20)
  <2> QED
    BY <1>1, <1>2, <2>1, <2>3, <2>5, <2>6 DEF StringInv
<1>13. OutputInv'
  <2>1. display \in pending' <=> display \in pending
    BY <1>1, ConsoleConstants
  <2> QED
    BY <1>1, <2>1, OutputQuiet DEF ConsoleInv
<1> QED
  BY <1>5, <1>9, <1>10, <1>11, <1>12, <1>13 DEF InputInv

(* ConsoleInput::CallBack: the poll that was pending becomes a unit of     *)
(* waitFor, with or without a character.                                   *)
LEMMA KeyInterruptKeeps ==
  ASSUME IInv, ConsoleInv, NEW t \in Threads, KeyInterrupt(t)
  PROVE  Parked' /\ InputInv' /\ OutputInv'
<1>1. /\ keys \in pending /\ pending' = pending \ {keys}
      /\ value' = [value EXCEPT ![inWait] = @ + 1]
      /\ incoming = EOF
      /\ incoming' = (IF unread = <<>> THEN EOF ELSE Head(unread))
      /\ unread' = (IF unread = <<>> THEN <<>> ELSE Tail(unread))
      /\ UNCHANGED <<waitingOn, inHolder, gotten, reading, size, buffer, outVars>>
  BY ConsoleConstants DEF KeyInterrupt, DeviceInterrupt, VBody
<1>2. value[inWait] = 0 /\ \A u \in Threads : u \notin Awake
  BY <1>1 DEF ConsoleInv, InputInv, PollInv
<1>3. /\ value'[inWait] = 1 /\ value'[inLock] = value[inLock]
      /\ value'[outLock] = value[outLock] /\ value'[outWait] = value[outWait]
  BY <1>1, <1>2, ConsoleTypes, ConsoleConstants, SMTT(30)
<1>4. Parked'
  BY <1>1 DEF outVars, ConsoleInv, Parked
<1>5. InGetChar' = InGetChar /\ Awake' = Awake
  BY <1>1 DEF InGetChar, Awake
<1>6. InLockInv'
  BY <1>1, <1>3, <1>5 DEF ConsoleInv, InputInv, InLockInv
<1>7. PollInv'
  BY <1>1, <1>2, <1>3, <1>5 DEF PollInv
<1>8. StringInv'
  BY <1>1 DEF ConsoleInv, InputInv, StringInv
<1>9. OrderInv'
  <2>1. gotten \in Seq(Chars) /\ unread \in Seq(Chars) /\ InputInOrder
    BY DEF ConsoleInv, InputInv, OrderInv
  <2>2. CASE unread = <<>>
    BY <1>1, <2>1, <2>2 DEF OrderInv, InputInOrder
  <2>3. CASE unread # <<>>
    <3>1. incoming' = Head(unread) /\ unread' = Tail(unread)
      BY <1>1, <2>3
    <3>2. incoming' \in Chars /\ unread' \in Seq(Chars)
      BY <2>1, <2>3, <3>1, SMTT(30)
    <3>3. Keyboard = gotten \o <<>> \o unread
      BY <1>1, <2>1 DEF InputInOrder
    <3>4. Keyboard = gotten' \o <<incoming'>> \o unread'
      <4>1. gotten \o <<>> \o unread = gotten \o <<Head(unread)>> \o Tail(unread)
        BY <2>1, <2>3, CharacterArrives, SMTT(30)
      <4> QED
        BY <1>1, <3>1, <3>3, <4>1
    <3>5. incoming' # EOF
      BY <3>2, ConsoleAssumption
    <3> QED
      BY <1>1, <2>1, <3>2, <3>4, <3>5 DEF OrderInv, InputInOrder
  <2> QED
    BY <2>2, <2>3
<1>10. OutputInv'
  <2>1. display \in pending' <=> display \in pending
    BY <1>1, ConsoleConstants
  <2> QED
    BY <1>1, <1>3, <2>1, OutputQuiet DEF ConsoleInv
<1> QED
  BY <1>4, <1>6, <1>7, <1>8, <1>9, <1>10 DEF InputInv

-----------------------------------------------------------------------------
(***************************************************************************)
(* The output.                                                             *)
(***************************************************************************)
(* lock->Acquire() in PutChar, in the first round of PutString or a later  *)
(* one.                                                                    *)
LEMMA AcquireOutput ==
  ASSUME IInv, ConsoleInv, NEW t \in Threads, PutString(t) \/ NextPutChar(t)
  PROVE  Parked' /\ InputInv' /\ OutputInv'
<1>1. P(t, outLock) /\ UNCHANGED <<outHolder, putBusy, inVars>>
  BY LocksUnfolded DEF PutString, NextPutChar
<1>2. waitingOn[t] = NULL
  BY <1>1, BodyNotInP DEF P
<1>3. /\ writing[t] \in {"none", "next"} /\ reading[t] = "none"
      /\ writing' = [writing EXCEPT ![t] = "acquire"]
      /\ waitingOn' = [waitingOn EXCEPT ![t] = outLock]
      /\ UNCHANGED <<value, pending>>
  <2>1. writing[t] \in {"none", "next"} /\ (writing[t] = "none" => reading[t] = "none")
    BY DEF PutString, NextPutChar
  <2>2. writing[t] # "none" => reading[t] = "none"
    BY DEF ConsoleInv, Parked
  <2> QED
    BY <1>1, <2>1, <2>2 DEF PutString, NextPutChar, P, SetWriting, semVars
<1>4. /\ writing'[t] = "acquire" /\ waitingOn'[t] = outLock
      /\ \A u \in Threads : u # t => writing'[u] = writing[u] /\ waitingOn'[u] = waitingOn[u]
  BY <1>3, ConsoleTypes
<1>5. UNCHANGED reading
  BY <1>1 DEF inVars
<1>6. Parked'
  BY <1>3, <1>4, <1>5 DEF ConsoleInv, Parked
<1>7. InPutChar' = InPutChar /\ Unanswered' = Unanswered
  BY <1>3, <1>4, ConsoleConstants, SMTT(20) DEF InPutChar, Unanswered
<1>8. OutLockInv'
  <2>1. \A u \in Threads : writing'[u] \in {"put", "wait"} => writing[u] \in {"put", "wait"}
    BY <1>4, SMTT(20)
  <2> QED
    BY <1>1, <1>3, <1>7, <2>1 DEF ConsoleInv, OutputInv, OutLockInv
<1>9. AnswerInv'
  BY <1>1, <1>3, <1>7 DEF ConsoleInv, OutputInv, AnswerInv
<1>10. InputInv'
  BY <1>1, <1>3, <1>4, InputQuiet DEF ConsoleInv
<1> QED
  BY <1>6, <1>8, <1>9, <1>10 DEF OutputInv

(* ConsoleOutput::PutChar: the thread has the lock, so no character before *)
(* it is unanswered.                                                       *)
LEMMA PutCharKeeps ==
  ASSUME IInv, ConsoleInv, NEW t \in Threads, PutChar(t)
  PROVE  Parked' /\ InputInv' /\ OutputInv'
<1>1. /\ waitingOn[t] = NULL /\ writing[t] = "acquire"
      /\ writing' = [writing EXCEPT ![t] = "put"]
      /\ pending' = pending \cup {display} /\ putBusy' = TRUE /\ outHolder' = t
      /\ UNCHANGED <<value, waitingOn, inVars>>
  BY BodyNotInP, LocksUnfolded DEF PutChar, StartIO, SetWriting, semVars
<1>2. writing'[t] = "put" /\ \A u \in Threads : u # t => writing'[u] = writing[u]
  BY <1>1, ConsoleTypes
<1>3. UNCHANGED reading /\ reading[t] = "none"
  <2>1. writing[t] # "none"
    BY <1>1, SMTT(30)
  <2> QED
    BY <1>1, <2>1 DEF inVars, ConsoleInv, Parked
<1>4. Parked'
  BY <1>1, <1>2, <1>3 DEF ConsoleInv, Parked
<1>5. t \in InPutChar /\ \A u \in Threads : u \in Unanswered => u \in InPutChar
  BY <1>1 DEF InPutChar, Unanswered
<1>6. \A u \in Threads : u \notin Unanswered
  <2>1. t \notin Unanswered
    BY <1>1, SMTT(20) DEF Unanswered
  <2> QED
    BY <1>5, <2>1 DEF ConsoleInv, OutputInv, OutLockInv
<1>7. ~ putBusy /\ value[outWait] = 0
  BY <1>6 DEF ConsoleInv, OutputInv, AnswerInv
<1>8. InPutChar' = InPutChar
  BY <1>1, <1>2, SMTT(30) DEF InPutChar
<1>9. OutLockInv'
  <2>1. \A u \in Threads : writing'[u] \in {"put", "wait"} => u \in InPutChar
    BY <1>8 DEF InPutChar
  <2> QED
    BY <1>1, <1>5, <1>8, <2>1 DEF ConsoleInv, OutputInv, OutLockInv
<1>10. AnswerInv'
  <2>1. t \in Unanswered'
    BY <1>2 DEF Unanswered
  <2> QED
    BY <1>1, <1>7, <2>1 DEF AnswerInv
<1>11. InputInv'
  <2>1. keys \in pending' <=> keys \in pending
    BY <1>1, ConsoleConstants
  <2> QED
    BY <1>1, <2>1, InputQuiet DEF ConsoleInv
<1> QED
  BY <1>4, <1>9, <1>10, <1>11 DEF OutputInv

(* waitFor->P() in PutChar: the character stays unanswered.                *)
LEMMA WaitForPutKeeps ==
  ASSUME IInv, ConsoleInv, NEW t \in Threads, WaitForPut(t)
  PROVE  Parked' /\ InputInv' /\ OutputInv'
<1>1. /\ writing[t] = "put" /\ writing' = [writing EXCEPT ![t] = "wait"]
      /\ waitingOn' = [waitingOn EXCEPT ![t] = outWait]
      /\ UNCHANGED <<value, pending, outHolder, putBusy, inVars>>
  BY DEF WaitForPut, P, SetWriting, semVars
<1>2. /\ writing'[t] = "wait" /\ waitingOn'[t] = outWait
      /\ \A u \in Threads : u # t => writing'[u] = writing[u] /\ waitingOn'[u] = waitingOn[u]
  BY <1>1, ConsoleTypes
<1>3. UNCHANGED reading /\ reading[t] = "none"
  <2>1. writing[t] # "none"
    BY <1>1, SMTT(20)
  <2> QED
    BY <1>1, <2>1 DEF inVars, ConsoleInv, Parked
<1>4. Parked'
  BY <1>2, <1>3 DEF ConsoleInv, Parked
<1>5. InPutChar' = InPutChar /\ Unanswered' = Unanswered
  BY <1>1, <1>2, ConsoleConstants, SMTT(30) DEF InPutChar, Unanswered
<1>6. OutLockInv'
  <2>1. \A u \in Threads : writing'[u] \in {"put", "wait"} => writing[u] \in {"put", "wait"}
    BY <1>1, <1>2
  <2> QED
    BY <1>1, <1>5, <2>1 DEF ConsoleInv, OutputInv, OutLockInv
<1>7. AnswerInv'
  BY <1>1, <1>5 DEF ConsoleInv, OutputInv, AnswerInv
<1>8. InputInv'
  BY <1>1, <1>2, <1>3, InputQuiet DEF ConsoleInv
<1> QED
  BY <1>4, <1>6, <1>7, <1>8 DEF OutputInv

(* lock->Release() at the end of PutChar.                                  *)
LEMMA ReturnPutKeeps ==
  ASSUME IInv, ConsoleInv, NEW t \in Threads, ReturnPut(t)
  PROVE  Parked' /\ InputInv' /\ OutputInv'
<1>1. V(t, outLock) /\ UNCHANGED <<putBusy, inVars>>
  BY LocksUnfolded DEF ReturnPut
<1>2. waitingOn[t] = NULL
  BY <1>1, BodyNotInP DEF V
<1>3. /\ writing[t] = "wait"
      /\ value' = [value EXCEPT ![outLock] = @ + 1]
      /\ UNCHANGED <<waitingOn, pending>>
  BY <1>1 DEF ReturnPut, V, VBody
<1>4. /\ writing'[t] = IF toPut[t] = 1 THEN "none" ELSE "next"
      /\ \A u \in Threads : u # t => writing'[u] = writing[u]
  BY ConsoleTypes DEF ReturnPut, SetWriting
<1>5. writing'[t] \notin {"acquire", "put", "wait"}
  BY <1>4, SMTT(30)
<1>6. UNCHANGED reading /\ reading[t] = "none"
  <2>1. writing[t] # "none"
    BY <1>3, SMTT(30)
  <2> QED
    BY <1>1, <2>1 DEF inVars, ConsoleInv, Parked
<1>7. Parked'
  BY <1>2, <1>3, <1>4, <1>6 DEF ConsoleInv, Parked
<1>8. t \in InPutChar /\ t \notin Unanswered
  BY <1>2, <1>3, SMTT(30) DEF InPutChar, Unanswered
<1>9. \A u \in Threads : u \notin InPutChar' /\ (u \in Unanswered' <=> u \in Unanswered)
  <2>1. \A u \in Threads : u \in InPutChar => u = t
    BY <1>8 DEF ConsoleInv, OutputInv, OutLockInv
  <2>2. t \notin InPutChar' /\ t \notin Unanswered'
    BY <1>5 DEF InPutChar, Unanswered
  <2>3. \A u \in Threads : u # t => (u \in InPutChar' <=> u \in InPutChar)
                                  /\ (u \in Unanswered' <=> u \in Unanswered)
    BY <1>3, <1>4 DEF InPutChar, Unanswered
  <2> QED
    BY <1>8, <2>1, <2>2, <2>3
<1>10. /\ value'[outLock] = 1 /\ value'[outWait] = value[outWait]
       /\ value'[inLock] = value[inLock] /\ value'[inWait] = value[inWait]
  <2>1. value[outLock] = 0
    BY <1>8 DEF ConsoleInv, OutputInv, OutLockInv
  <2> QED
    BY <1>3, <2>1, ConsoleTypes, ConsoleConstants, SMTT(30)
<1>11. OutLockInv'
  <2>1. \A u \in Threads : writing'[u] \notin {"put", "wait"}
    BY <1>9 DEF InPutChar
  <2>2. \A u \in InPutChar' : u \in Threads
    BY DEF InPutChar
  <2> QED
    BY <1>9, <1>10, <2>1, <2>2 DEF OutLockInv
<1>12. AnswerInv'
  BY <1>1, <1>3, <1>9, <1>10 DEF ConsoleInv, OutputInv, AnswerInv
<1>13. InputInv'
  BY <1>1, <1>3, <1>10, InputQuiet DEF ConsoleInv
<1> QED
  BY <1>7, <1>11, <1>12, <1>13 DEF OutputInv

(* ConsoleOutput::CallBack: the interrupt that was pending becomes a unit  *)
(* of waitFor.                                                             *)
LEMMA DisplayInterruptKeeps ==
  ASSUME IInv, ConsoleInv, NEW t \in Threads, DisplayInterrupt(t)
  PROVE  Parked' /\ InputInv' /\ OutputInv'
<1>1. /\ display \in pending /\ pending' = pending \ {display}
      /\ value' = [value EXCEPT ![outWait] = @ + 1]
      /\ putBusy' = FALSE
      /\ UNCHANGED <<waitingOn, outHolder, writing, inVars>>
  BY ConsoleConstants DEF DisplayInterrupt, DeviceInterrupt, VBody
<1>2. putBusy /\ value[outWait] = 0
  BY <1>1 DEF ConsoleInv, OutputInv, AnswerInv
<1>3. /\ value'[outWait] = 1 /\ value'[outLock] = value[outLock]
      /\ value'[inLock] = value[inLock] /\ value'[inWait] = value[inWait]
  BY <1>1, <1>2, ConsoleTypes, ConsoleConstants, SMTT(30)
<1>4. Parked'
  BY <1>1 DEF inVars, ConsoleInv, Parked
<1>5. InPutChar' = InPutChar /\ Unanswered' = Unanswered
  BY <1>1 DEF InPutChar, Unanswered
<1>6. OutLockInv'
  BY <1>1, <1>3, <1>5 DEF ConsoleInv, OutputInv, OutLockInv
<1>7. AnswerInv'
  BY <1>1, <1>2, <1>3, <1>5 DEF ConsoleInv, OutputInv, AnswerInv
<1>8. InputInv'
  <2>1. keys \in pending' <=> keys \in pending
    BY <1>1, ConsoleConstants
  <2> QED
    BY <1>1, <1>3, <2>1, InputQuiet DEF ConsoleInv
<1> QED
  BY <1>4, <1>6, <1>7, <1>8 DEF OutputInv

-----------------------------------------------------------------------------
(***************************************************************************)
(* The kernel and the whole console.                                       *)
(***************************************************************************)
(* A P on the lock of the input takes its unit: nobody else is inside.     *)
LEMMA InLockTaken ==
  ASSUME ConsoleInv, NEW t \in Threads, waitingOn[t] = inLock, waitingOn'[t] = NULL,
         \A u \in Threads : u # t => waitingOn'[u] = waitingOn[u],
         value[inLock] = 1, value'[inLock] = 0, value'[inWait] = value[inWait],
         reading[t] = "acquire", UNCHANGED <<inVars, pending>>
  PROVE  InputInv'
<1>1. UNCHANGED <<inHolder, incoming, unread, reading, size, buffer, gotten, pending>>
  BY DEF inVars
<1>2. \A u \in Threads : u \notin InGetChar
  BY DEF ConsoleInv, InputInv, InLockInv
<1>3. \A u \in Threads : u \in InGetChar' <=> u = t
  BY <1>1, <1>2 DEF InGetChar
<1>4. \A u \in InGetChar' : u \in Threads
  BY DEF InGetChar
<1>5. InLockInv'
  <2>1. value'[inLock] # 1
    BY SMTT(20)
  <2> QED
    BY <1>1, <1>3, <1>4, <2>1 DEF ConsoleInv, InputInv, InLockInv
<1>6. Awake' = Awake
  BY <1>1, SMTT(30) DEF Awake
<1>7. PollInv'
  BY <1>1, <1>6 DEF ConsoleInv, InputInv, PollInv
<1>8. StringInv' /\ OrderInv'
  BY <1>1 DEF ConsoleInv, InputInv, StringInv, OrderInv, InputInOrder
<1> QED
  BY <1>5, <1>7, <1>8 DEF InputInv

(* A P on waitFor of the input takes its unit: the thread is the one that  *)
(* will read the character.                                                *)
LEMMA InWaitTaken ==
  ASSUME ConsoleInv, NEW t \in Threads, waitingOn[t] = inWait, waitingOn'[t] = NULL,
         \A u \in Threads : u # t => waitingOn'[u] = waitingOn[u],
         value[inWait] = 1, value'[inWait] = 0, value'[inLock] = value[inLock],
         reading[t] = "wait", UNCHANGED <<inVars, pending>>
  PROVE  InputInv'
<1>1. UNCHANGED <<inHolder, incoming, unread, reading, size, buffer, gotten, pending>>
  BY DEF inVars
<1>2. InGetChar' = InGetChar
  BY <1>1, SMTT(30) DEF InGetChar
<1>3. InLockInv'
  BY <1>1, <1>2 DEF ConsoleInv, InputInv, InLockInv
<1>4. t \in Awake'
  BY <1>1 DEF Awake
<1>5. PollInv'
  <2>1. value'[inWait] # 1 /\ value[inWait] # 0
    BY SMTT(20)
  <2> QED
    BY <1>1, <1>4, <2>1 DEF ConsoleInv, InputInv, PollInv
<1>6. StringInv' /\ OrderInv'
  BY <1>1 DEF ConsoleInv, InputInv, StringInv, OrderInv, InputInOrder
<1> QED
  BY <1>3, <1>5, <1>6 DEF InputInv

(* The same for the lock of the output ...                                 *)
LEMMA OutLockTaken ==
  ASSUME ConsoleInv, NEW t \in Threads, waitingOn[t] = outLock, waitingOn'[t] = NULL,
         \A u \in Threads : u # t => waitingOn'[u] = waitingOn[u],
         value[outLock] = 1, value'[outLock] = 0, value'[outWait] = value[outWait],
         writing[t] = "acquire", UNCHANGED <<outVars, pending>>
  PROVE  OutputInv'
<1>1. UNCHANGED <<outHolder, putBusy, writing, pending>>
  BY DEF outVars
<1>2. \A u \in Threads : u \notin InPutChar
  BY DEF ConsoleInv, OutputInv, OutLockInv
<1>3. \A u \in Threads : u \in InPutChar' <=> u = t
  BY <1>1, <1>2 DEF InPutChar
<1>4. \A u \in InPutChar' : u \in Threads
  BY DEF InPutChar
<1>5. OutLockInv'
  <2>1. value'[outLock] # 1
    BY SMTT(20)
  <2> QED
    BY <1>1, <1>3, <1>4, <2>1 DEF ConsoleInv, OutputInv, OutLockInv
<1>6. Unanswered' = Unanswered
  BY <1>1, SMTT(30) DEF Unanswered
<1>7. AnswerInv'
  BY <1>1, <1>6 DEF ConsoleInv, OutputInv, AnswerInv
<1> QED
  BY <1>5, <1>7 DEF OutputInv

(* ... and for waitFor: the character of the thread is answered, and it    *)
(* was the only one.                                                       *)
LEMMA OutWaitTaken ==
  ASSUME ConsoleInv, NEW t \in Threads, waitingOn[t] = outWait, waitingOn'[t] = NULL,
         \A u \in Threads : u # t => waitingOn'[u] = waitingOn[u],
         value[outWait] = 1, value'[outWait] = 0, value'[outLock] = value[outLock],
         writing[t] = "wait", UNCHANGED <<outVars, pending>>
  PROVE  OutputInv'
<1>1. UNCHANGED <<outHolder, putBusy, writing, pending>>
  BY DEF outVars
<1>2. InPutChar' = InPutChar
  BY <1>1, SMTT(30) DEF InPutChar
<1>3. OutLockInv'
  BY <1>1, <1>2 DEF ConsoleInv, OutputInv, OutLockInv
<1>4. \A u \in Threads : u \notin Unanswered'
  <2>1. t \in InPutChar /\ \A u \in Threads : u \in Unanswered' => u \in InPutChar'
    BY DEF InPutChar, Unanswered
  <2>2. t \notin Unanswered'
    BY <1>1, SMTT(30) DEF Unanswered
  <2> QED
    BY <1>2, <2>1, <2>2 DEF ConsoleInv, OutputInv, OutLockInv
<1>5. AnswerInv'
  <2>1. value'[outWait] # 1 /\ value[outWait] # 0
    BY SMTT(20)
  <2> QED
    BY <1>1, <1>4, <2>1 DEF ConsoleInv, OutputInv, AnswerInv
<1> QED
  BY <1>3, <1>5 DEF OutputInv

(* A step inside the kernel: a P that takes a unit belongs to one side of  *)
(* the console and is quiet for the other.                                 *)
LEMMA KernelStepKeeps ==
  ASSUME IInv, ConsoleInv, NEW t \in Threads, KernelStep(t), UNCHANGED <<inVars, outVars>>
  PROVE  Parked' /\ InputInv' /\ OutputInv'
<1>1. UNCHANGED <<pending, reading, writing, inVars, outVars>>
  BY KernelStepEffect DEF inVars, outVars
<1>2. CASE UNCHANGED <<value, waitingOn>>
  BY <1>1, <1>2, InputQuiet, OutputQuiet DEF ConsoleInv, Parked
<1>3. ASSUME NEW s \in Semaphores, waitingOn[t] = s, value[s] > 0,
             value' = [value EXCEPT ![s] = @ - 1],
             waitingOn' = [waitingOn EXCEPT ![t] = NULL]
      PROVE  Parked' /\ InputInv' /\ OutputInv'
  <2>1. /\ waitingOn'[t] = NULL
        /\ \A u \in Threads : u # t => waitingOn'[u] = waitingOn[u]
        /\ value'[s] = value[s] - 1 /\ \A x \in Semaphores : x # s => value'[x] = value[x]
    BY <1>3, ConsoleTypes, SMTT(30)
  <2>2. Parked'
    BY <1>1, <2>1 DEF ConsoleInv, Parked
  <2>3. value[s] = 1 => value'[s] = 0
    BY <2>1, SMTT(30)
  <2>4. value[s] # 0
    BY <1>3, SMTT(30)
  <2>5. /\ reading[t] = "none" \/ writing[t] = "none"
        /\ \/ reading[t] = "acquire" /\ s = inLock
           \/ reading[t] = "wait" /\ s = inWait
           \/ writing[t] = "acquire" /\ s = outLock
           \/ writing[t] = "wait" /\ s = outWait
    BY <1>3, KernelAssumption DEF ConsoleInv, Parked
  <2>6. CASE (reading[t] = "acquire" /\ s = inLock) \/ (reading[t] = "wait" /\ s = inWait)
    <3>1. writing[t] = "none"
      <4>1. reading[t] # "none"
        BY <2>6, SMTT(30)
      <4> QED
        BY <2>5, <4>1
    <3>2. /\ value'[outLock] = value[outLock] /\ value'[outWait] = value[outWait]
          /\ \A u \in Threads : writing[u] # "none" => waitingOn'[u] = waitingOn[u]
      BY <2>1, <2>6, <3>1, ConsoleConstants
    <3>3. OutputInv'
      BY <1>1, <3>2, OutputQuiet DEF ConsoleInv
    <3>4. CASE reading[t] = "acquire" /\ s = inLock
      <4>1. value[inLock] = 1 /\ value'[inLock] = 0 /\ value'[inWait] = value[inWait]
        BY <2>1, <2>3, <2>4, <3>4, ConsoleConstants
           DEF ConsoleInv, InputInv, InLockInv
      <4> QED
        BY <1>1, <1>3, <2>1, <2>2, <3>3, <3>4, <4>1, InLockTaken
    <3>5. CASE reading[t] = "wait" /\ s = inWait
      <4>1. value[inWait] = 1 /\ value'[inWait] = 0 /\ value'[inLock] = value[inLock]
        BY <2>1, <2>3, <2>4, <3>5, ConsoleConstants
           DEF ConsoleInv, InputInv, PollInv
      <4> QED
        BY <1>1, <1>3, <2>1, <2>2, <3>3, <3>5, <4>1, InWaitTaken
    <3> QED
      BY <2>6, <3>4, <3>5
  <2>7. CASE (writing[t] = "acquire" /\ s = outLock) \/ (writing[t] = "wait" /\ s = outWait)
    <3>1. reading[t] = "none"
      <4>1. writing[t] # "none"
        BY <2>7, SMTT(20)
      <4> QED
        BY <2>5, <4>1
    <3>2. /\ value'[inLock] = value[inLock] /\ value'[inWait] = value[inWait]
          /\ \A u \in Threads : reading[u] # "none" => waitingOn'[u] = waitingOn[u]
      BY <2>1, <2>7, <3>1, ConsoleConstants
    <3>3. InputInv'
      BY <1>1, <3>2, InputQuiet DEF ConsoleInv
    <3>4. CASE writing[t] = "acquire" /\ s = outLock
      <4>1. value[outLock] = 1 /\ value'[outLock] = 0 /\ value'[outWait] = value[outWait]
        BY <2>1, <2>3, <2>4, <3>4, ConsoleConstants
           DEF ConsoleInv, OutputInv, OutLockInv
      <4> QED
        BY <1>1, <1>3, <2>1, <2>2, <3>3, <3>4, <4>1, OutLockTaken
    <3>5. CASE writing[t] = "wait" /\ s = outWait
      <4>1. value[outWait] = 1 /\ value'[outWait] = 0 /\ value'[outLock] = value[outLock]
        BY <2>1, <2>3, <2>4, <3>5, ConsoleConstants
           DEF ConsoleInv, OutputInv, AnswerInv
      <4> QED
        BY <1>1, <1>3, <2>1, <2>2, <3>3, <3>5, <4>1, OutWaitTaken
    <3> QED
      BY <2>7, <3>4, <3>5
  <2> QED
    BY <2>5, <2>6, <2>7
<1> QED
  BY <1>2, <1>3, KernelStepEffect

(* Creating and forking threads, and doing nothing.                        *)
LEMMA OutsideKeeps ==
  ASSUME ConsoleInv, (\E t \in Threads : Outside(t)) \/ UNCHANGED vars
  PROVE  Parked' /\ InputInv' /\ OutputInv'
<1>1. UNCHANGED <<value, waitingOn, pending, reading, writing, inVars, outVars>>
  BY DEF Outside, NewThread, Fork, intVars, semVars, kernelVars, vars, inVars, outVars
<1> QED
  BY <1>1, InputQuiet, OutputQuiet DEF ConsoleInv, Parked

(* The places of the threads stay what they may be.                        *)
LEMMA PlacesKept ==
  ASSUME ConsoleInv, [Next]_vars
  PROVE  PlaceTypes'
<1> DEFINE Rs == {"none", "next", "acquire", "wait", "more", "last"}
           Ws == {"none", "next", "acquire", "put", "wait"}
<1>1. reading \in [Threads -> Rs] /\ writing \in [Threads -> Ws]
  BY DEF ConsoleInv, PlaceTypes
<1>2. /\ "none" \in Rs /\ "next" \in Rs /\ "acquire" \in Rs /\ "wait" \in Rs
      /\ "more" \in Rs /\ "last" \in Rs
      /\ "none" \in Ws /\ "next" \in Ws /\ "acquire" \in Ws /\ "put" \in Ws /\ "wait" \in Ws
  BY SMTT(20)
<1> HIDE DEF Rs, Ws
<1>3. \/ reading' = reading
      \/ \E t \in Threads, r \in Rs : reading' = [reading EXCEPT ![t] = r]
  BY <1>2
     DEF Next, GetString, GetNothing, NextGetChar, WaitForChar, GetChar, ReturnChar,
         KeyInterrupt, PutString, NextPutChar, PutChar, WaitForPut, ReturnPut, DisplayInterrupt, Outside,
         SetReading, inVars, vars
<1>4. \/ writing' = writing
      \/ \E t \in Threads, w \in Ws : writing' = [writing EXCEPT ![t] = w]
  BY <1>2
     DEF Next, GetString, GetNothing, NextGetChar, WaitForChar, GetChar, ReturnChar,
         KeyInterrupt, PutString, NextPutChar, PutChar, WaitForPut, ReturnPut, DisplayInterrupt, Outside,
         SetWriting, outVars, vars
<1>5. reading' \in [Threads -> Rs] /\ writing' \in [Threads -> Ws]
  BY <1>1, <1>3, <1>4
<1> QED
  BY <1>5 DEF PlaceTypes, Rs, Ws

(* Every step of the console keeps the invariant.                          *)
LEMMA ConsoleStep == IInv /\ ConsoleInv /\ [Next]_vars => IInv' /\ ConsoleInv'
<1> SUFFICES ASSUME IInv, ConsoleInv, [Next]_vars
             PROVE  IInv' /\ ConsoleInv'
  BY SMTT(20)
<1>1. IInv'
  BY ConsoleStepIsAnyStep, IInvStep
<1>2. PlaceTypes'
  BY PlacesKept
<1>3. CASE UNCHANGED vars
  BY <1>1, <1>2, <1>3, OutsideKeeps DEF ConsoleInv
<1>4. CASE Next
  <2>1. Parked' /\ InputInv' /\ OutputInv'
    BY <1>4, AcquireInput, GetNothingKeeps, WaitForCharKeeps, CharReadKeeps, ReturnCharKeeps,
       KeyInterruptKeeps, AcquireOutput, PutCharKeeps, WaitForPutKeeps, ReturnPutKeeps,
       DisplayInterruptKeeps, OutsideKeeps, KernelStepKeeps DEF Next
  <2> QED
    BY <1>1, <1>2, <2>1 DEF ConsoleInv
<1> QED
  BY <1>3, <1>4

(* The invariant gives the promises of the two devices.                    *)
LEMMA ConsoleInvSafe == IInv /\ ConsoleInv => ConsoleSafe /\ InputInOrder
<1> SUFFICES ASSUME IInv, ConsoleInv PROVE ConsoleSafe /\ InputInOrder
  BY SMTT(20)
<1>1. InputInOrder
  BY DEF ConsoleInv, InputInv, OrderInv
<1>2. KeySafe
  <2>1. \A t, u \in Awake : t = u
    BY DEF ConsoleInv, InputInv, InLockInv, InGetChar, Awake
  <2>2. incoming # EOF => value[inWait] = IF Awake = {} THEN 1 ELSE 0
    <3>1. \A t \in Awake : t \in Threads
      BY DEF Awake
    <3>2. CASE Awake = {}
      BY <3>2 DEF ConsoleInv, InputInv, PollInv
    <3>3. CASE Awake # {}
      <4>1. PICK t \in Awake : TRUE
        BY <3>3
      <4> QED
        BY <3>1, <3>3, <4>1 DEF ConsoleInv, InputInv, PollInv
    <3> QED
      BY <3>2, <3>3
  <2> QED
    BY <2>1, <2>2
       DEF KeySafe, ConsoleInv, InputInv, InLockInv, PollInv, StringInv
<1>3. DisplaySafe
  <2>1. \A t \in Unanswered : t \in Threads /\ t \in InPutChar
    BY DEF Unanswered, InPutChar
  <2>2. \A t, u \in Unanswered : t = u
    BY <2>1 DEF ConsoleInv, OutputInv, OutLockInv
  <2>3. ASSUME NEW t \in Threads, At(t, "body"), writing[t] = "acquire", putBusy
        PROVE  FALSE
    <3>1. t \in InPutChar /\ t \notin Unanswered
      BY <2>3, BodyNotInP, SMTT(30) DEF InPutChar, Unanswered
    <3>2. PICK u \in Threads : u \in Unanswered
      BY <2>3 DEF ConsoleInv, OutputInv, AnswerInv
    <3> QED
      BY <2>1, <3>1, <3>2 DEF ConsoleInv, OutputInv, OutLockInv
  <2>4. value[outWait] + (IF putBusy THEN 1 ELSE 0) = IF Unanswered = {} THEN 0 ELSE 1
    <3>1. value[outWait] = 0 \/ (value[outWait] = 1 /\ ~ putBusy)
      BY DEF ConsoleInv, OutputInv, AnswerInv
    <3>2. Unanswered = {} <=> ~ (putBusy \/ value[outWait] = 1)
      BY <2>1 DEF ConsoleInv, OutputInv, AnswerInv
    <3> QED
      BY <3>1, <3>2, SMTT(30)
  <2> QED
    BY <2>2, <2>3, <2>4 DEF DisplaySafe, ConsoleInv, OutputInv, OutLockInv, AnswerInv
<1> QED
  BY <1>1, <1>2, <1>3 DEF ConsoleSafe

(* The keyboard and the display keep their promises: the assertions of     *)
(* ConsoleInput::CallBack, ConsoleOutput::PutChar and Lock::Release hold,  *)
(* every wake-up goes to the thread it is meant for, and no string outgrows*)
(* its buffer, if that has any room.                                       *)
THEOREM ConsoleCorrect == Spec => []ConsoleSafe
<1>1. Init => IInv /\ ConsoleInv
  BY ConsoleStart, SMTT(20)
<1>2. IInv /\ ConsoleInv /\ [Next]_vars => (IInv /\ ConsoleInv)'
  BY ConsoleStep, SMTT(20)
<1>3. IInv /\ ConsoleInv => ConsoleSafe
  BY ConsoleInvSafe, SMTT(30)
<1> QED
  BY <1>1, <1>2, <1>3, PTL DEF Spec

(* What the threads read from the console is what was typed, in order,     *)
(* whoever reads (ConsoleInput::GetChar and CallBack).                     *)
THEOREM InputCorrect == Spec => []InputInOrder
<1>1. Init => IInv /\ ConsoleInv
  BY ConsoleStart, SMTT(20)
<1>2. IInv /\ ConsoleInv /\ [Next]_vars => (IInv /\ ConsoleInv)'
  BY ConsoleStep, SMTT(20)
<1>3. IInv /\ ConsoleInv => InputInOrder
  BY ConsoleInvSafe, SMTT(20)
<1> QED
  BY <1>1, <1>2, <1>3, PTL DEF Spec
=============================================================================

------------------------------ MODULE Console -------------------------------
(***************************************************************************)
(* The console: the simulated keyboard and display (machine/console.cc)    *)
(* and the synchronized access to them (userprog/synchconsole.cc).         *)
(*                                                                         *)
(* The keyboard holds one character in "incoming"; the next one is polled  *)
(* for only after that one has been read.  "unread" is what is left of the *)
(* UNIX file that stands for the keyboard.  reading[t] and writing[t] say  *)
(* where thread t is:                                                      *)
(*                                                                         *)
(*   none     in no read (write)                                           *)
(*   next     in GetString (PutString), before a GetChar (PutChar)         *)
(*   acquire  in the P of lock->Acquire()                                  *)
(*   put      has made its request to the display                          *)
(*   wait     in waitFor->P()                                              *)
(*   more     has read a character that is not the last of its string      *)
(*   last     has read the last one                                        *)
(***************************************************************************)
EXTENDS Kernel

CONSTANTS
  Keyboard,   \* the characters of the input file
  Sizes,      \* the sizes that GetString is called with
  OutLength,  \* the "size" of PutString
  EOF,
  keys, display,                     \* the two devices
  inLock, inWait, outLock, outWait   \* the four semaphores

Chars == {Keyboard[i] : i \in DOMAIN Keyboard}

ASSUME ConsoleAssumption ==
  /\ {inLock, inWait, outLock, outWait} \subseteq Semaphores
  /\ inLock # outLock /\ inWait # outWait /\ keys # display
  /\ InitialValue[inLock] = 1 /\ InitialValue[outLock] = 1
  /\ InitialValue[inWait] = 0 /\ InitialValue[outWait] = 0
  /\ Devices = {keys, display}
  /\ DoneSem[keys] = inWait /\ DoneSem[display] = outWait
  /\ Sizes \subseteq Nat /\ OutLength \in Nat \ {0}
  /\ Keyboard \in Seq(Chars) /\ EOF \notin Chars

VARIABLES
  inHolder,   \* lockHolder of SynchConsoleInput::lock
  outHolder,  \* lockHolder of SynchConsoleOutput::lock
  incoming,   \* ConsoleInput::incoming
  unread,     \* the rest of the input file
  putBusy,    \* ConsoleOutput::putBusy
  reading, writing,
  size,       \* the "size" of the thread's last GetString
  buffer,     \* what that has stored, without the NUL
  toPut,      \* the characters PutString still has to write
  gotten      \* every character GetChar has returned, in order

inVars == <<inHolder, incoming, unread, reading, size, buffer, gotten>>
outVars == <<outHolder, putBusy, writing, toPut>>
vars == <<kernelVars, inVars, outVars>>

InLock == INSTANCE Lock WITH LockSem <- inLock, lockHolder <- inHolder
OutLock == INSTANCE Lock WITH LockSem <- outLock, lockHolder <- outHolder

(* SynchConsoleInput and SynchConsoleOutput; ConsoleInput::ConsoleInput     *)
(* schedules the first poll.                                               *)
Init ==
  /\ KernelStart({keys})
  /\ InLock!LockInit /\ OutLock!LockInit
  /\ incoming = EOF
  /\ unread = Keyboard
  /\ putBusy = FALSE
  /\ reading = [t \in Threads |-> "none"]
  /\ writing = [t \in Threads |-> "none"]
  /\ size = [t \in Threads |-> 0]
  /\ buffer = [t \in Threads |-> <<>>]
  /\ toPut = [t \in Threads |-> 0]
  /\ gotten = <<>>

SetReading(t, r) == reading' = [reading EXCEPT ![t] = r]
SetWriting(t, w) == writing' = [writing EXCEPT ![t] = w]

-----------------------------------------------------------------------------
(* SynchConsoleInput::GetString, up to the lock->Acquire() of GetChar ... *)
GetString(t, n) ==
  /\ reading[t] = "none" /\ writing[t] = "none"
  /\ n > 1
  /\ InLock!LockAcquire(t)
  /\ SetReading(t, "acquire")
  /\ size' = [size EXCEPT ![t] = n]
  /\ buffer' = [buffer EXCEPT ![t] = <<>>]
  /\ UNCHANGED <<incoming, unread, gotten, outVars>>

(* ... or to its end, when the size is 0 or 1: nothing is read, and the    *)
(* NUL is stored, which for 0 is one byte past the buffer.                 *)
GetNothing(t, n) ==
  /\ reading[t] = "none" /\ writing[t] = "none"
  /\ n <= 1
  /\ At(t, "body")
  /\ size' = [size EXCEPT ![t] = n]
  /\ buffer' = [buffer EXCEPT ![t] = <<>>]
  /\ UNCHANGED <<kernelVars, inHolder, incoming, unread, reading, gotten, outVars>>

(* The next round of its loop. *)
NextGetChar(t) ==
  /\ reading[t] = "next"
  /\ InLock!LockAcquire(t)
  /\ SetReading(t, "acquire")
  /\ UNCHANGED <<incoming, unread, gotten, size, buffer, outVars>>

(* SynchConsoleInput::GetChar has the lock: waitFor->P() *)
WaitForChar(t) ==
  /\ reading[t] = "acquire"
  /\ InLock!LockAcquired(t)
  /\ P(t, inWait)
  /\ SetReading(t, "wait")
  /\ UNCHANGED <<incoming, unread, gotten, size, buffer, outVars>>

(* Whether GetString stops at this character: a newline or a NUL, or the   *)
(* last one there is room for.                                             *)
Stops(t, ch) == ch \in {"newline", "nul"} \/ Len(buffer[t]) + 2 = size[t]

(* Mutant: ConsoleInput::GetChar does not ask for the next character. *)
GetCharNoPoll(t) ==
  /\ At(t, "body")
  /\ reading[t] = "wait"
  /\ gotten' = IF incoming = EOF THEN gotten ELSE Append(gotten, incoming)
  /\ incoming' = EOF
  /\ buffer' = [buffer EXCEPT ![t] =
                  IF incoming \in {"newline", "nul"} THEN @ ELSE Append(@, incoming)]
  /\ SetReading(t, IF Stops(t, incoming) THEN "last" ELSE "more")
  /\ UNCHANGED <<kernelVars, inHolder, unread, size, outVars>>

(* Mutant: ConsoleInput::GetChar does not reset "incoming". *)
GetCharKeeps(t) ==
  /\ At(t, "body")
  /\ reading[t] = "wait"
  /\ IF incoming = EOF
       THEN UNCHANGED <<kernelVars, gotten>>
       ELSE /\ StartIO(t, keys)
            /\ gotten' = Append(gotten, incoming)
  /\ buffer' = [buffer EXCEPT ![t] =
                  IF incoming \in {"newline", "nul"} THEN @ ELSE Append(@, incoming)]
  /\ SetReading(t, IF Stops(t, incoming) THEN "last" ELSE "more")
  /\ UNCHANGED <<inHolder, incoming, unread, size, outVars>>

(* ConsoleInput::GetChar, and what GetString does with the character.  The *)
(* character EOF is stored like any other, and asks for no further poll.   *)
GetChar(t) ==
  /\ At(t, "body")
  /\ reading[t] = "wait"
  /\ IF incoming = EOF
       THEN UNCHANGED <<kernelVars, gotten>>
       ELSE /\ StartIO(t, keys)
            /\ gotten' = Append(gotten, incoming)
  /\ incoming' = EOF
  /\ buffer' = [buffer EXCEPT ![t] =
                  IF incoming \in {"newline", "nul"} THEN @ ELSE Append(@, incoming)]
  /\ SetReading(t, IF Stops(t, incoming) THEN "last" ELSE "more")
  /\ UNCHANGED <<inHolder, unread, size, outVars>>

(* lock->Release() at the end of GetChar *)
ReturnChar(t) ==
  /\ reading[t] \in {"more", "last"}
  /\ InLock!LockRelease(t)
  /\ SetReading(t, IF reading[t] = "more" THEN "next" ELSE "none")
  /\ UNCHANGED <<incoming, unread, gotten, size, buffer, outVars>>

(* ConsoleInput::CallBack when the file can be read (when it cannot, the   *)
(* handler only schedules the next poll), with its assertion.  At the end  *)
(* of the file there is no character and the callback is made all the      *)
(* same.                                                                   *)
KeyInterrupt(t) ==
  /\ DeviceInterrupt(t, keys)
  /\ incoming = EOF
  /\ incoming' = IF unread = <<>> THEN EOF ELSE Head(unread)
  /\ unread' = IF unread = <<>> THEN <<>> ELSE Tail(unread)
  /\ UNCHANGED <<inHolder, gotten, reading, size, buffer, outVars>>

-----------------------------------------------------------------------------
(* SynchConsoleOutput::PutString, up to the lock->Acquire() of PutChar.    *)
(* (Of an empty string it does nothing.)                                   *)
PutString(t) ==
  /\ reading[t] = "none" /\ writing[t] = "none"
  /\ OutLock!LockAcquire(t)
  /\ SetWriting(t, "acquire")
  /\ toPut' = [toPut EXCEPT ![t] = OutLength]
  /\ UNCHANGED <<putBusy, inVars>>

(* The next round of its loop. *)
NextPutChar(t) ==
  /\ writing[t] = "next"
  /\ OutLock!LockAcquire(t)
  /\ SetWriting(t, "acquire")
  /\ UNCHANGED <<putBusy, toPut, inVars>>

(* SynchConsoleOutput::PutChar has the lock: ConsoleOutput::PutChar, with  *)
(* its assertion.                                                          *)
PutChar(t) ==
  /\ writing[t] = "acquire"
  /\ OutLock!LockAcquired(t)
  /\ ~ putBusy
  /\ putBusy' = TRUE
  /\ StartIO(t, display)
  /\ SetWriting(t, "put")
  /\ UNCHANGED <<toPut, inVars>>

(* Mutant: PutChar releases the lock without waiting for the display. *)
WaitForPutNot(t) ==
  /\ writing[t] = "put"
  /\ OutLock!LockRelease(t)
  /\ SetWriting(t, "none")
  /\ UNCHANGED <<putBusy, toPut, inVars>>

(* waitFor->P() *)
WaitForPut(t) ==
  /\ writing[t] = "put"
  /\ P(t, outWait)
  /\ SetWriting(t, "wait")
  /\ UNCHANGED <<outHolder, putBusy, toPut, inVars>>

(* lock->Release() at the end of PutChar *)
ReturnPut(t) ==
  /\ writing[t] = "wait"
  /\ OutLock!LockRelease(t)
  /\ toPut' = [toPut EXCEPT ![t] = @ - 1]
  /\ SetWriting(t, IF toPut[t] = 1 THEN "none" ELSE "next")
  /\ UNCHANGED <<putBusy, inVars>>

(* ConsoleOutput::CallBack *)
DisplayInterrupt(t) ==
  /\ DeviceInterrupt(t, display)
  /\ putBusy' = FALSE
  /\ UNCHANGED <<outHolder, writing, toPut, inVars>>

-----------------------------------------------------------------------------
(* A thread that is not using the console may create and fork threads. *)
Outside(t) ==
  /\ reading[t] = "none" /\ writing[t] = "none"
  /\ \E u \in Threads : NewThread(t, u) \/ Fork(t, u)
  /\ UNCHANGED <<inVars, outVars>>

Next ==
  \E t \in Threads :
    \/ \E n \in Sizes : GetString(t, n) \/ GetNothing(t, n)
    \/ NextGetChar(t) \/ WaitForChar(t) \/ GetChar(t)
    \/ ReturnChar(t) \/ KeyInterrupt(t)
    \/ PutString(t) \/ NextPutChar(t) \/ PutChar(t) \/ WaitForPut(t)
    \/ ReturnPut(t) \/ DisplayInterrupt(t)
    \/ Outside(t)
    \/ KernelStep(t) /\ UNCHANGED <<inVars, outVars>>

Spec == Init /\ [][Next]_vars

(***************************************************************************)
(* The fairness of the simulated machine: see Threads.tla.                 *)
(***************************************************************************)
Fairness ==
  /\ WF_vars(Next)
  /\ SF_vars(\E t \in Threads : TimerInterrupt(t) /\ UNCHANGED <<inVars, outVars>>)
  /\ \A t \in Threads : SF_vars(EndTick(t) /\ UNCHANGED <<inVars, outVars>>)
  /\ SF_vars(\E t \in Threads : KeyInterrupt(t))
  /\ SF_vars(\E t \in Threads : DisplayInterrupt(t))

FairSpec == Spec /\ Fairness

-----------------------------------------------------------------------------
(* Every variable has its type. *)
TypeOK ==
  /\ KernelTypeOK
  /\ {inHolder, outHolder} \subseteq Threads \cup {NULL}
  /\ putBusy \in BOOLEAN
  /\ reading \in [Threads -> {"none", "next", "acquire", "wait", "more", "last"}]
  /\ writing \in [Threads -> {"none", "next", "acquire", "put", "wait"}]
  /\ \A t \in Threads : toPut[t] \in 0 .. OutLength /\ size[t] \in Nat

(* No character is lost, repeated or reordered between the keyboard and    *)
(* GetChar, whoever reads and however late: "incoming" is overwritten only *)
(* after it has been read, because ConsoleInput asks for the next one only *)
(* in GetChar.                                                             *)
InputInOrder ==
  Keyboard = gotten \o (IF incoming = EOF THEN <<>> ELSE <<incoming>>) \o unread

(* The threads that hold a wake-up for the character in "incoming", and    *)
(* those whose character the display is not done with.                     *)
Awake == {t \in Threads : reading[t] = "wait" /\ waitingOn[t] = NULL}
Unanswered ==
  {t \in Threads : \/ writing[t] = "put"
                   \/ writing[t] = "wait" /\ waitingOn[t] # NULL}

(* The assertion of ConsoleInput::CallBack holds, and a character in       *)
(* "incoming" has exactly one wake-up, stored in waitFor or taken by the   *)
(* one thread that will read the character (ConsoleInput, SynchConsole);   *)
(* that thread holds the lock to the end, as Lock::Release asserts, and    *)
(* its string never outgrows the buffer, the final NUL included, if that   *)
(* has any room.                                                           *)
KeySafe ==
  /\ keys \in pending => incoming = EOF /\ value[inWait] = 0
  /\ \A t, u \in Awake : t = u
  /\ incoming # EOF => value[inWait] = IF Awake = {} THEN 1 ELSE 0
  /\ \A t \in Threads :
       /\ reading[t] \in {"wait", "more", "last"} => inHolder = t
       /\ size[t] > 0 => Len(buffer[t]) < size[t]

(* The assertion of ConsoleOutput::PutChar holds: nobody puts a character  *)
(* before the display is done with the last one, each is answered by its   *)
(* own interrupt, and the lock is held until then.                         *)
DisplaySafe ==
  /\ \A t \in Threads : At(t, "body") /\ writing[t] = "acquire" => ~ putBusy
  /\ \A t \in Threads : writing[t] \in {"put", "wait"} => outHolder = t
  /\ putBusy <=> display \in pending
  /\ \A t, u \in Unanswered : t = u
  /\ value[outWait] + (IF putBusy THEN 1 ELSE 0) = IF Unanswered = {} THEN 0 ELSE 1

(* Both devices of the console keep their promises to SynchConsoleInput    *)
(* and SynchConsoleOutput.                                                 *)
ConsoleSafe == KeySafe /\ DisplaySafe

(* A thread that puts a string to the display finishes each character.     *)
PutReturns ==
  \A t \in Threads : writing[t] = "put" ~> writing[t] \in {"next", "none"}

(* While there is input and somebody reads, the input is consumed.         *)
InputConsumed ==
  \A n \in 1 .. Len(Keyboard) :
    Len(unread) = n /\ (\E t \in Threads : reading[t] # "none")
      ~> Len(unread) # n \/ \A t \in Threads : reading[t] = "none"

(* userprog/syscall.h:152-156 says of a Read from an I/O device: "if it is *)
(* an I/O device, and there aren't enough characters to read, return       *)
(* whatever is available".  So a GetString that has read a character and   *)
(* meets the end of the input returns.                                     *)
EndOfInputReturns ==
  \A t \in Threads :
    reading[t] # "none" /\ unread = <<>> /\ buffer[t] # <<>> ~> reading[t] = "none"
=============================================================================

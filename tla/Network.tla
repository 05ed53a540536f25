------------------------------ MODULE Network -------------------------------
(***************************************************************************)
(* Two Nachos machines on a network, started to run NetworkTest (the flag  *)
(* -N of threads/main.cc) or other programs that use the post office.      *)
(***************************************************************************)
EXTENDS PostOfficeClient, NetworkTest

VARIABLE testing  \* networkTestFlag, the same on both machines

networkVars == <<officeVars, unsent, step, testing>>

NetworkInit ==
  /\ OfficeInit
  /\ unsent = Data
  /\ step = [h \in Hosts |-> 0]
  /\ testing \in BOOLEAN
  /\ testing \/ chanceToWork = "sometimes"  \* bound: it allows what the others do

Test(h) ==
  /\ testing
  /\ TestCall(h)
  /\ UNCHANGED <<unsent, testing>>

Program(c) ==
  /\ ~ testing
  /\ Calls(c)
  /\ UNCHANGED <<step, testing>>

(* A step of the post offices *)
Of(A) == A /\ UNCHANGED <<unsent, step, testing>>

NetworkNext ==
  \/ \E h \in Hosts : Test(h)
  \/ \E c \in Clients : Program(c)
  \/ Of(OfficeStep)

NetworkSpec == NetworkInit /\ [][NetworkNext]_networkVars

(***************************************************************************)
(* A pending interrupt occurs, a thread whose semaphore has a unit runs    *)
(* (Threads.tla), and a mailbox gives what it has to somebody who waits    *)
(* (ItemsTaken of SynchList.tla).  The postal worker gets the lock of a    *)
(* mailbox, because each other holder of it takes a message or waits.      *)
(* Nothing is assumed of sendLock, which is not fair, but for the test,    *)
(* where nobody else sends.                                                *)
(***************************************************************************)
NetworkFairness ==
  /\ \A c \in Clients : WF_networkVars(Of(SendReturns(c)))
  /\ \A h \in Hosts :
       /\ WF_networkVars(Test(h)) /\ WF_networkVars(testing /\ Of(SendLocked(h)))
       /\ WF_networkVars(Of(SendInterrupt(h)))
       /\ WF_networkVars(Of(ReceiveInterrupt(h)))
       /\ WF_networkVars(Of(WorkerWakes(h)))
       /\ WF_networkVars(Of(WorkerReceives(h)))
       /\ WF_networkVars(Of(WorkerPuts(h)))
       /\ \A b \in Boxes :
            WF_networkVars(Of(\E c \in Clients : /\ HostOf[c] = h /\ box[c] = b
                                          /\ ReceiveReturns(c)))

NetworkFairSpec == NetworkSpec /\ NetworkFairness

-----------------------------------------------------------------------------
(* Every variable has its type. *)
NetworkTypeOK ==
  /\ OfficeTypeOK
  /\ unsent \subseteq Data
  /\ step \in [Hosts -> 0 .. 4]
  /\ testing \in BOOLEAN

(* On a network that loses nothing the test comes to its end on both       *)
(* machines (Kernel::NetworkTest: "Then we're done!").                     *)
TestEnds ==
  testing /\ chanceToWork = "always" ~> \A h \in Hosts : Done(h)
=============================================================================

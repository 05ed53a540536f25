---------------------------- MODULE NetworkTest -----------------------------
(***************************************************************************)
(* Kernel::NetworkTest (threads/kernel.cc) on the two machines 0 and 1:    *)
(* each sends a message to box 0 of the other, waits for the other's       *)
(* message in box 0, acknowledges it to the box it names, and waits for    *)
(* the other's acknowledgement in box 1.  step[h] counts the calls of the  *)
(* post office that machine h has made; the thread that runs the test has  *)
(* the number of its machine.                                              *)
(***************************************************************************)
EXTENDS PostOffice

VARIABLE step

ASSUME NetworkTestAssumption ==
  /\ Hosts = {0, 1} /\ Hosts \subseteq Clients /\ Boxes = {0, 1}
  /\ \A h \in Hosts : HostOf[h] = h
  /\ Data = {"hello", "ack"}

farHost(h) == 1 - h

(* Mutant: the acknowledgement is sent first and the message awaited next. *)
TestCallSwapped(h) ==
  /\ \/ step[h] = 0 /\ Send(h, farHost(h), 0, 1, "hello")
     \/ step[h] = 1 /\ Send(h, farHost(h), 1, 1, "ack")
     \/ step[h] = 2 /\ Receive(h, 0)
     \/ step[h] = 3 /\ Receive(h, 1)
  /\ step' = [step EXCEPT ![h] = @ + 1]

(* Mutant: the acknowledgement goes to box 0. *)
TestCallSameBox(h) ==
  /\ \/ step[h] = 0 /\ Send(h, farHost(h), 0, 0, "hello")
     \/ step[h] = 1 /\ Receive(h, 0)
     \/ step[h] = 2 /\ Send(h, got[h][0].from, got[h][0].fromBox, 1, "ack")
     \/ step[h] = 3 /\ Receive(h, 1)
  /\ step' = [step EXCEPT ![h] = @ + 1]

(* The next call of NetworkTest, when the last one has returned. *)
TestCall(h) ==
  /\ \/ step[h] = 0 /\ Send(h, farHost(h), 0, 1, "hello")
     \/ step[h] = 1 /\ Receive(h, 0)
     \/ step[h] = 2 /\ Send(h, got[h][0].from, got[h][0].fromBox, 1, "ack")
     \/ step[h] = 3 /\ Receive(h, 1)
  /\ step' = [step EXCEPT ![h] = @ + 1]

Done(h) == step[h] = 4 /\ stage[h] = "out"

-----------------------------------------------------------------------------
(* A machine that has its acknowledgement knows that the other one has     *)
(* received its message, whatever the network lost: the two mailboxes of   *)
(* NetworkTest keep a message from being taken for an acknowledgement.     *)
AckMeansReceived ==
  \A h \in Hosts : Done(h) =>
    /\ got[h][1].data = "ack" /\ got[h][1].from = farHost(h)
    /\ got[farHost(h)][0] # NoPacket
    /\ got[farHost(h)][0].data = "hello" /\ got[farHost(h)][0].from = h

=============================================================================

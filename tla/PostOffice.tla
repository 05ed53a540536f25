----------------------------- MODULE PostOffice -----------------------------
(***************************************************************************)
(* The post offices (network/post.cc) of a set of Nachos machines and the  *)
(* simulated network between them (machine/network.cc).                    *)
(*                                                                         *)
(* A message passes from a client thread, under sendLock, into the UNIX    *)
(* socket of the destination unless the network loses it.  There the       *)
(* receive interrupt moves it into the one-packet buffer of NetworkInput,  *)
(* the postal worker thread takes it out and puts it in a mailbox, and a   *)
(* client thread removes it.  The semaphores, the lock and the mailboxes   *)
(* (a SynchList each) appear here as Threads.tla, Monitor.tla and          *)
(* SynchList.tla show them to behave: as atomic operations that wait.      *)
(*                                                                         *)
(* stage[c] says where client thread c is:                                 *)
(*                                                                         *)
(*   out      in no operation of the post office                           *)
(*   acquire  in Send, before it has sendLock                              *)
(*   sent     in Send, in messageSent->P()                                 *)
(*   receive  in Receive                                                   *)
(***************************************************************************)
EXTENDS Naturals, Sequences

CONSTANTS
  Hosts,        \* the machines
  Boxes,        \* the mailboxes of each machine
  Clients,      \* the threads that send and receive
  HostOf,       \* the machine of each of them
  Data,         \* the payloads
  Reliabilities,  \* the values chanceToWork may have: see Chances
  Nobody

(* What NetworkOutput::chanceToWork makes of the random number of a Send. *)
Chances == {"never", "sometimes", "always"}

ASSUME PostOfficeAssumption ==
  /\ HostOf \in [Clients -> Hosts]
  /\ Reliabilities \subseteq Chances /\ Reliabilities # {}
  /\ Nobody \notin Clients

(* A PacketHeader, a MailHeader and the data. *)
Packet == [to : Hosts, from : Hosts, toBox : Boxes, fromBox : Boxes, data : Data]
NoPacket == [to |-> Nobody]

VARIABLES
  socket,            \* the packets in each machine's UNIX socket
  inHdr,             \* NetworkInput: the buffered packet
  messageAvailable,  \* PostOfficeInput: the value of the semaphore
  worker,            \* the postal worker: "idle", "receive" or "put"
  hand,              \* the packet the worker has received
  boxes,             \* PostOfficeInput: the mailboxes
  sendLock,          \* PostOfficeOutput: the holder of the lock
  messageSent,       \* PostOfficeOutput: the value of the semaphore
  sendInt,           \* the send interrupt is pending
  sendBusy,          \* NetworkOutput::sendBusy
  chanceToWork,      \* NetworkOutput::chanceToWork, the same on all machines
  stage, mail, box,  \* for each client: see above; what it sends; where it receives
  got                \* the last mail taken from each mailbox

inputVars == <<inHdr, messageAvailable, worker, hand>>
outputVars == <<sendLock, messageSent, sendInt, sendBusy, chanceToWork>>
clientVars == <<stage, mail, box>>
officeVars == <<socket, inputVars, boxes, outputVars, clientVars, got>>

OfficeTypeOK ==
  /\ socket \in [Hosts -> Seq(Packet)]
  /\ inHdr \in [Hosts -> Packet \cup {NoPacket}]
  /\ messageAvailable \in [Hosts -> Nat]
  /\ worker \in [Hosts -> {"idle", "receive", "put"}]
  /\ hand \in [Hosts -> Packet \cup {NoPacket}]
  /\ boxes \in [Hosts -> [Boxes -> Seq(Packet)]]
  /\ sendLock \in [Hosts -> Clients \cup {Nobody}]
  /\ messageSent \in [Hosts -> Nat]
  /\ sendInt \in [Hosts -> BOOLEAN]
  /\ sendBusy \in [Hosts -> BOOLEAN]
  /\ chanceToWork \in Chances
  /\ stage \in [Clients -> {"out", "acquire", "sent", "receive"}]
  /\ mail \in [Clients -> Packet \cup {NoPacket}]
  /\ box \in [Clients -> Boxes]
  /\ got \in [Hosts -> [Boxes -> Packet \cup {NoPacket}]]

(* The constructors of PostOfficeInput, PostOfficeOutput and the network. *)
OfficeInit ==
  /\ socket = [h \in Hosts |-> <<>>]
  /\ inHdr = [h \in Hosts |-> NoPacket]
  /\ messageAvailable = [h \in Hosts |-> 0]
  /\ worker = [h \in Hosts |-> "idle"]
  /\ hand = [h \in Hosts |-> NoPacket]
  /\ boxes = [h \in Hosts |-> [b \in Boxes |-> <<>>]]
  /\ sendLock = [h \in Hosts |-> Nobody]
  /\ messageSent = [h \in Hosts |-> 0]
  /\ sendInt = [h \in Hosts |-> FALSE]
  /\ sendBusy = [h \in Hosts |-> FALSE]
  /\ chanceToWork \in Reliabilities
  /\ stage = [c \in Clients |-> "out"]
  /\ mail = [c \in Clients |-> NoPacket]
  /\ box = [c \in Clients |-> CHOOSE b \in Boxes : TRUE]
  /\ got = [h \in Hosts |-> [b \in Boxes |-> NoPacket]]

-----------------------------------------------------------------------------
(* PostOfficeOutput::Send, up to sendLock->Acquire(); it fills in "from". *)
Send(c, to, toBox, fromBox, data) ==
  /\ stage[c] = "out"
  /\ stage' = [stage EXCEPT ![c] = "acquire"]
  /\ mail' = [mail EXCEPT ![c] =
                [to |-> to, from |-> HostOf[c], toBox |-> toBox,
                 fromBox |-> fromBox, data |-> data]]
  /\ UNCHANGED <<socket, inputVars, boxes, outputVars, box, got>>

(* NetworkOutput::Send puts the packet in the socket of its destination    *)
(* unless it loses it, and schedules the send interrupt in either case.    *)
(* It asserts that sendBusy is FALSE, and does not set it.                 *)
Transmit(h, p) ==
  /\ ~ sendBusy[h]
  /\ sendInt' = [sendInt EXCEPT ![h] = TRUE]
  /\ \/ /\ chanceToWork # "never"
        /\ socket' = [socket EXCEPT ![p.to] = Append(@, p)]
     \/ /\ chanceToWork # "always"
        /\ UNCHANGED socket
  /\ UNCHANGED <<sendBusy, chanceToWork>>

(* Mutant: network->Send and messageSent->P() without sendLock. *)
SendUnlocked(c) ==
  LET h == HostOf[c] IN
  /\ stage[c] = "acquire"
  /\ sendLock' = [sendLock EXCEPT ![h] = c]
  /\ Transmit(h, mail[c])
  /\ stage' = [stage EXCEPT ![c] = "sent"]
  /\ UNCHANGED <<inputVars, boxes, messageSent, mail, box, got>>

(* Send has sendLock: network->Send *)
SendLocked(c) ==
  LET h == HostOf[c] IN
  /\ stage[c] = "acquire"
  /\ sendLock[h] = Nobody
  /\ sendLock' = [sendLock EXCEPT ![h] = c]
  /\ Transmit(h, mail[c])
  /\ stage' = [stage EXCEPT ![c] = "sent"]
  /\ UNCHANGED <<inputVars, boxes, messageSent, mail, box, got>>

(* Mutant: the interrupt does not let the sender go on. *)
SendInterruptLost(h) ==
  /\ sendInt[h]
  /\ sendInt' = [sendInt EXCEPT ![h] = FALSE]
  /\ sendBusy' = [sendBusy EXCEPT ![h] = FALSE]
  /\ UNCHANGED <<socket, inputVars, boxes, sendLock, messageSent, chanceToWork,
                 clientVars, got>>

(* NetworkOutput::CallBack and PostOfficeOutput::CallBack *)
SendInterrupt(h) ==
  /\ sendInt[h]
  /\ sendInt' = [sendInt EXCEPT ![h] = FALSE]
  /\ sendBusy' = [sendBusy EXCEPT ![h] = FALSE]
  /\ messageSent' = [messageSent EXCEPT ![h] = @ + 1]
  /\ UNCHANGED <<socket, inputVars, boxes, sendLock, chanceToWork, clientVars, got>>

(* messageSent->P() returns: sendLock->Release() *)
SendReturns(c) ==
  LET h == HostOf[c] IN
  /\ stage[c] = "sent"
  /\ messageSent[h] > 0
  /\ messageSent' = [messageSent EXCEPT ![h] = @ - 1]
  /\ sendLock' = [sendLock EXCEPT ![h] = Nobody]
  /\ stage' = [stage EXCEPT ![c] = "out"]
  /\ UNCHANGED <<socket, inputVars, boxes, sendInt, sendBusy, chanceToWork,
                 mail, box, got>>

-----------------------------------------------------------------------------
(* Mutant: the handler does not call PostOfficeInput::CallBack. *)
ReceiveInterruptSilent(h) ==
  /\ inHdr[h] = NoPacket
  /\ socket[h] # <<>>
  /\ inHdr' = [inHdr EXCEPT ![h] = Head(socket[h])]
  /\ socket' = [socket EXCEPT ![h] = Tail(@)]
  /\ UNCHANGED <<messageAvailable, worker, hand, boxes, outputVars, clientVars, got>>

(* NetworkInput::CallBack when no packet is buffered and there is one to   *)
(* read (otherwise it only schedules the next poll), and                   *)
(* PostOfficeInput::CallBack.                                              *)
ReceiveInterrupt(h) ==
  /\ inHdr[h] = NoPacket
  /\ socket[h] # <<>>
  /\ inHdr' = [inHdr EXCEPT ![h] = Head(socket[h])]
  /\ socket' = [socket EXCEPT ![h] = Tail(@)]
  /\ messageAvailable' = [messageAvailable EXCEPT ![h] = @ + 1]
  /\ UNCHANGED <<worker, hand, boxes, outputVars, clientVars, got>>

(* PostOfficeInput::PostalDelivery: messageAvailable->P() returns. *)
WorkerWakes(h) ==
  /\ worker[h] = "idle"
  /\ messageAvailable[h] > 0
  /\ messageAvailable' = [messageAvailable EXCEPT ![h] = @ - 1]
  /\ worker' = [worker EXCEPT ![h] = "receive"]
  /\ UNCHANGED <<socket, inHdr, hand, boxes, outputVars, clientVars, got>>

(* NetworkInput::Receive *)
WorkerReceives(h) ==
  /\ worker[h] = "receive"
  /\ hand' = [hand EXCEPT ![h] = inHdr[h]]
  /\ inHdr' = [inHdr EXCEPT ![h] = NoPacket]
  /\ worker' = [worker EXCEPT ![h] = "put"]
  /\ UNCHANGED <<socket, messageAvailable, boxes, outputVars, clientVars, got>>

(* The worker asserts that the box is one of its own: MailBox::Put *)
WorkerPuts(h) ==
  /\ worker[h] = "put"
  /\ hand[h].toBox \in Boxes
  /\ boxes' = [boxes EXCEPT ![h][hand[h].toBox] = Append(@, hand[h])]
  /\ hand' = [hand EXCEPT ![h] = NoPacket]
  /\ worker' = [worker EXCEPT ![h] = "idle"]
  /\ UNCHANGED <<socket, inHdr, messageAvailable, outputVars, clientVars, got>>

(* PostOfficeInput::Receive: messages->RemoveFront() is called, *)
Receive(c, b) ==
  /\ stage[c] = "out"
  /\ stage' = [stage EXCEPT ![c] = "receive"]
  /\ box' = [box EXCEPT ![c] = b]
  /\ UNCHANGED <<socket, inputVars, boxes, outputVars, mail, got>>

(* Mutant: MailBox::Get takes the last message. *)
ReceiveReturnsLast(c) ==
  LET h == HostOf[c]
      b == box[c] IN
  /\ stage[c] = "receive"
  /\ boxes[h][b] # <<>>
  /\ got' = [got EXCEPT ![h][b] = boxes[h][b][Len(boxes[h][b])]]
  /\ boxes' = [boxes EXCEPT ![h][b] = SubSeq(@, 1, Len(@) - 1)]
  /\ stage' = [stage EXCEPT ![c] = "out"]
  /\ UNCHANGED <<socket, inputVars, outputVars, mail, box>>

(* and has a message. *)
ReceiveReturns(c) ==
  LET h == HostOf[c]
      b == box[c] IN
  /\ stage[c] = "receive"
  /\ boxes[h][b] # <<>>
  /\ got' = [got EXCEPT ![h][b] = Head(boxes[h][b])]
  /\ boxes' = [boxes EXCEPT ![h][b] = Tail(@)]
  /\ stage' = [stage EXCEPT ![c] = "out"]
  /\ UNCHANGED <<socket, inputVars, outputVars, mail, box>>

(* A step that no client decides to take. *)
OfficeStep ==
  \/ \E c \in Clients : SendLocked(c) \/ SendReturns(c) \/ ReceiveReturns(c)
  \/ \E h \in Hosts :
       \/ SendInterrupt(h) \/ ReceiveInterrupt(h)
       \/ WorkerWakes(h) \/ WorkerReceives(h) \/ WorkerPuts(h)

-----------------------------------------------------------------------------
Unit(P) == IF P THEN 1 ELSE 0

(* Each packet in NetworkInput's buffer is announced to the postal worker  *)
(* exactly once (NetworkInput::CallBack, PostalDelivery): the worker finds *)
(* a packet whenever messageAvailable lets it pass, and no packet is       *)
(* written over before the worker has it, however late it runs.            *)
PacketAnnounced ==
  \A h \in Hosts :
    /\ messageAvailable[h] + Unit(worker[h] = "receive") = Unit(inHdr[h] # NoPacket)
    /\ worker[h] = "put" <=> hand[h] # NoPacket

(* Only one message at a time is sent from a machine, and the interrupt    *)
(* that says the next one may be sent answers the one that was:            *)
(* "only one message can be sent to the network at any one time"           *)
(* (PostOfficeOutput::Send).  sendBusy cannot show it, as it is never set. *)
OneSendAtATime ==
  \A h \in Hosts :
    /\ messageSent[h] + Unit(sendInt[h]) = Unit(sendLock[h] # Nobody)
    /\ \A c \in Clients : HostOf[c] = h => (stage[c] = "sent" <=> sendLock[h] = c)

(* Neither side of the network overruns the other (post.cc, network.cc).   *)
OfficeSafe == PacketAnnounced /\ OneSendAtATime

(* The packets on their way to a machine, oldest first. *)
InTransit(h) ==
  SelectSeq(<<hand[h], inHdr[h]>>, LAMBDA p : p # NoPacket) \o socket[h]

(* The mail of a box, delivered or on its way, and who waits for it. *)
MailFor(h, b) ==
  boxes[h][b] \o SelectSeq(InTransit(h), LAMBDA p : p.toBox = b)

Receivers(h, b) ==
  {c \in Clients : stage[c] = "receive" /\ HostOf[c] = h /\ box[c] = b}

Mail(h, b) ==
  INSTANCE BlockingList WITH
    Items <- Packet, Callers <- Clients, NoItem <- NoPacket,
    items <- MailFor(h, b), removing <- Receivers(h, b), got <- got[h][b]

(* From end to end the post office is a first-in first-out list for each   *)
(* mailbox: a message the network does not lose is received at most once,  *)
(* after the ones that were sent before it, from the box it was sent to    *)
(* (Send, the network, PostalDelivery and Receive together).               *)
MailSpec ==
  /\ \A h \in Hosts, b \in Boxes : Mail(h, b)!Init
  /\ [][\A h \in Hosts, b \in Boxes :
          Mail(h, b)!Next \/ UNCHANGED Mail(h, b)!listVars]_officeVars

(* A message that is not lost is received when somebody waits for mail in  *)
(* its box.                                                                *)
MailArrives ==
  \A h \in Hosts, b \in Boxes, d \in Data :
    /\ Receivers(h, b) # {}
    /\ MailFor(h, b) # <<>> /\ Head(MailFor(h, b)).data = d
    ~> got[h][b] # NoPacket /\ got[h][b].data = d

(* PostOfficeOutput::Send returns once the message is with the network,    *)
(* "whether or not the packet is dropped" (machine/network.h).             *)
SendsReturn == \A c \in Clients : stage[c] = "sent" ~> stage[c] = "out"
=============================================================================

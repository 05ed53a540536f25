--------------------------- MODULE NetworkProofs ----------------------------
(***************************************************************************)
(* Proofs about the post offices for any number of client threads and      *)
(* whatever the network loses: neither side of the network overruns the    *)
(* other, and in NetworkTest an acknowledgement means what it says.        *)
(*                                                                         *)
(* The lemmas about the post offices (OfficeInv) hold for any machines,    *)
(* mailboxes and payloads; only those about the test use that there are    *)
(* two machines with two mailboxes each.                                   *)
(***************************************************************************)
EXTENDS Network, TLAPS

(* A step that names no prover is for Zenon.                               *)
USE ZenonT(40)

(* A client that is to send something has a packet.                        *)
MailReady == \A c \in Clients : stage[c] = "acquire" => mail[c] \in Packet

OfficeInv == OfficeTypeOK /\ MailReady /\ OfficeSafe

-----------------------------------------------------------------------------
LEMMA NoPacketLemma == NoPacket \notin Packet
<1>1. SUFFICES ASSUME NoPacket \in Packet PROVE FALSE
  OBVIOUS
<1>2. "from" \in DOMAIN NoPacket
  BY <1>1 DEF Packet
<1>3. DOMAIN NoPacket = {"to"}
  BY DEF NoPacket
<1> QED
  BY <1>2, <1>3

(* The first element of a list, the rest of it, and one element more.      *)
LEMMA Lists ==
  ASSUME NEW S, NEW s \in Seq(S)
  PROVE  /\ s # <<>> => Head(s) \in S /\ Tail(s) \in Seq(S)
         /\ \A e \in S : Append(s, e) \in Seq(S)
         /\ \A T : S \subseteq T => s \in Seq(T)
<1>1. s # <<>> => Head(s) \in S /\ Tail(s) \in Seq(S)
  BY SMTT(20)
<1>2. \A e \in S : Append(s, e) \in Seq(S)
  BY SMTT(20)
<1>3. ASSUME NEW T, S \subseteq T PROVE s \in Seq(T)
  <2>1. Len(s) \in Nat /\ s \in [1 .. Len(s) -> S]
    BY SMTT(20)
  <2>2. s \in [1 .. Len(s) -> T]
    BY <1>3, <2>1
  <2> QED
    BY <2>1, <2>2, SMTT(20)
<1> QED
  BY <1>1, <1>2, <1>3

-----------------------------------------------------------------------------
(* The calls of a client leave the post office alone.                      *)
LEMMA SendSafe ==
  ASSUME OfficeInv, NEW c \in Clients, NEW to \in Hosts, NEW toBox \in Boxes,
         NEW fromBox \in Boxes, NEW data \in Data, Send(c, to, toBox, fromBox, data)
  PROVE  OfficeInv'
<1> DEFINE p == [to |-> to, from |-> HostOf[c], toBox |-> toBox,
                 fromBox |-> fromBox, data |-> data]
<1>1. p \in Packet
  BY PostOfficeAssumption DEF Packet
<1>2. /\ stage[c] = "out" /\ stage' = [stage EXCEPT ![c] = "acquire"]
      /\ mail' = [mail EXCEPT ![c] = p]
      /\ UNCHANGED <<socket, inputVars, boxes, outputVars, box, got>>
  BY DEF Send
<1> HIDE DEF p
<1>3. OfficeTypeOK'
  BY <1>1, <1>2 DEF OfficeInv, OfficeTypeOK, inputVars, outputVars
<1>4. MailReady'
  BY <1>1, <1>2 DEF OfficeInv, OfficeTypeOK, MailReady
<1>5. PacketAnnounced'
  BY <1>2 DEF OfficeInv, OfficeSafe, PacketAnnounced, inputVars
<1>6. OneSendAtATime'
  BY <1>2, SMTT(20) DEF OfficeInv, OfficeTypeOK, OfficeSafe, OneSendAtATime, outputVars
<1> QED
  BY <1>3, <1>4, <1>5, <1>6 DEF OfficeInv, OfficeSafe

LEMMA ReceiveSafe ==
  ASSUME OfficeInv, NEW c \in Clients, NEW b \in Boxes, Receive(c, b)
  PROVE  OfficeInv'
<1>1. /\ stage[c] = "out" /\ stage' = [stage EXCEPT ![c] = "receive"]
      /\ box' = [box EXCEPT ![c] = b]
      /\ UNCHANGED <<socket, inputVars, boxes, outputVars, mail, got>>
  BY DEF Receive
<1>2. OfficeTypeOK'
  BY <1>1 DEF OfficeInv, OfficeTypeOK, inputVars, outputVars
<1>3. MailReady'
  BY <1>1 DEF OfficeInv, OfficeTypeOK, MailReady
<1>4. PacketAnnounced'
  BY <1>1 DEF OfficeInv, OfficeSafe, PacketAnnounced, inputVars
<1>5. OneSendAtATime'
  BY <1>1, SMTT(20) DEF OfficeInv, OfficeTypeOK, OfficeSafe, OneSendAtATime, outputVars
<1> QED
  BY <1>2, <1>3, <1>4, <1>5 DEF OfficeInv, OfficeSafe

(* The lock, the semaphore and the interrupt of PostOfficeOutput.          *)
LEMMA SendLockedSafe ==
  ASSUME OfficeInv, NEW c \in Clients, SendLocked(c)
  PROVE  OfficeInv'
<1>1. PICK h \in Hosts : h = HostOf[c]
  BY PostOfficeAssumption
<1>2. /\ stage[c] = "acquire" /\ sendLock[h] = Nobody
      /\ sendLock' = [sendLock EXCEPT ![h] = c]
      /\ sendInt' = [sendInt EXCEPT ![h] = TRUE]
      /\ stage' = [stage EXCEPT ![c] = "sent"]
      /\ UNCHANGED <<inputVars, boxes, messageSent, mail, box, got, sendBusy, chanceToWork>>
      /\ socket' = socket \/ socket' = [socket EXCEPT ![mail[c].to] = Append(@, mail[c])]
  BY <1>1 DEF SendLocked, Transmit
<1>3. mail[c] \in Packet /\ mail[c].to \in Hosts
  BY <1>2 DEF OfficeInv, MailReady, Packet
<1>4. socket' \in [Hosts -> Seq(Packet)]
  <2>1. Append(socket[mail[c].to], mail[c]) \in Seq(Packet)
    BY <1>3, Lists DEF OfficeInv, OfficeTypeOK
  <2> QED
    BY <1>2, <1>3, <2>1 DEF OfficeInv, OfficeTypeOK
<1>5. OfficeTypeOK'
  BY <1>2, <1>4 DEF OfficeInv, OfficeTypeOK, inputVars
<1>6. MailReady'
  BY <1>2 DEF OfficeInv, OfficeTypeOK, MailReady
<1>7. PacketAnnounced'
  BY <1>2 DEF OfficeInv, OfficeSafe, PacketAnnounced, inputVars
<1>8. Nobody \notin Clients
  BY PostOfficeAssumption
<1>9. ASSUME NEW g \in Hosts
      PROVE  /\ messageSent'[g] + Unit(sendInt'[g]) = Unit(sendLock'[g] # Nobody)
             /\ \A k \in Clients : HostOf[k] = g => (stage'[k] = "sent" <=> sendLock'[g] = k)
  <2>1. /\ messageSent[g] \in Nat /\ sendInt[g] \in BOOLEAN
        /\ messageSent[g] + Unit(sendInt[g]) = Unit(sendLock[g] # Nobody)
        /\ \A k \in Clients : HostOf[k] = g => (stage[k] = "sent" <=> sendLock[g] = k)
    BY DEF OfficeInv, OfficeTypeOK, OfficeSafe, OneSendAtATime
  <2>2. messageSent'[g] = messageSent[g] /\ \A k \in Clients : k # c => stage'[k] = stage[k]
    BY <1>2 DEF OfficeInv, OfficeTypeOK
  <2>3. CASE g = h
    <3>1. sendLock'[g] = c /\ sendInt'[g] = TRUE /\ stage'[c] = "sent"
      BY <1>2, <2>3 DEF OfficeInv, OfficeTypeOK
    <3>2. messageSent[g] = 0
      BY <1>2, <2>1, <2>3, SMTT(20) DEF Unit
    <3> QED
      BY <1>1, <1>2, <1>8, <2>1, <2>2, <2>3, <3>1, <3>2, SMTT(20) DEF Unit
  <2>4. CASE g # h
    BY <1>1, <1>2, <2>1, <2>2, <2>4, SMTT(20) DEF OfficeInv, OfficeTypeOK
  <2> QED
    BY <2>3, <2>4
<1>10. OneSendAtATime'
  BY <1>9 DEF OneSendAtATime
<1> QED
  BY <1>5, <1>6, <1>7, <1>10 DEF OfficeInv, OfficeSafe

LEMMA SendInterruptSafe ==
  ASSUME OfficeInv, NEW h \in Hosts, SendInterrupt(h)
  PROVE  OfficeInv'
<1>1. /\ sendInt[h] /\ sendInt' = [sendInt EXCEPT ![h] = FALSE]
      /\ sendBusy' = [sendBusy EXCEPT ![h] = FALSE]
      /\ messageSent' = [messageSent EXCEPT ![h] = @ + 1]
      /\ UNCHANGED <<socket, inputVars, boxes, sendLock, chanceToWork, clientVars, got>>
  BY DEF SendInterrupt
<1>2. messageSent' \in [Hosts -> Nat]
  BY <1>1, SMTT(20) DEF OfficeInv, OfficeTypeOK
<1>3. OfficeTypeOK'
  BY <1>1, <1>2 DEF OfficeInv, OfficeTypeOK, inputVars, clientVars
<1>4. MailReady' /\ PacketAnnounced'
  BY <1>1 DEF OfficeInv, OfficeSafe, MailReady, PacketAnnounced, inputVars, clientVars
<1>5. ASSUME NEW g \in Hosts
      PROVE  messageSent'[g] + Unit(sendInt'[g]) = Unit(sendLock[g] # Nobody)
  <2>1. /\ messageSent[g] \in Nat /\ sendInt[g] \in BOOLEAN
        /\ messageSent[g] + Unit(sendInt[g]) = Unit(sendLock[g] # Nobody)
    BY DEF OfficeInv, OfficeTypeOK, OfficeSafe, OneSendAtATime
  <2>2. CASE g = h
    <3>1. messageSent'[g] = messageSent[g] + 1 /\ sendInt[g] = TRUE /\ sendInt'[g] = FALSE
      BY <1>1, <2>2 DEF OfficeInv, OfficeTypeOK
    <3> QED
      BY <2>1, <3>1, SMTT(20) DEF Unit
  <2>3. CASE g # h
    BY <1>1, <2>1, <2>3 DEF OfficeInv, OfficeTypeOK
  <2> QED
    BY <2>2, <2>3
<1>6. OneSendAtATime'
  BY <1>1, <1>5 DEF OfficeInv, OfficeSafe, OneSendAtATime, clientVars
<1> QED
  BY <1>3, <1>4, <1>6 DEF OfficeInv, OfficeSafe

LEMMA SendReturnsSafe ==
  ASSUME OfficeInv, NEW c \in Clients, SendReturns(c)
  PROVE  OfficeInv'
<1>1. PICK h \in Hosts : h = HostOf[c]
  BY PostOfficeAssumption
<1>2. /\ stage[c] = "sent" /\ messageSent[h] > 0
      /\ messageSent' = [messageSent EXCEPT ![h] = @ - 1]
      /\ sendLock' = [sendLock EXCEPT ![h] = Nobody]
      /\ stage' = [stage EXCEPT ![c] = "out"]
      /\ UNCHANGED <<socket, inputVars, boxes, sendInt, sendBusy, chanceToWork, mail, box, got>>
  BY <1>1 DEF SendReturns
<1>3. messageSent' \in [Hosts -> Nat]
  BY <1>2, SMTT(20) DEF OfficeInv, OfficeTypeOK
<1>4. OfficeTypeOK'
  BY <1>2, <1>3 DEF OfficeInv, OfficeTypeOK, inputVars
<1>5. MailReady'
  BY <1>2 DEF OfficeInv, OfficeTypeOK, MailReady
<1>6. PacketAnnounced'
  BY <1>2 DEF OfficeInv, OfficeSafe, PacketAnnounced, inputVars
<1>7. Nobody \notin Clients
  BY PostOfficeAssumption
<1>8. ASSUME NEW g \in Hosts
      PROVE  /\ messageSent'[g] + Unit(sendInt'[g]) = Unit(sendLock'[g] # Nobody)
             /\ \A k \in Clients : HostOf[k] = g => (stage'[k] = "sent" <=> sendLock'[g] = k)
  <2>1. /\ messageSent[g] \in Nat /\ sendInt[g] \in BOOLEAN
        /\ messageSent[g] + Unit(sendInt[g]) = Unit(sendLock[g] # Nobody)
        /\ \A k \in Clients : HostOf[k] = g => (stage[k] = "sent" <=> sendLock[g] = k)
    BY DEF OfficeInv, OfficeTypeOK, OfficeSafe, OneSendAtATime
  <2>2. /\ sendInt'[g] = sendInt[g] /\ stage'[c] = "out"
        /\ \A k \in Clients : k # c => stage'[k] = stage[k]
    BY <1>2 DEF OfficeInv, OfficeTypeOK
  <2>3. CASE g = h
    <3>1. sendLock'[g] = Nobody /\ messageSent'[g] = messageSent[g] - 1 /\ sendLock[g] = c
      BY <1>1, <1>2, <2>1, <2>3 DEF OfficeInv, OfficeTypeOK
    <3>2. messageSent[g] = 1 /\ sendInt[g] = FALSE
      BY <1>2, <2>1, <2>3, SMTT(20) DEF Unit
    <3> QED
      BY <1>7, <2>1, <2>2, <3>1, <3>2, SMTT(20) DEF Unit
  <2>4. CASE g # h
    BY <1>1, <1>2, <2>1, <2>2, <2>4 DEF OfficeInv, OfficeTypeOK
  <2> QED
    BY <2>3, <2>4
<1>9. OneSendAtATime'
  BY <1>8 DEF OneSendAtATime
<1> QED
  BY <1>4, <1>5, <1>6, <1>9 DEF OfficeInv, OfficeSafe

-----------------------------------------------------------------------------
(* The buffer of NetworkInput and the postal worker of one machine.        *)
Announced(m, w, buffered, held) ==
  /\ m + Unit(w = "receive") = Unit(buffered # NoPacket)
  /\ w = "put" <=> held # NoPacket

(* A step of the input side of one machine.                                *)
LEMMA InputSafe ==
  ASSUME OfficeInv, NEW h \in Hosts,
         OfficeTypeOK', UNCHANGED <<outputVars, clientVars>>,
         \A g \in Hosts \ {h} :
           /\ messageAvailable'[g] = messageAvailable[g] /\ worker'[g] = worker[g]
           /\ inHdr'[g] = inHdr[g] /\ hand'[g] = hand[g],
         Announced(messageAvailable'[h], worker'[h], inHdr'[h], hand'[h])
  PROVE  OfficeInv'
<1>1. MailReady' /\ OneSendAtATime'
  BY DEF OfficeInv, OfficeSafe, MailReady, OneSendAtATime, outputVars, clientVars
<1>2. PacketAnnounced'
  BY SMTT(20) DEF OfficeInv, OfficeSafe, PacketAnnounced, Announced
<1> QED
  BY <1>1, <1>2 DEF OfficeInv, OfficeSafe

LEMMA ReceiveInterruptSafe ==
  ASSUME OfficeInv, NEW h \in Hosts, ReceiveInterrupt(h)
  PROVE  OfficeInv'
<1>1. /\ inHdr[h] = NoPacket /\ socket[h] # <<>>
      /\ inHdr' = [inHdr EXCEPT ![h] = Head(socket[h])]
      /\ socket' = [socket EXCEPT ![h] = Tail(@)]
      /\ messageAvailable' = [messageAvailable EXCEPT ![h] = @ + 1]
      /\ UNCHANGED <<worker, hand, boxes, outputVars, clientVars, got>>
  BY DEF ReceiveInterrupt
<1>2. Head(socket[h]) \in Packet /\ Tail(socket[h]) \in Seq(Packet)
  BY <1>1, Lists DEF OfficeInv, OfficeTypeOK
<1>3. messageAvailable' \in [Hosts -> Nat]
  BY <1>1, SMTT(20) DEF OfficeInv, OfficeTypeOK
<1>4. OfficeTypeOK'
  BY <1>1, <1>2, <1>3 DEF OfficeInv, OfficeTypeOK, outputVars, clientVars
<1>5. /\ messageAvailable[h] + Unit(worker[h] = "receive") = Unit(inHdr[h] # NoPacket)
      /\ worker[h] = "put" <=> hand[h] # NoPacket
      /\ messageAvailable[h] \in Nat
  BY DEF OfficeInv, OfficeTypeOK, OfficeSafe, PacketAnnounced
<1>6. messageAvailable[h] = 0 /\ worker[h] # "receive"
  BY <1>1, <1>5, SMTT(20) DEF Unit
<1>7. /\ messageAvailable'[h] = 1 /\ worker'[h] = worker[h] /\ hand'[h] = hand[h]
      /\ inHdr'[h] # NoPacket
  BY <1>1, <1>2, <1>6, NoPacketLemma, SMTT(20) DEF OfficeInv, OfficeTypeOK
<1>8. Announced(messageAvailable'[h], worker'[h], inHdr'[h], hand'[h])
  BY <1>5, <1>6, <1>7, SMTT(20) DEF Announced, Unit
<1> QED
  BY <1>1, <1>4, <1>8, InputSafe DEF OfficeInv, OfficeTypeOK

LEMMA WorkerWakesSafe ==
  ASSUME OfficeInv, NEW h \in Hosts, WorkerWakes(h)
  PROVE  OfficeInv'
<1>1. /\ worker[h] = "idle" /\ messageAvailable[h] > 0
      /\ messageAvailable' = [messageAvailable EXCEPT ![h] = @ - 1]
      /\ worker' = [worker EXCEPT ![h] = "receive"]
      /\ UNCHANGED <<socket, inHdr, hand, boxes, outputVars, clientVars, got>>
  BY DEF WorkerWakes
<1>2. messageAvailable' \in [Hosts -> Nat]
  BY <1>1, SMTT(20) DEF OfficeInv, OfficeTypeOK
<1>3. OfficeTypeOK'
  BY <1>1, <1>2 DEF OfficeInv, OfficeTypeOK, outputVars, clientVars
<1>4. /\ messageAvailable[h] + Unit(worker[h] = "receive") = Unit(inHdr[h] # NoPacket)
      /\ worker[h] = "put" <=> hand[h] # NoPacket
      /\ messageAvailable[h] \in Nat
  BY DEF OfficeInv, OfficeTypeOK, OfficeSafe, PacketAnnounced
<1>5. /\ messageAvailable'[h] = messageAvailable[h] - 1 /\ worker'[h] = "receive"
      /\ inHdr'[h] = inHdr[h] /\ hand'[h] = hand[h]
  BY <1>1 DEF OfficeInv, OfficeTypeOK
<1>6. Announced(messageAvailable'[h], worker'[h], inHdr'[h], hand'[h])
  BY <1>1, <1>4, <1>5, SMTT(20) DEF Announced, Unit
<1> QED
  BY <1>1, <1>3, <1>6, InputSafe DEF OfficeInv, OfficeTypeOK

LEMMA WorkerReceivesSafe ==
  ASSUME OfficeInv, NEW h \in Hosts, WorkerReceives(h)
  PROVE  OfficeInv' /\ inHdr[h] # NoPacket
<1>1. /\ worker[h] = "receive"
      /\ hand' = [hand EXCEPT ![h] = inHdr[h]]
      /\ inHdr' = [inHdr EXCEPT ![h] = NoPacket]
      /\ worker' = [worker EXCEPT ![h] = "put"]
      /\ UNCHANGED <<socket, messageAvailable, boxes, outputVars, clientVars, got>>
  BY DEF WorkerReceives
<1>2. OfficeTypeOK'
  BY <1>1 DEF OfficeInv, OfficeTypeOK, outputVars, clientVars
<1>3. /\ messageAvailable[h] + Unit(worker[h] = "receive") = Unit(inHdr[h] # NoPacket)
      /\ messageAvailable[h] \in Nat
  BY DEF OfficeInv, OfficeTypeOK, OfficeSafe, PacketAnnounced
<1>4. messageAvailable[h] = 0 /\ inHdr[h] # NoPacket
  BY <1>1, <1>3, SMTT(20) DEF Unit
<1>5. /\ messageAvailable'[h] = 0 /\ worker'[h] = "put"
      /\ inHdr'[h] = NoPacket /\ hand'[h] = inHdr[h]
  BY <1>1, <1>4 DEF OfficeInv, OfficeTypeOK
<1>6. Announced(messageAvailable'[h], worker'[h], inHdr'[h], hand'[h])
  BY <1>4, <1>5, SMTT(20) DEF Announced, Unit
<1> QED
  BY <1>1, <1>2, <1>4, <1>6, InputSafe DEF OfficeInv, OfficeTypeOK

LEMMA WorkerPutsSafe ==
  ASSUME OfficeInv, NEW h \in Hosts, WorkerPuts(h)
  PROVE  OfficeInv' /\ hand[h] \in Packet
<1>1. /\ worker[h] = "put"
      /\ boxes' = [boxes EXCEPT ![h][hand[h].toBox] = Append(@, hand[h])]
      /\ hand' = [hand EXCEPT ![h] = NoPacket]
      /\ worker' = [worker EXCEPT ![h] = "idle"]
      /\ UNCHANGED <<socket, inHdr, messageAvailable, outputVars, clientVars, got>>
  BY DEF WorkerPuts
<1>2. /\ messageAvailable[h] + Unit(worker[h] = "receive") = Unit(inHdr[h] # NoPacket)
      /\ messageAvailable[h] \in Nat /\ hand[h] # NoPacket
  BY <1>1 DEF OfficeInv, OfficeTypeOK, OfficeSafe, PacketAnnounced
<1>3. hand[h] \in Packet /\ hand[h].toBox \in Boxes
  BY <1>2 DEF OfficeInv, OfficeTypeOK, Packet
<1>4. Append(boxes[h][hand[h].toBox], hand[h]) \in Seq(Packet)
  BY <1>3, Lists, SMTT(20) DEF OfficeInv, OfficeTypeOK
<1>5. boxes' \in [Hosts -> [Boxes -> Seq(Packet)]]
  BY <1>1, <1>3, <1>4 DEF OfficeInv, OfficeTypeOK
<1>6. OfficeTypeOK'
  BY <1>1, <1>5 DEF OfficeInv, OfficeTypeOK, outputVars, clientVars
<1>7. /\ messageAvailable'[h] = messageAvailable[h] /\ worker'[h] = "idle"
      /\ inHdr'[h] = inHdr[h] /\ hand'[h] = NoPacket
  BY <1>1 DEF OfficeInv, OfficeTypeOK
<1>8. Announced(messageAvailable'[h], worker'[h], inHdr'[h], hand'[h])
  BY <1>1, <1>2, <1>7 DEF Announced, Unit
<1> QED
  BY <1>1, <1>3, <1>6, <1>8, InputSafe DEF OfficeInv, OfficeTypeOK

LEMMA ReceiveReturnsSafe ==
  ASSUME OfficeInv, NEW c \in Clients, ReceiveReturns(c)
  PROVE  OfficeInv'
<1>1. PICK h \in Hosts, b \in Boxes : h = HostOf[c] /\ b = box[c]
  BY PostOfficeAssumption DEF OfficeInv, OfficeTypeOK
<1>2. /\ stage[c] = "receive" /\ boxes[h][b] # <<>>
      /\ got' = [got EXCEPT ![h][b] = Head(boxes[h][b])]
      /\ boxes' = [boxes EXCEPT ![h][b] = Tail(@)]
      /\ stage' = [stage EXCEPT ![c] = "out"]
      /\ UNCHANGED <<socket, inputVars, outputVars, mail, box>>
  BY <1>1 DEF ReceiveReturns
<1>3. Head(boxes[h][b]) \in Packet /\ Tail(boxes[h][b]) \in Seq(Packet)
  BY <1>2, Lists, SMTT(20) DEF OfficeInv, OfficeTypeOK
<1>4. /\ boxes' \in [Hosts -> [Boxes -> Seq(Packet)]]
      /\ got' \in [Hosts -> [Boxes -> Packet \cup {NoPacket}]]
  BY <1>2, <1>3 DEF OfficeInv, OfficeTypeOK
<1>5. OfficeTypeOK'
  BY <1>2, <1>4 DEF OfficeInv, OfficeTypeOK, inputVars, outputVars
<1>6. MailReady'
  BY <1>2 DEF OfficeInv, OfficeTypeOK, MailReady
<1>7. PacketAnnounced'
  BY <1>2 DEF OfficeInv, OfficeSafe, PacketAnnounced, inputVars
<1>8. OneSendAtATime'
  BY <1>2, SMTT(20) DEF OfficeInv, OfficeTypeOK, OfficeSafe, OneSendAtATime, outputVars
<1> QED
  BY <1>5, <1>6, <1>7, <1>8 DEF OfficeInv, OfficeSafe

LEMMA OfficeStepSafe ==
  ASSUME OfficeInv, OfficeStep
  PROVE  OfficeInv'
  BY SendLockedSafe, SendReturnsSafe, ReceiveReturnsSafe, SendInterruptSafe,
     ReceiveInterruptSafe, WorkerWakesSafe, WorkerReceivesSafe, WorkerPutsSafe DEF OfficeStep

LEMMA OfficeInitSafe == OfficeInit /\ Boxes # {} => OfficeInv
<1> SUFFICES ASSUME OfficeInit, Boxes # {} PROVE OfficeInv
  OBVIOUS
<1>1. <<>> \in Seq(Packet)
  BY SMTT(20)
<1>2. (CHOOSE b \in Boxes : TRUE) \in Boxes
  OBVIOUS
<1>3. OfficeTypeOK
  BY <1>1, <1>2, PostOfficeAssumption DEF OfficeInit, OfficeTypeOK
<1>4. MailReady
  BY DEF OfficeInit, MailReady
<1>5. PacketAnnounced
  <2>1. ASSUME NEW h \in Hosts
        PROVE  /\ messageAvailable[h] + Unit(worker[h] = "receive") = Unit(inHdr[h] # NoPacket)
               /\ worker[h] = "put" <=> hand[h] # NoPacket
    <3>1. /\ messageAvailable[h] = 0 /\ worker[h] = "idle"
          /\ inHdr[h] = NoPacket /\ hand[h] = NoPacket
      BY DEF OfficeInit
    <3>2. Unit(worker[h] = "receive") = 0 /\ Unit(inHdr[h] # NoPacket) = 0
      BY <3>1 DEF Unit
    <3> QED
      BY <3>1, <3>2, SMTT(20)
  <2> QED
    BY <2>1 DEF PacketAnnounced
<1>6. OneSendAtATime
  <2>1. \A h \in Hosts : messageSent[h] = 0 /\ sendInt[h] = FALSE /\ sendLock[h] = Nobody
    BY DEF OfficeInit
  <2>2. \A c \in Clients : stage[c] = "out" /\ c # Nobody
    BY PostOfficeAssumption DEF OfficeInit
  <2>3. ASSUME NEW h \in Hosts
        PROVE  messageSent[h] + Unit(sendInt[h]) = Unit(sendLock[h] # Nobody)
    <3>1. Unit(sendInt[h]) = 0 /\ Unit(sendLock[h] # Nobody) = 0
      BY <2>1 DEF Unit
    <3> QED
      BY <2>1, <3>1, SMTT(20)
  <2> QED
    BY <2>1, <2>2, <2>3 DEF OneSendAtATime
<1> QED
  BY <1>3, <1>4, <1>5, <1>6 DEF OfficeInv, OfficeSafe

-----------------------------------------------------------------------------
(* NetworkTest.  What may be on its way to a machine while the test runs:  *)
(* the other's message, in box 0, and, in box 1, its acknowledgement if it *)
(* has had this machine's message.                                         *)
Heard(h) == got[h][0] # NoPacket
Legal(h) ==
  {p \in Packet :
     /\ p.to = h /\ p.from = farHost(h)
     /\ \/ p.toBox = 0 /\ p.fromBox = 1 /\ p.data = "hello"
        \/ p.toBox = 1 /\ p.data = "ack" /\ Heard(farHost(h))}
In(h, b) == {p \in Legal(h) : p.toBox = b}

PacketsLegal ==
  \A h \in Hosts :
    /\ socket[h] \in Seq(Legal(h))
    /\ inHdr[h] \in Legal(h) \cup {NoPacket}
    /\ hand[h] \in Legal(h) \cup {NoPacket}
    /\ \A b \in Boxes : /\ boxes[h][b] \in Seq(In(h, b))
                        /\ got[h][b] \in In(h, b) \cup {NoPacket}
    /\ stage[h] = "acquire" => mail[h] \in Legal(farHost(h))

(* Where a machine is in the test, and what it has had by then.            *)
Progress ==
  /\ \A c \in Clients \ Hosts : stage[c] = "out"
  /\ \A h \in Hosts :
       /\ stage[h] \in {"acquire", "sent"} => step[h] \in {1, 3}
       /\ stage[h] = "receive" =>
            (step[h] = 2 /\ box[h] = 0) \/ (step[h] = 4 /\ box[h] = 1)
       /\ step[h] \in {3, 4} \/ (step[h] = 2 /\ stage[h] = "out") => Heard(h)
       /\ step[h] = 4 /\ stage[h] = "out" => got[h][1] # NoPacket

TestInv ==
  /\ testing => PacketsLegal /\ Progress
  /\ ~ testing => \A h \in Hosts : step[h] = 0

NetworkInv ==
  OfficeInv /\ step \in [Hosts -> 0 .. 4] /\ unsent \subseteq Data /\ TestInv

LEMMA FarHost ==
  \A h \in Hosts : /\ farHost(h) \in Hosts /\ farHost(farHost(h)) = h
                   /\ h \in Clients /\ HostOf[h] = h
<1>1. Hosts = {0, 1} /\ \A h \in Hosts : h \in Clients /\ HostOf[h] = h
  BY NetworkTestAssumption
<1> QED
  BY <1>1, SMTT(20) DEF farHost

(* What is legal stays legal: a machine does not unhear a message.         *)
LEMMA LegalKept ==
  ASSUME \A h \in Hosts : Heard(h) => Heard(h)'
  PROVE  \A h \in Hosts : Legal(h) \subseteq Legal(h)' /\
                          \A b \in Boxes : In(h, b) \subseteq In(h, b)'
<1>1. ASSUME NEW h \in Hosts PROVE Legal(h) \subseteq Legal(h)'
  <2>1. Heard(farHost(h)) => Heard(farHost(h))'
    BY FarHost
  <2> QED
    BY <2>1 DEF Legal
<1> QED
  BY <1>1 DEF In

LEMMA LegalSame ==
  ASSUME UNCHANGED got
  PROVE  \A h \in Hosts : Legal(h)' = Legal(h) /\
                          \A b \in Boxes : In(h, b)' = In(h, b)
<1>1. \A h \in Hosts : Heard(farHost(h))' <=> Heard(farHost(h))
  BY DEF Heard
<1>2. \A h \in Hosts : Legal(h)' = Legal(h)
  BY <1>1 DEF Legal
<1> QED
  BY <1>2 DEF In

(* The packets when a client's stage changes and nothing moves.            *)
LEMMA PacketsSame ==
  ASSUME PacketsLegal, UNCHANGED <<socket, inHdr, hand, boxes, got>>,
         \A h \in Hosts : stage'[h] = "acquire" => mail'[h] \in Legal(farHost(h))
  PROVE  PacketsLegal'
<1>1. \A h \in Hosts : farHost(h) \in Hosts
  BY FarHost
<1>2. \A h \in Hosts : Legal(h)' = Legal(h) /\ \A b \in Boxes : In(h, b)' = In(h, b)
  BY LegalSame
<1> QED
  BY <1>1, <1>2 DEF PacketsLegal

(* The calls of the test.                                                  *)
LEMMA TestCallLegal ==
  ASSUME NetworkInv, testing, NEW h \in Hosts, TestCall(h)
  PROVE  OfficeInv' /\ step' \in [Hosts -> 0 .. 4] /\ PacketsLegal' /\ Progress'
<1>1. /\ PacketsLegal /\ Progress /\ OfficeInv /\ step \in [Hosts -> 0 .. 4]
      /\ 0 \in Boxes /\ 1 \in Boxes /\ "hello" \in Data /\ "ack" \in Data
      /\ h \in Clients /\ HostOf[h] = h /\ farHost(h) \in Hosts /\ farHost(farHost(h)) = h
      /\ Hosts \subseteq Clients
  BY NetworkTestAssumption, FarHost DEF NetworkInv, TestInv
<1>2. /\ step[h] \in 0 .. 3 /\ step' = [step EXCEPT ![h] = @ + 1]
  BY <1>1, SMTT(20) DEF TestCall
<1>3. /\ step' \in [Hosts -> 0 .. 4] /\ step'[h] = step[h] + 1
      /\ \A g \in Hosts \ {h} : step'[g] = step[g]
  BY <1>1, <1>2, SMTT(20)
<1>4. /\ stage \in [Clients -> {"out", "acquire", "sent", "receive"}]
      /\ mail \in [Clients -> Packet \cup {NoPacket}] /\ box \in [Clients -> Boxes]
  BY <1>1 DEF OfficeInv, OfficeTypeOK
<1>5. ASSUME NEW to \in Hosts, NEW toBox \in Boxes, NEW fromBox \in Boxes, NEW data \in Data,
             Send(h, to, toBox, fromBox, data), step[h] \in {0, 2},
             [to |-> to, from |-> h, toBox |-> toBox, fromBox |-> fromBox, data |-> data]
               \in Legal(farHost(h))
      PROVE  OfficeInv' /\ PacketsLegal' /\ Progress'
  <2>1. /\ stage[h] = "out" /\ stage' = [stage EXCEPT ![h] = "acquire"]
        /\ mail' = [mail EXCEPT ![h] = [to |-> to, from |-> HostOf[h], toBox |-> toBox,
                                        fromBox |-> fromBox, data |-> data]]
        /\ UNCHANGED <<socket, inHdr, hand, boxes, got, box>>
    BY <1>5 DEF Send, inputVars
  <2>2. /\ stage'[h] = "acquire" /\ mail'[h] \in Legal(farHost(h))
        /\ \A c \in Clients \ {h} : stage'[c] = stage[c] /\ mail'[c] = mail[c]
    BY <1>1, <1>4, <1>5, <2>1
  <2>3. \A g \in Hosts : stage'[g] = "acquire" => mail'[g] \in Legal(farHost(g))
    BY <1>1, <2>2 DEF PacketsLegal
  <2>4. PacketsLegal'
    BY <1>1, <2>1, <2>3, PacketsSame
  <2>5. step[h] = 2 => Heard(h)
    BY <1>1, <2>1 DEF Progress
  <2>6. step'[h] \in {1, 3} /\ (step'[h] = 3 => Heard(h))
    BY <1>3, <1>5, <2>5, SMTT(20)
  <2>7. Progress'
    <3>1. \A g \in Hosts : Heard(g)' = Heard(g) /\ got'[g] = got[g] /\ box'[g] = box[g]
      BY <2>1 DEF Heard
    <3>2. \A k \in Clients \ Hosts : stage'[k] = "out"
      BY <1>1, <2>2 DEF Progress
    <3>3. ASSUME NEW g \in Hosts
          PROVE  /\ stage'[g] \in {"acquire", "sent"} => step'[g] \in {1, 3}
                 /\ stage'[g] = "receive" =>
                      (step'[g] = 2 /\ box[g] = 0) \/ (step'[g] = 4 /\ box[g] = 1)
                 /\ step'[g] \in {3, 4} \/ (step'[g] = 2 /\ stage'[g] = "out") => Heard(g)
                 /\ step'[g] = 4 /\ stage'[g] = "out" => got[g][1] # NoPacket
      <4>1. CASE g = h
        <5>1. stage'[g] = "acquire" /\ (step'[g] = 1 \/ step'[g] = 3)
              /\ (step'[g] = 3 => Heard(g))
          BY <2>2, <2>6, <4>1
        <5>2. CASE step'[g] = 1
          BY <5>1, <5>2, SMTT(20)
        <5>3. CASE step'[g] = 3
          BY <5>1, <5>3
        <5> QED
          BY <5>1, <5>2, <5>3
      <4>2. CASE g # h
        <5>1. stage'[g] = stage[g] /\ step'[g] = step[g]
          BY <1>1, <1>3, <2>2, <4>2
        <5> QED
          BY <1>1, <5>1 DEF Progress
      <4> QED
        BY <4>1, <4>2
    <3> QED
      BY <3>1, <3>2, <3>3 DEF Progress
  <2> QED
    BY <1>1, <1>5, <2>4, <2>7, SendSafe
<1>6. ASSUME NEW b \in Boxes, Receive(h, b),
             (step[h] = 1 /\ b = 0) \/ (step[h] = 3 /\ b = 1)
      PROVE  OfficeInv' /\ PacketsLegal' /\ Progress'
  <2>1. /\ stage[h] = "out" /\ stage' = [stage EXCEPT ![h] = "receive"]
        /\ box' = [box EXCEPT ![h] = b]
        /\ UNCHANGED <<socket, inHdr, hand, boxes, got, mail>>
    BY <1>6 DEF Receive, inputVars
  <2>2. /\ stage'[h] = "receive" /\ box'[h] = b
        /\ \A c \in Clients \ {h} : stage'[c] = stage[c] /\ box'[c] = box[c]
    BY <1>1, <1>4, <2>1
  <2>3. \A g \in Hosts : stage'[g] = "acquire" => mail'[g] \in Legal(farHost(g))
    BY <1>1, <2>1, <2>2 DEF PacketsLegal
  <2>4. PacketsLegal'
    BY <1>1, <2>1, <2>3, PacketsSame
  <2>5. step[h] = 3 => Heard(h)
    BY <1>1 DEF Progress
  <2>6. /\ (step'[h] = 2 /\ box'[h] = 0) \/ (step'[h] = 4 /\ box'[h] = 1)
        /\ step'[h] \in {3, 4} => Heard(h)
    BY <1>3, <1>6, <2>2, <2>5, SMTT(20)
  <2>7. Progress'
    <3>1. \A g \in Hosts : Heard(g)' = Heard(g) /\ got'[g] = got[g]
      BY <2>1 DEF Heard
    <3>2. \A k \in Clients \ Hosts : stage'[k] = "out"
      BY <1>1, <2>2 DEF Progress
    <3>3. ASSUME NEW g \in Hosts
          PROVE  /\ stage'[g] \in {"acquire", "sent"} => step'[g] \in {1, 3}
                 /\ stage'[g] = "receive" =>
                      (step'[g] = 2 /\ box'[g] = 0) \/ (step'[g] = 4 /\ box'[g] = 1)
                 /\ step'[g] \in {3, 4} \/ (step'[g] = 2 /\ stage'[g] = "out") => Heard(g)
                 /\ step'[g] = 4 /\ stage'[g] = "out" => got[g][1] # NoPacket
      <4>1. CASE g = h
        BY <2>2, <2>6, <4>1
      <4>2. CASE g # h
        <5>1. stage'[g] = stage[g] /\ box'[g] = box[g] /\ step'[g] = step[g]
          BY <1>1, <1>3, <2>2, <4>2
        <5> QED
          BY <1>1, <5>1 DEF Progress
      <4> QED
        BY <4>1, <4>2
    <3> QED
      BY <3>1, <3>2, <3>3 DEF Progress
  <2> QED
    BY <1>1, <1>6, <2>4, <2>7, ReceiveSafe
<1>7. CASE step[h] = 0 /\ Send(h, farHost(h), 0, 1, "hello")
  <2>1. [to |-> farHost(h), from |-> h, toBox |-> 0, fromBox |-> 1, data |-> "hello"]
          \in Legal(farHost(h))
    BY <1>1 DEF Legal, Packet
  <2> QED
    BY <1>1, <1>3, <1>5, <1>7, <2>1
<1>8. CASE step[h] = 2 /\ Send(h, got[h][0].from, got[h][0].fromBox, 1, "ack")
  <2>1. stage[h] = "out" /\ Heard(h)
    BY <1>1, <1>8 DEF Progress, Send
  <2>2. got[h][0] \in In(h, 0)
    BY <1>1, <2>1 DEF PacketsLegal, Heard
  <2>3. got[h][0].from = farHost(h) /\ got[h][0].fromBox = 1
    BY <2>2, SMTT(20) DEF In, Legal
  <2>4. [to |-> farHost(h), from |-> h, toBox |-> 1, fromBox |-> 1, data |-> "ack"]
          \in Legal(farHost(h))
    BY <1>1, <2>1 DEF Legal, Packet
  <2> QED
    BY <1>1, <1>3, <1>5, <1>8, <2>3, <2>4
<1> QED
  BY <1>1, <1>3, <1>6, <1>7, <1>8 DEF TestCall

(* A step of a machine's input side, or its interrupt, leaves the test     *)
(* where it was.                                                           *)
LEMMA ProgressSame ==
  ASSUME Progress, UNCHANGED <<clientVars, got, step>>
  PROVE  Progress'
  BY DEF Progress, Heard, clientVars

(* A packet moves along, in one machine.                                   *)
LEMMA PacketsMove ==
  ASSUME PacketsLegal, NEW h \in Hosts, UNCHANGED <<clientVars, got>>,
         \A g \in Hosts \ {h} : /\ socket'[g] = socket[g] /\ inHdr'[g] = inHdr[g]
                                /\ hand'[g] = hand[g] /\ boxes'[g] = boxes[g],
         socket'[h] \in Seq(Legal(h)),
         inHdr'[h] \in Legal(h) \cup {NoPacket}, hand'[h] \in Legal(h) \cup {NoPacket},
         \A b \in Boxes : boxes'[h][b] \in Seq(In(h, b))
  PROVE  PacketsLegal'
<1>1. \A g \in Hosts : farHost(g) \in Hosts
  BY FarHost
<1>2. \A g \in Hosts : Legal(g)' = Legal(g) /\ \A b \in Boxes : In(g, b)' = In(g, b)
  BY LegalSame
<1>3. \A g \in Hosts : /\ stage'[g] = stage[g] /\ mail'[g] = mail[g] /\ got'[g] = got[g]
  BY DEF clientVars
<1>4. ASSUME NEW g \in Hosts
      PROVE  /\ socket'[g] \in Seq(Legal(g))
             /\ inHdr'[g] \in Legal(g) \cup {NoPacket}
             /\ hand'[g] \in Legal(g) \cup {NoPacket}
             /\ \A b \in Boxes : boxes'[g][b] \in Seq(In(g, b))
  <2>1. CASE g = h
    BY <2>1
  <2>2. CASE g # h
    <3>1. /\ socket'[g] = socket[g] /\ inHdr'[g] = inHdr[g]
          /\ hand'[g] = hand[g] /\ boxes'[g] = boxes[g]
      BY <2>2
    <3> QED
      BY <3>1 DEF PacketsLegal
  <2> QED
    BY <2>1, <2>2
<1>5. ASSUME NEW g \in Hosts
      PROVE  /\ \A b \in Boxes : got'[g][b] \in In(g, b) \cup {NoPacket}
             /\ stage'[g] = "acquire" => mail'[g] \in Legal(farHost(g))
  BY <1>3 DEF PacketsLegal
<1>6. \A g \in Hosts : Legal(farHost(g))' = Legal(farHost(g))
  BY <1>1, <1>2
<1> QED
  BY <1>2, <1>4, <1>5, <1>6, SMTT(20) DEF PacketsLegal

(* Every step of the post offices keeps the packets of the test legal and  *)
(* the test in order.                                                      *)
LEMMA OfficeStepLegal ==
  ASSUME NetworkInv, testing, OfficeStep, UNCHANGED step
  PROVE  PacketsLegal' /\ Progress'
<1>1. /\ PacketsLegal /\ Progress /\ OfficeInv /\ step' = step
      /\ Hosts \subseteq Clients /\ \A h \in Hosts : HostOf[h] = h /\ farHost(h) \in Hosts
  BY FarHost DEF NetworkInv, TestInv
<1>2. /\ stage \in [Clients -> {"out", "acquire", "sent", "receive"}]
      /\ socket \in [Hosts -> Seq(Packet)]
      /\ inHdr \in [Hosts -> Packet \cup {NoPacket}]
      /\ hand \in [Hosts -> Packet \cup {NoPacket}]
      /\ boxes \in [Hosts -> [Boxes -> Seq(Packet)]]
      /\ got \in [Hosts -> [Boxes -> Packet \cup {NoPacket}]]
  BY <1>1 DEF OfficeInv, OfficeTypeOK
<1>3. ASSUME NEW h \in Hosts
      PROVE  /\ socket[h] \in Seq(Legal(h))
             /\ inHdr[h] \in Legal(h) \cup {NoPacket}
             /\ hand[h] \in Legal(h) \cup {NoPacket}
             /\ \A b \in Boxes : boxes[h][b] \in Seq(In(h, b))
  BY <1>1 DEF PacketsLegal
<1>4. ASSUME NEW c \in Clients, SendLocked(c)
      PROVE  PacketsLegal' /\ Progress'
  <2>1. /\ stage[c] = "acquire" /\ stage' = [stage EXCEPT ![c] = "sent"]
        /\ UNCHANGED <<inHdr, hand, boxes, mail, box, got>>
        /\ socket' = socket \/ socket' = [socket EXCEPT ![mail[c].to] = Append(@, mail[c])]
    BY <1>4 DEF SendLocked, Transmit, inputVars
  <2>2. c \in Hosts
    BY <1>1, <2>1 DEF Progress
  <2>3. PICK f \in Hosts : f = farHost(c)
    BY <1>1, <2>2
  <2>4. mail[c] \in Legal(f) /\ mail[c].to = f
    BY <1>1, <2>1, <2>2, <2>3 DEF PacketsLegal, Legal
  <2>5. Append(socket[f], mail[c]) \in Seq(Legal(f))
    BY <1>3, <2>4, Lists
  <2>6. /\ stage'[c] = "sent" /\ \A k \in Clients \ {c} : stage'[k] = stage[k]
        /\ \A g \in Hosts : socket'[g] \in Seq(Legal(g))
    <3>1. stage'[c] = "sent" /\ \A k \in Clients \ {c} : stage'[k] = stage[k]
      BY <1>2, <2>1
    <3>2. ASSUME NEW g \in Hosts
          PROVE  socket'[g] \in Seq(Legal(g))
      <4>1. CASE socket' = socket
        BY <1>3, <4>1
      <4>2. CASE socket' = [socket EXCEPT ![f] = Append(@, mail[c])]
        <5>1. socket'[g] = IF g = f THEN Append(socket[f], mail[c]) ELSE socket[g]
          BY <1>2, <4>2
        <5> QED
          BY <1>3, <2>5, <5>1
      <4> QED
        BY <2>1, <2>4, <4>1, <4>2
    <3> QED
      BY <3>1, <3>2
  <2>7. \A g \in Hosts : Legal(g)' = Legal(g) /\ \A b \in Boxes : In(g, b)' = In(g, b)
    BY <2>1, LegalSame
  <2>8. PacketsLegal'
    <3>1. \A g \in Hosts : stage'[g] = "acquire" => mail[g] \in Legal(farHost(g))
      BY <1>1, <2>6 DEF PacketsLegal
    <3>2. \A g \in Hosts : Legal(farHost(g))' = Legal(farHost(g))
      BY <1>1, <2>7
    <3>3. ASSUME NEW g \in Hosts
          PROVE  /\ socket'[g] \in Seq(Legal(g)')
                 /\ inHdr'[g] \in Legal(g)' \cup {NoPacket}
                 /\ hand'[g] \in Legal(g)' \cup {NoPacket}
                 /\ stage'[g] = "acquire" => mail'[g] \in Legal(farHost(g))'
      BY <1>3, <2>1, <2>6, <2>7, <3>1, <3>2
    <3>4. ASSUME NEW g \in Hosts, NEW b \in Boxes
          PROVE  boxes'[g][b] \in Seq(In(g, b)') /\ got'[g][b] \in In(g, b)' \cup {NoPacket}
      BY <1>1, <2>1, <2>7 DEF PacketsLegal
    <3> QED
      BY <3>3, <3>4 DEF PacketsLegal
  <2>9. Progress'
    <3>1. step[c] \in {1, 3}
      BY <1>1, <2>1, <2>2 DEF Progress
    <3>2. \A g \in Hosts : Heard(g)' = Heard(g) /\ got'[g] = got[g] /\ box'[g] = box[g]
      BY <2>1 DEF Heard
    <3>3. \A g \in Hosts : step'[g] = step[g]
      BY <1>1
    <3>4. \A k \in Clients \ Hosts : stage'[k] = "out"
      BY <1>1, <2>2, <2>6 DEF Progress
    <3>5. step[c] \in {3} => Heard(c)
      BY <1>1, <2>2 DEF Progress
    <3>6. ASSUME NEW g \in Hosts
          PROVE  /\ stage'[g] \in {"acquire", "sent"} => step[g] \in {1, 3}
                 /\ stage'[g] = "receive" =>
                      (step[g] = 2 /\ box[g] = 0) \/ (step[g] = 4 /\ box[g] = 1)
                 /\ step[g] \in {3, 4} \/ (step[g] = 2 /\ stage'[g] = "out") => Heard(g)
                 /\ step[g] = 4 /\ stage'[g] = "out" => got[g][1] # NoPacket
      <4>1. CASE g = c
        <5>1. stage'[g] = "sent" /\ (step[g] = 1 \/ step[g] = 3) /\ (step[g] = 3 => Heard(g))
          BY <2>6, <3>1, <3>5, <4>1
        <5>2. CASE step[g] = 1
          BY <5>1, <5>2, SMTT(20)
        <5>3. CASE step[g] = 3
          BY <5>1, <5>3
        <5> QED
          BY <5>1, <5>2, <5>3
      <4>2. CASE g # c
        BY <1>1, <2>6, <4>2 DEF Progress
      <4> QED
        BY <4>1, <4>2
    <3> QED
      BY <3>2, <3>3, <3>4, <3>6 DEF Progress
  <2> QED
    BY <2>8, <2>9
<1>5. ASSUME NEW c \in Clients, SendReturns(c)
      PROVE  PacketsLegal' /\ Progress'
  <2>1. /\ stage[c] = "sent" /\ stage' = [stage EXCEPT ![c] = "out"]
        /\ UNCHANGED <<socket, inHdr, hand, boxes, mail, box, got>>
    BY <1>5 DEF SendReturns, inputVars
  <2>2. stage'[c] = "out" /\ \A k \in Clients \ {c} : stage'[k] = stage[k]
    BY <1>2, <2>1
  <2>3. \A g \in Hosts : stage'[g] = "acquire" => mail'[g] \in Legal(farHost(g))
    BY <1>1, <2>1, <2>2 DEF PacketsLegal
  <2>4. PacketsLegal'
    BY <1>1, <2>1, <2>3, PacketsSame
  <2>5. c \in Hosts /\ step[c] \in {1, 3}
    BY <1>1, <2>1 DEF Progress
  <2>6. Progress'
    BY <1>1, <2>1, <2>2, <2>5, SMTT(20) DEF Progress, Heard
  <2> QED
    BY <2>4, <2>6
<1>6. ASSUME NEW c \in Clients, ReceiveReturns(c)
      PROVE  PacketsLegal' /\ Progress'
  <2>1. stage[c] = "receive"
    BY <1>6 DEF ReceiveReturns
  <2>2. /\ c \in Hosts /\ HostOf[c] = c
        /\ (step[c] = 2 /\ box[c] = 0) \/ (step[c] = 4 /\ box[c] = 1)
    BY <1>1, <2>1 DEF Progress
  <2>3. PICK b \in Boxes : b = box[c]
    BY <2>2, NetworkTestAssumption
  <2>4. /\ boxes[c][b] # <<>>
        /\ got' = [got EXCEPT ![c][b] = Head(boxes[c][b])]
        /\ boxes' = [boxes EXCEPT ![c][b] = Tail(boxes[c][b])]
        /\ stage' = [stage EXCEPT ![c] = "out"]
        /\ UNCHANGED <<socket, inHdr, hand, mail, box>>
    BY <1>6, <2>2, <2>3 DEF ReceiveReturns, inputVars
  <2>5. Head(boxes[c][b]) \in In(c, b) /\ Tail(boxes[c][b]) \in Seq(In(c, b))
    BY <1>3, <2>2, <2>4, Lists
  <2>6. Head(boxes[c][b]) # NoPacket
    BY <2>5, NoPacketLemma DEF In, Legal
  <2>7. /\ stage'[c] = "out" /\ \A k \in Clients \ {c} : stage'[k] = stage[k]
        /\ got'[c][b] = Head(boxes[c][b])
        /\ \A g \in Hosts, a \in Boxes : <<g, a>> # <<c, b>> =>
             got'[g][a] = got[g][a] /\ boxes'[g][a] = boxes[g][a]
        /\ boxes'[c][b] = Tail(boxes[c][b])
    BY <1>2, <2>2, <2>4
  <2>8. 0 \in Boxes /\ 1 \in Boxes
    BY NetworkTestAssumption
  <2>9. \A g \in Hosts : Heard(g) => Heard(g)'
    BY <2>6, <2>7, <2>8 DEF Heard
  <2>10. \A g \in Hosts : Legal(g) \subseteq Legal(g)' /\
                          \A a \in Boxes : In(g, a) \subseteq In(g, a)'
    BY <2>9, LegalKept
  <2>11. ASSUME NEW g \in Hosts
         PROVE  /\ socket'[g] \in Seq(Legal(g)')
                /\ inHdr'[g] \in Legal(g)' \cup {NoPacket}
                /\ hand'[g] \in Legal(g)' \cup {NoPacket}
                /\ stage'[g] = "acquire" => mail'[g] \in Legal(farHost(g))'
    <3>1. socket[g] \in Seq(Legal(g)')
      BY <1>3, <2>10, Lists
    <3>2. stage'[g] = "acquire" => mail[g] \in Legal(farHost(g))'
      <4>1. stage'[g] = "acquire" => stage[g] = "acquire"
        BY <1>1, <2>7
      <4>2. stage[g] = "acquire" => mail[g] \in Legal(farHost(g))
        BY <1>1 DEF PacketsLegal
      <4>3. Legal(farHost(g)) \subseteq Legal(farHost(g))'
        BY <1>1, <2>10
      <4> QED
        BY <4>1, <4>2, <4>3
    <3> QED
      BY <1>3, <2>4, <2>10, <3>1, <3>2
  <2>12. ASSUME NEW g \in Hosts, NEW a \in Boxes
         PROVE  boxes'[g][a] \in Seq(In(g, a)') /\ got'[g][a] \in In(g, a)' \cup {NoPacket}
    <3>1. boxes'[g][a] \in Seq(In(g, a)) /\ got'[g][a] \in In(g, a) \cup {NoPacket}
      <4>1. CASE g = c /\ a = b
        BY <2>5, <2>7, <4>1
      <4>2. CASE ~ (g = c /\ a = b)
        <5>1. <<g, a>> # <<c, b>>
          BY <4>2
        <5>2. got'[g][a] = got[g][a] /\ boxes'[g][a] = boxes[g][a]
          BY <2>7, <5>1
        <5> QED
          BY <1>1, <5>2 DEF PacketsLegal
      <4> QED
        BY <4>1, <4>2
    <3>2. In(g, a) \subseteq In(g, a)'
      BY <2>10
    <3> QED
      BY <3>1, <3>2, Lists
  <2>13. PacketsLegal'
    BY <2>11, <2>12 DEF PacketsLegal
  <2>14. got'[c][b] # NoPacket
    BY <2>6, <2>7
  <2>15. step[c] = 4 => got'[c][1] # NoPacket
    BY <2>2, <2>3, <2>14, SMTT(20)
  <2>16. Heard(c)'
    BY <1>1, <2>2, <2>3, <2>9, <2>14 DEF Progress, Heard
  <2>17. \A g \in Hosts \ {c} : got'[g][1] = got[g][1]
    BY <2>7, <2>8
  <2>18. ASSUME NEW g \in Hosts
         PROVE  /\ stage'[g] \in {"acquire", "sent"} => step[g] \in {1, 3}
                /\ stage'[g] = "receive" =>
                     (step[g] = 2 /\ box[g] = 0) \/ (step[g] = 4 /\ box[g] = 1)
                /\ step[g] \in {3, 4} \/ (step[g] = 2 /\ stage'[g] = "out") => Heard(g)'
                /\ step[g] = 4 /\ stage'[g] = "out" => got'[g][1] # NoPacket
    <3>1. CASE g = c
      BY <2>7, <2>15, <2>16, <3>1
    <3>2. CASE g # c
      <4>1. stage'[g] = stage[g] /\ got'[g][1] = got[g][1]
        BY <1>1, <2>7, <2>17, <3>2
      <4>2. Heard(g) => Heard(g)'
        BY <2>9
      <4> QED
        BY <1>1, <4>1, <4>2 DEF Progress
    <3> QED
      BY <3>1, <3>2
  <2>19. \A k \in Clients \ Hosts : stage'[k] = "out"
    BY <1>1, <2>2, <2>7 DEF Progress
  <2>20. Progress'
    BY <1>1, <2>4, <2>18, <2>19 DEF Progress
  <2> QED
    BY <2>13, <2>20
<1>7. ASSUME NEW h \in Hosts, SendInterrupt(h)
      PROVE  PacketsLegal' /\ Progress'
  <2>1. UNCHANGED <<socket, inHdr, hand, boxes, clientVars, got>>
    BY <1>7 DEF SendInterrupt, inputVars
  <2> QED
    BY <1>1, <1>3, <2>1, PacketsMove, ProgressSame
<1>8. ASSUME NEW h \in Hosts, ReceiveInterrupt(h)
      PROVE  PacketsLegal' /\ Progress'
  <2>1. /\ socket[h] # <<>>
        /\ inHdr' = [inHdr EXCEPT ![h] = Head(socket[h])]
        /\ socket' = [socket EXCEPT ![h] = Tail(socket[h])]
        /\ UNCHANGED <<hand, boxes, clientVars, got>>
    BY <1>8 DEF ReceiveInterrupt
  <2>2. Head(socket[h]) \in Legal(h) /\ Tail(socket[h]) \in Seq(Legal(h))
    BY <1>3, <2>1, Lists
  <2>3. /\ socket'[h] \in Seq(Legal(h)) /\ inHdr'[h] \in Legal(h)
        /\ \A g \in Hosts \ {h} : socket'[g] = socket[g] /\ inHdr'[g] = inHdr[g]
    BY <1>2, <2>1, <2>2
  <2> QED
    BY <1>1, <1>3, <2>1, <2>3, PacketsMove, ProgressSame
<1>9. ASSUME NEW h \in Hosts, WorkerWakes(h)
      PROVE  PacketsLegal' /\ Progress'
  <2>1. UNCHANGED <<socket, inHdr, hand, boxes, clientVars, got>>
    BY <1>9 DEF WorkerWakes
  <2> QED
    BY <1>1, <1>3, <2>1, PacketsMove, ProgressSame
<1>10. ASSUME NEW h \in Hosts, WorkerReceives(h)
       PROVE  PacketsLegal' /\ Progress'
  <2>1. /\ hand' = [hand EXCEPT ![h] = inHdr[h]]
        /\ inHdr' = [inHdr EXCEPT ![h] = NoPacket]
        /\ UNCHANGED <<socket, boxes, clientVars, got>>
    BY <1>10 DEF WorkerReceives
  <2>2. /\ hand'[h] = inHdr[h] /\ inHdr'[h] = NoPacket
        /\ \A g \in Hosts \ {h} : hand'[g] = hand[g] /\ inHdr'[g] = inHdr[g]
    BY <1>2, <2>1
  <2> QED
    BY <1>1, <1>3, <2>1, <2>2, PacketsMove, ProgressSame
<1>11. ASSUME NEW h \in Hosts, WorkerPuts(h)
       PROVE  PacketsLegal' /\ Progress'
  <2>1. hand[h] \in Packet
    BY <1>1, <1>11, WorkerPutsSafe
  <2>2. PICK b \in Boxes : b = hand[h].toBox
    BY <2>1 DEF Packet
  <2>3. /\ boxes' = [boxes EXCEPT ![h][b] = Append(boxes[h][b], hand[h])]
        /\ hand' = [hand EXCEPT ![h] = NoPacket]
        /\ UNCHANGED <<socket, inHdr, clientVars, got>>
    BY <1>11, <2>2 DEF WorkerPuts
  <2>4. hand[h] \in In(h, b)
    BY <1>3, <2>1, <2>2, NoPacketLemma DEF In
  <2>5. Append(boxes[h][b], hand[h]) \in Seq(In(h, b))
    BY <1>3, <2>4, Lists
  <2>6. /\ \A g \in Hosts \ {h} : boxes'[g] = boxes[g] /\ hand'[g] = hand[g]
        /\ boxes'[h][b] = Append(boxes[h][b], hand[h]) /\ hand'[h] = NoPacket
        /\ \A a \in Boxes \ {b} : boxes'[h][a] = boxes[h][a]
    BY <1>2, <2>3
  <2>7. \A a \in Boxes : boxes'[h][a] \in Seq(In(h, a))
    BY <1>3, <2>5, <2>6
  <2> QED
    BY <1>1, <1>3, <2>3, <2>6, <2>7, PacketsMove, ProgressSame
<1> QED
  BY <1>4, <1>5, <1>6, <1>7, <1>8, <1>9, <1>10, <1>11 DEF OfficeStep

-----------------------------------------------------------------------------
LEMMA NetworkStart == NetworkInit => NetworkInv
<1> SUFFICES ASSUME NetworkInit PROVE NetworkInv
  OBVIOUS
<1>1. Boxes # {} /\ Hosts \subseteq Clients /\ 0 \in Boxes /\ 1 \in Boxes
  BY NetworkTestAssumption
<1>2. OfficeInv /\ step \in [Hosts -> 0 .. 4] /\ unsent \subseteq Data
  BY <1>1, OfficeInitSafe, SMTT(20) DEF NetworkInit
<1>3. \A S : <<>> \in Seq(S)
  BY SMTT(20)
<1>4. PacketsLegal
  BY <1>1, <1>3 DEF NetworkInit, OfficeInit, PacketsLegal
<1>5. Progress /\ \A h \in Hosts : step[h] = 0
  BY <1>1, SMTT(20) DEF NetworkInit, OfficeInit, Progress
<1> QED
  BY <1>2, <1>4, <1>5 DEF NetworkInv, TestInv

LEMMA NetworkStep == NetworkInv /\ [NetworkNext]_networkVars => NetworkInv'
<1> SUFFICES ASSUME NetworkInv, [NetworkNext]_networkVars PROVE NetworkInv'
  OBVIOUS
<1>1. CASE \E h \in Hosts : Test(h)
  BY <1>1, TestCallLegal, SMTT(20) DEF Test, NetworkInv, TestInv
<1>2. ASSUME NEW c \in Clients, Program(c) PROVE NetworkInv'
  <2>1. /\ ~ testing /\ UNCHANGED <<step, testing>> /\ Calls(c)
        /\ unsent \subseteq Data /\ unsent' \subseteq Data
    BY <1>2 DEF Program, Calls, NetworkInv
  <2>2. OfficeInv'
    <3>1. OfficeInv /\ ClientBoxes \subseteq Boxes
      BY ClientAssumption DEF NetworkInv
    <3>2. ASSUME NEW d \in Data, NEW to \in Hosts, NEW b \in ClientBoxes, Send(c, to, b, b, d)
          PROVE  OfficeInv'
      BY <3>1, <3>2, SendSafe
    <3>3. ASSUME NEW b \in ClientBoxes, Receive(c, b) PROVE OfficeInv'
      BY <3>1, <3>3, ReceiveSafe
    <3> QED
      BY <2>1, <3>2, <3>3 DEF Calls
  <2> QED
    BY <2>1, <2>2 DEF NetworkInv, TestInv
<1>3. CASE Of(OfficeStep)
  <2>1. OfficeStep /\ UNCHANGED <<unsent, step, testing>>
    BY <1>3 DEF Of
  <2>2. OfficeInv'
    BY <2>1, OfficeStepSafe DEF NetworkInv
  <2>3. TestInv'
    BY <2>1, OfficeStepLegal DEF NetworkInv, TestInv
  <2> QED
    BY <2>1, <2>2, <2>3 DEF NetworkInv
<1>4. CASE UNCHANGED networkVars
  <2>1. UNCHANGED <<socket, inHdr, messageAvailable, worker, hand, boxes, sendLock,
                    messageSent, sendInt, sendBusy, chanceToWork, stage, mail, box, got,
                    unsent, step, testing>>
    BY <1>4 DEF networkVars, officeVars, inputVars, outputVars, clientVars
  <2>2. OfficeInv'
    <3>1. OfficeTypeOK'
      BY <2>1 DEF NetworkInv, OfficeInv, OfficeTypeOK
    <3>2. MailReady'
      BY <2>1 DEF NetworkInv, OfficeInv, MailReady
    <3>3. PacketAnnounced'
      BY <2>1 DEF NetworkInv, OfficeInv, OfficeSafe, PacketAnnounced
    <3>4. OneSendAtATime'
      BY <2>1 DEF NetworkInv, OfficeInv, OfficeSafe, OneSendAtATime
    <3> QED
      BY <3>1, <3>2, <3>3, <3>4 DEF OfficeInv, OfficeSafe
  <2>3. testing => PacketsLegal' /\ Progress'
    <3>1. \A h \in Hosts : Legal(h)' = Legal(h) /\ \A b \in Boxes : In(h, b)' = In(h, b)
      BY <2>1, LegalSame
    <3>2. \A h \in Hosts : farHost(h) \in Hosts
      BY FarHost
    <3>3. testing => PacketsLegal'
      BY <2>1, <3>1, <3>2 DEF NetworkInv, TestInv, PacketsLegal
    <3>4. testing => Progress'
      BY <2>1 DEF NetworkInv, TestInv, Progress, Heard
    <3> QED
      BY <3>3, <3>4
  <2> QED
    BY <2>1, <2>2, <2>3 DEF NetworkInv, TestInv
<1> QED
  BY <1>1, <1>2, <1>3, <1>4 DEF NetworkNext

(* Neither side of the network overruns the other: each packet in          *)
(* NetworkInput's buffer is announced to the postal worker exactly once,   *)
(* and one message at a time is sent from a machine (network/post.cc,      *)
(* machine/network.cc).                                                    *)
THEOREM OfficeCorrect == NetworkSpec => []OfficeSafe
<1>1. NetworkInv => OfficeSafe
  BY DEF NetworkInv, OfficeInv
<1> QED
  BY <1>1, NetworkStart, NetworkStep, PTL DEF NetworkSpec

(* A machine that has its acknowledgement knows that the other one has had *)
(* its message, whatever the network lost (Kernel::NetworkTest).           *)
THEOREM AckCorrect == NetworkSpec => []AckMeansReceived
<1>1. NetworkInv /\ testing => AckMeansReceived
  <2> SUFFICES ASSUME NetworkInv, testing, NEW h \in Hosts, Done(h)
               PROVE  /\ got[h][1].data = "ack" /\ got[h][1].from = farHost(h)
                      /\ got[farHost(h)][0] # NoPacket
                      /\ got[farHost(h)][0].data = "hello" /\ got[farHost(h)][0].from = h
    BY DEF AckMeansReceived
  <2>1. /\ PacketsLegal /\ Progress /\ farHost(h) \in Hosts /\ farHost(farHost(h)) = h
        /\ 0 \in Boxes /\ 1 \in Boxes
    BY FarHost, NetworkTestAssumption DEF NetworkInv, TestInv
  <2>2. got[h][1] \in In(h, 1)
    BY <2>1 DEF PacketsLegal, Progress, Done
  <2>3. got[h][1].data = "ack" /\ got[h][1].from = farHost(h) /\ Heard(farHost(h))
    BY <2>2, SMTT(20) DEF In, Legal
  <2>4. got[farHost(h)][0] \in In(farHost(h), 0)
    BY <2>1, <2>3 DEF PacketsLegal, Heard
  <2>5. got[farHost(h)][0].data = "hello" /\ got[farHost(h)][0].from = h
    BY <2>1, <2>4, SMTT(20) DEF In, Legal
  <2> QED
    BY <2>3, <2>5 DEF Heard
<1>2. NetworkInv /\ ~ testing => AckMeansReceived
  BY SMTT(20) DEF NetworkInv, TestInv, AckMeansReceived, Done
<1> QED
  BY <1>1, <1>2, NetworkStart, NetworkStep, PTL DEF NetworkSpec
=============================================================================

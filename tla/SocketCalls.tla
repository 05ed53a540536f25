---------------------------- MODULE SocketCalls -----------------------------
(***************************************************************************)
(* The socket system calls (SC_SocketTCP to SC_Accept of ExceptionHandler, *)
(* userprog/exception.cc) on the table of sockets of the stub file system, *)
(* beside the file calls: both take their descriptors from UNIX.           *)
(*                                                                         *)
(* The program may pass any id to any call.  What UNIX answers is a        *)
(* choice, except that it gives out the lowest free descriptor and refuses *)
(* what is not a socket; ids outside Fds are descriptors of the simulator  *)
(* itself.                                                                 *)
(***************************************************************************)
EXTENDS FileCalls

CONSTANTS
  MaxSocket,      \* the size of the table of sockets
  MaxLenghtData,  \* the size of the buffer of SC_Receive
  Ids,            \* the ids that the program passes
  SOCKET          \* what a descriptor that is a socket is open on

ASSUME SocketCallsAssumption ==
  /\ {MaxSocket, MaxLenghtData} \subseteq Nat \ {0} /\ Ids \subseteq Int
  /\ SOCKET \notin Inodes \cup {NULL}

VARIABLES
  socket,  \* FileSystem::socket
  held,    \* the sockets the program has been given and has not closed
  strayed  \* SC_CloseSoc has accepted an id that is none of these

socketVars == <<socket, held, strayed>>
vars == <<fileVars, socketVars>>

SocketSlots == 0 .. MaxSocket - 1

Init ==
  /\ FileInit
  /\ socket = [i \in SocketSlots |-> -1]
  /\ held = {}
  /\ strayed = FALSE

(* FileSystem::findIndexSocketFree *)
findIndexSocketFree ==
  LET free == {i \in SocketSlots : socket[i] = -1} IN
  IF free = {} THEN -1 ELSE Min(free)

(* FileSystem::findIndexSocket: it returns the descriptor, not its index.  *)
findIndexSocket(id) == IF \E i \in SocketSlots : socket[i] = id THEN id ELSE -1

(* SC_SocketTCP *)
SocketTCP ==
  /\ ~ crashed
  /\ \/ /\ findIndexSocketFree = -1
        /\ Returns(<<"SocketTCP", "full">>, -1)
        /\ UNCHANGED <<fds, socketVars>>
     \/ /\ findIndexSocketFree # -1
        /\ FreeFds = {}
        /\ Returns(<<"SocketTCP", "error">>, -1)
        /\ UNCHANGED <<fds, socketVars>>
     \/ /\ findIndexSocketFree # -1
        /\ FreeFds # {}
        /\ LET d == Min(FreeFds) IN
           /\ fds' = [fds EXCEPT ![d] = SOCKET]
           /\ socket' = [socket EXCEPT ![findIndexSocketFree] = d]
           /\ held' = held \cup {d}
           /\ Returns(<<"SocketTCP", "ok">>, d)
        /\ UNCHANGED strayed
  /\ memory' = <<>>
  /\ UNCHANGED <<inode, content, openfile>>

(* Mutant: the position is an index, and it is what is closed. *)
CloseSocIndex(id) ==
  /\ ~ crashed
  /\ \E i \in SocketSlots :
       /\ socket[i] = id
       /\ socket' = [socket EXCEPT ![i] = -1]
       /\ fds' = [d \in Fds |-> IF d = i THEN NULL ELSE fds[d]]
  /\ held' = held \ {id}
  /\ Returns(<<"CloseSoc", id>>, 0)
  /\ memory' = <<>>
  /\ UNCHANGED <<inode, content, openfile, strayed>>

(* SC_CloseSoc.  It clears the entry whose index is the descriptor, which  *)
(* is another one or, for a large descriptor, beyond the table; the entry  *)
(* of the descriptor stays behind, and lets the same id pass again when    *)
(* UNIX may have given the descriptor to a file.                           *)
CloseSoc(id) ==
  /\ ~ crashed
  /\ LET pos == findIndexSocket(id) IN
     IF pos = -1
       THEN /\ Returns(<<"CloseSoc", id>>, -1)
            /\ UNCHANGED <<unixVars, socketVars>>
       ELSE /\ IF pos \in SocketSlots
                 THEN /\ socket' = [socket EXCEPT ![pos] = -1]
                      /\ Returns(<<"CloseSoc", id>>, 0)
                 ELSE /\ UndefinedBehaviour(<<"CloseSoc", id>>, 0)
                      /\ UNCHANGED socket
            /\ fds' = [fds EXCEPT ![id] = NULL]
            /\ held' = held \ {id}
            /\ strayed' = (strayed \/ id \notin held)
            /\ UNCHANGED inode
            /\ Reclaim
  /\ memory' = <<>>
  /\ UNCHANGED openfile

-----------------------------------------------------------------------------
(* UNIX may do with a descriptor what it does with sockets only, and what  *)
(* it does with files too.                                                 *)
MayBeSocket(id) == id >= 0 /\ (id \in Fds => fds[id] = SOCKET)
MayBeOpen(id) == id >= 0 /\ (id \in Fds => fds[id] # NULL)

(* SC_Accept: the descriptor of the client is not entered in the table. *)
Accept(id) ==
  /\ ~ crashed
  /\ \/ /\ findIndexSocket(id) # -1 /\ MayBeSocket(id) /\ FreeFds # {}
        /\ LET d == Min(FreeFds) IN
           /\ fds' = [fds EXCEPT ![d] = SOCKET]
           /\ held' = held \cup {d}
           /\ Returns(<<"Accept", id>>, d)
        /\ UNCHANGED <<socket, strayed>>
     \/ /\ Returns(<<"Accept", id>>, -1)
        /\ UNCHANGED <<fds, socketVars>>
  /\ memory' = <<>>
  /\ UNCHANGED <<inode, content, openfile>>

NoTableChanges == UNCHANGED <<unixVars, openfile, socketVars>>

(* SC_Bind and SC_Listen: refused unless the descriptor is in the table;   *)
(* UNIX may refuse too.                                                    *)
BindOrListen(id) ==
  /\ ~ crashed
  /\ \/ /\ findIndexSocket(id) # -1 /\ MayBeSocket(id)
        /\ Returns(<<"Bind", id>>, 0)
     \/ Returns(<<"Bind", id>>, -1)
  /\ memory' = <<>>
  /\ NoTableChanges

(* SC_Connect: an id that is not negative is passed to UNIX. *)
Connect(id) ==
  /\ ~ crashed
  /\ \/ MayBeSocket(id) /\ Returns(<<"Connect", id>>, 0)
     \/ Returns(<<"Connect", id>>, -1)
  /\ memory' = <<>>
  /\ NoTableChanges

(* SC_Send of a string of that length, or of its first len bytes if it is  *)
(* longer; a negative len counts as a large one.                           *)
Send(id, length, len) ==
  /\ ~ crashed
  /\ \/ /\ MayBeSocket(id)
        /\ \E numbyte \in 0 .. (IF len \in 0 .. length - 1 THEN len ELSE length) :
             Returns(<<"Send", id>>, numbyte)
     \/ Returns(<<"Send", id>>, -1)
  /\ memory' = <<>>
  /\ NoTableChanges

(* SC_Receive into a user's buffer: the bytes go through an array, zeroed, *)
(* whose size is not compared with the length that is asked for.  The read *)
(* is that of files too; which bytes it returns is a choice.               *)
Receive(id, user) ==
  /\ ~ crashed
  /\ \/ /\ MayBeOpen(id)
        /\ \E recv \in [DOMAIN user -> Bytes], numbyte \in 0 .. Len(user) :
             /\ \A i \in DOMAIN user : i > numbyte => recv[i] = 0
             /\ memory' = System2User(user, recv)
             /\ IF Len(user) <= MaxLenghtData
                  THEN Returns(<<"Receive", id>>, numbyte)
                  ELSE UndefinedBehaviour(<<"Receive", id>>, numbyte)
     \/ /\ Returns(<<"Receive", id>>, -1)
        /\ memory' = user
  /\ NoTableChanges

SocketCall ==
  \/ SocketTCP
  \/ \E id \in Ids :
       \/ CloseSoc(id) \/ Accept(id) \/ BindOrListen(id) \/ Connect(id)
       \/ \E length \in 0 .. MaxSize, len \in -1 .. MaxSize : Send(id, length, len)
       \/ \E user \in Buffers : Receive(id, user)

Next == SocketCall \/ (FileCall /\ UNCHANGED socketVars)

Spec == Init /\ [][Next]_vars

-----------------------------------------------------------------------------
(* Every variable has its type. *)
TypeOK ==
  /\ FileTypeOK
  /\ fds \in [Fds -> Inodes \cup {SOCKET, NULL}]
  /\ socket \in [SocketSlots -> Fds \cup {-1}]
  /\ held \subseteq Fds
  /\ strayed \in BOOLEAN

(* However confused the table of sockets is, closing one's own sockets     *)
(* only closes sockets: each descriptor the program holds is open on a     *)
(* socket, and the files' descriptors stay with their slots (SC_CloseSoc,  *)
(* SC_Open, SC_Close), until the table lets a CloseSoc pass that is not of *)
(* a socket of the program.                                                *)
SocketsAndFilesApart ==
  ~ strayed => DescriptorsOwned /\ held = {d \in Fds : fds[d] = SOCKET}

(* An OpenFileId stands for the same open file until it is closed          *)
(* (findIndexFree, SC_Open): no other call takes its slot, only its own    *)
(* calls move its offset, and its descriptor stays open on the same UNIX   *)
(* file, whatever other ids and sockets are opened and closed, until a     *)
(* stray CloseSoc.                                                         *)
IdsAreStable ==
  [][\A i \in Slots : openfile[i] # NULL /\ call' # <<"Close", i>> =>
       /\ openfile'[i] = [openfile[i] EXCEPT !.currentOffset =
                                               openfile'[i].currentOffset]
       /\ openfile'[i] # openfile[i] => call' \in {"Read", "Write", "Seek"} \X {i}
       /\ ~ strayed' => fds'[openfile[i].file] = fds[openfile[i].file]]_vars

(* SC_SocketTCP reports "Socket is full!" (userprog/exception.cc:293) when *)
(* the table holds MaxSocket sockets, and so only then.                    *)
FullMeansFull ==
  call = <<"SocketTCP", "full">> => Cardinality(held) >= MaxSocket
=============================================================================

----------------------------- MODULE FileCalls ------------------------------
(***************************************************************************)
(* The file system calls of a user program: the cases SC_Create, SC_Open,  *)
(* SC_Close, SC_Remove, SC_Read, SC_Write and SC_Seek of ExceptionHandler  *)
(* (userprog/exception.cc) on the table of open files of the stub file     *)
(* system (filesys/filesys.h, filesys/openfile.h), over UNIX.              *)
(*                                                                         *)
(* A handler runs to its end without another thread in between: only the   *)
(* console calls wait, and they touch neither the table nor a file.  What  *)
(* the code leaves undefined is a choice here: UndefinedBehaviour is the   *)
(* use of a pointer that was never set, was freed, or is read past the end *)
(* of the table; the kernel may crash or go on.                            *)
(***************************************************************************)
EXTENDS Integers, Sequences, FiniteSets, FiniteSetsExt

CONSTANTS
  Names,     \* the names of files
  MaxFile,   \* the size of the table of open files
  Fds,       \* the UNIX descriptors that Nachos may be given
  Inodes,    \* the UNIX files there may be; a bound
  MaxSize,   \* bound: the bytes of the buffer of one call, at least one
  MaxLength, \* bound: the bytes of one file
  Bytes,     \* the values of a byte
  NULL

ASSUME FileCallsAssumption ==
  /\ MaxFile \in Nat \ {0, 1} /\ MaxSize \in Nat \ {0} /\ MaxLength \in Nat
  /\ Fds \subseteq Nat /\ Inodes \subseteq Nat
  /\ 0 \in Bytes /\ Bytes \subseteq 0 .. 255

ASSUME NullAssumption ==
  /\ NULL \notin Inodes
  /\ NULL \notin [type : {0, 1}, filename : Names, file : Fds, currentOffset : Nat]

VARIABLES
  inode,     \* the UNIX file of each name, or NULL
  content,   \* the bytes of each UNIX file
  fds,       \* what each UNIX descriptor is open on, or NULL
  openfile,  \* FileSystem::openfile
  memory,    \* the user's buffer of the last call, if it has one
  r2,        \* the result of the last call
  call,      \* the last call: its name and its first argument
  crashed    \* the kernel has crashed

unixVars == <<inode, content, fds>>
fileVars == <<unixVars, openfile, memory, r2, call, crashed>>

Slots == 0 .. MaxFile - 1
OpenFiles == [type : {0, 1}, filename : Names, file : Fds, currentOffset : 0 .. MaxLength]
Buffers == UNION {[1 .. n -> Bytes] : n \in 1 .. MaxSize}

FileTypeOK ==
  /\ inode \in [Names -> Inodes \cup {NULL}]
  /\ content \in [Inodes -> Seq(Bytes)]
  /\ openfile \in [Slots -> OpenFiles \cup {NULL}]
  /\ memory \in Buffers \cup {<<>>}
  /\ r2 \in Nat \cup {-1}
  /\ crashed \in BOOLEAN

(* The constructor of FileSystem.  No file exists. *)
FileInit ==
  /\ inode = [n \in Names |-> NULL]
  /\ content = [i \in Inodes |-> <<>>]
  /\ fds = [d \in Fds |-> NULL]
  /\ openfile = [i \in Slots |-> NULL]
  /\ memory = <<>>
  /\ r2 = 0
  /\ call = <<"none">>
  /\ crashed = FALSE

Returns(c, result) ==
  /\ call' = c
  /\ r2' = result
  /\ crashed' = FALSE

UndefinedBehaviour(c, result) ==
  /\ call' = c
  /\ r2' = result
  /\ crashed' \in BOOLEAN

Crashes(c) ==
  /\ call' = c
  /\ crashed' = TRUE
  /\ memory' = <<>>
  /\ UNCHANGED <<unixVars, openfile, r2>>

-----------------------------------------------------------------------------
(* UNIX: the lowest descriptor that is free, and a file nobody refers to.  *)
FreeFds == {d \in Fds : fds[d] = NULL}
FreeInodes ==
  Inodes \ ({inode[n] : n \in Names} \cup {fds[d] : d \in Fds})

(* A file that has neither a name nor a descriptor any more is gone. *)
Reclaim ==
  content' = [i \in Inodes |->
                IF i \in {inode'[n] : n \in Names} \cup {fds'[d] : d \in Fds}
                  THEN content[i] ELSE <<>>]

(* FileSystem::Create and OpenForWrite: the file is created if it does not *)
(* exist and truncated if it does, whoever has it open; it is closed again.*)
(* OpenForWrite asserts that UNIX has a descriptor for it.                 *)
Create(n) ==
  /\ ~ crashed
  /\ IF FreeFds = {}
       THEN Crashes(<<"Create", n>>)
       ELSE /\ inode[n] # NULL \/ FreeInodes # {}
            /\ LET i == IF inode[n] = NULL THEN Min(FreeInodes) ELSE inode[n] IN
               /\ inode' = [inode EXCEPT ![n] = i]
               /\ content' = [content EXCEPT ![i] = <<>>]
            /\ Returns(<<"Create", n>>, 0)
            /\ memory' = <<>>
            /\ UNCHANGED <<fds, openfile>>

(* FileSystem::findIndexFree: 0 and 1 are kept for the console. *)
findIndexFree ==
  LET free == {i \in 2 .. MaxFile - 1 : openfile[i] = NULL} IN
  IF free = {} THEN -1 ELSE Min(free)

(* SC_Open.  When the type is wrong or the table is full it deletes a      *)
(* pointer it has not set.  It fails if there is no such file, or no       *)
(* descriptor for it.                                                      *)
Open(n, type) ==
  /\ ~ crashed
  /\ IF type \notin {0, 1} \/ findIndexFree = -1
       THEN /\ UndefinedBehaviour(<<"Open", n>>, -1)
            /\ UNCHANGED <<fds, openfile>>
       ELSE IF inode[n] = NULL \/ FreeFds = {}
       THEN /\ Returns(<<"Open", n>>, -1)
            /\ openfile' = [openfile EXCEPT ![findIndexFree] = NULL]
            /\ UNCHANGED fds
       ELSE LET d == Min(FreeFds) IN
            /\ fds' = [fds EXCEPT ![d] = inode[n]]
            /\ openfile' = [openfile EXCEPT ![findIndexFree] =
                 [type |-> type, filename |-> n, file |-> d, currentOffset |-> 0]]
            /\ Returns(<<"Open", n>>, findIndexFree)
  /\ memory' = <<>>
  /\ UNCHANGED <<inode, content>>

IsOpen(id) == id \in Slots /\ openfile[id] # NULL
ContentOf(id) == content[fds[openfile[id].file]]

(* The descriptor of an open file may have been closed by SC_CloseSoc, and *)
(* may be that of a socket since.  Lseek, which every access begins with,  *)
(* asserts that the descriptor is open on a file.                          *)
Seekable(id) == IsOpen(id) /\ fds[openfile[id].file] \in Inodes

(* SC_Close.  It does not check that the id is an index of the table; the  *)
(* Close of ~OpenFile asserts that the descriptor is open.                 *)
Close(id) ==
  /\ ~ crashed
  /\ IF id \notin Slots
       THEN /\ UndefinedBehaviour(<<"Close", id>>, -1)
            /\ memory' = <<>>
            /\ UNCHANGED <<unixVars, openfile>>
       ELSE IF openfile[id] = NULL
       THEN /\ Returns(<<"Close", id>>, -1)
            /\ memory' = <<>>
            /\ UNCHANGED <<unixVars, openfile>>
       ELSE IF fds[openfile[id].file] = NULL
       THEN Crashes(<<"Close", id>>)
       ELSE /\ fds' = [fds EXCEPT ![openfile[id].file] = NULL]
            /\ openfile' = [openfile EXCEPT ![id] = NULL]
            /\ Returns(<<"Close", id>>, 0)
            /\ memory' = <<>>
            /\ UNCHANGED inode
            /\ Reclaim

(* SC_Remove.  It means to refuse a name that is open, but the names of    *)
(* the open files have been freed by SC_Open: while a file is open the     *)
(* comparison may have either result, for any name.                        *)
Remove(n) ==
  /\ ~ crashed
  /\ \/ /\ \E i \in Slots : openfile[i] # NULL
        /\ Returns(<<"Remove", n>>, -1)
        /\ UNCHANGED inode
     \/ /\ inode' = [inode EXCEPT ![n] = NULL]
        /\ Returns(<<"Remove", n>>, IF inode[n] = NULL THEN -1 ELSE 0)
  /\ memory' = <<>>
  /\ UNCHANGED <<fds, openfile>>
  /\ Reclaim

-----------------------------------------------------------------------------
(* User2System: the copy of a user's buffer ends at the first 0, and the   *)
(* rest is 0.                                                              *)
User2System(user) ==
  [i \in DOMAIN user |-> IF \E j \in 1 .. i - 1 : user[j] = 0 THEN 0 ELSE user[i]]

(* System2User: the copy to a user's buffer ends at the first 0 too, and   *)
(* the rest of the user's buffer is left as it was.                        *)
System2User(user, buf) ==
  [i \in DOMAIN user |->
     IF i \in DOMAIN buf /\ \A j \in 1 .. i - 1 : buf[j] # 0 THEN buf[i] ELSE user[i]]

(* OpenFile::ReadAt, WriteAt *)
ReadAt(bytes, size, position) ==
  SubSeq(bytes, position + 1, Min({Len(bytes), position + size}))
WriteAt(bytes, buf, position) ==
  [i \in 1 .. Max({Len(bytes), position + Len(buf)}) |->
     IF i - position \in DOMAIN buf THEN buf[i - position]
     ELSE IF i \in DOMAIN bytes THEN bytes[i] ELSE 0]

(* SynchConsoleInput::GetString: a string of less than "size" characters. *)
ConsoleStrings(size) ==
  UNION {[1 .. n -> Bytes \ {0}] : n \in 0 .. size - 1}

(* Mutant: all the slots of a file share one offset. *)
AdvanceShared(id, n) ==
  openfile' = [i \in Slots |->
    IF openfile[i] # NULL /\ fds[openfile[i].file] = fds[openfile[id].file]
      THEN [openfile[i] EXCEPT !.currentOffset = openfile[id].currentOffset + n]
      ELSE openfile[i]]

(* currentOffset += the bytes transferred *)
Advance(id, n) == openfile' = [openfile EXCEPT ![id].currentOffset = @ + n]

(* SC_Read into a user's buffer "user"; id 0 is the console.  The test of  *)
(* the range lets one id too many pass, and there is no test that the file *)
(* is open: openfile[id] is used though it is NULL or not of the table.    *)
Read(user, id) ==
  /\ ~ crashed
  /\ IF id < 0 \/ id > MaxFile
       THEN /\ Returns(<<"Read", id>>, -1)
            /\ memory' = user
            /\ UNCHANGED <<unixVars, openfile>>
       ELSE IF id = 0
       THEN /\ \E s \in ConsoleStrings(Len(user)) :
                 /\ memory' = System2User(user, Append(s, 0))
                 /\ Returns(<<"Read", id>>, Len(s))
            /\ UNCHANGED <<unixVars, openfile>>
       ELSE IF ~ Seekable(id)
       THEN Crashes(<<"Read", id>>)
       ELSE LET buf == ReadAt(ContentOf(id), Len(user), openfile[id].currentOffset) IN
            /\ memory' = System2User(user, buf)
            /\ Advance(id, Len(buf))
            /\ Returns(<<"Read", id>>, Len(buf))
            /\ UNCHANGED unixVars

(* Mutant: SC_Write does not look at the type of the file. *)
WriteAny(user, id) ==
  /\ ~ crashed
  /\ Seekable(id)
  /\ content' = [content EXCEPT ![fds[openfile[id].file]] =
                   WriteAt(@, User2System(user), openfile[id].currentOffset)]
  /\ Advance(id, Len(user))
  /\ Returns(<<"Write", id>>, Len(user))
  /\ memory' = user
  /\ UNCHANGED <<inode, fds>>

(* SC_Write of a user's buffer; id 1 is the console.  Like SC_Read it uses *)
(* openfile[id] without a test that the file is open.                      *)
Write(user, id) ==
  /\ ~ crashed
  /\ IF id < 0 \/ id > MaxFile
       THEN /\ Returns(<<"Write", id>>, -1)
            /\ memory' = user
            /\ UNCHANGED <<unixVars, openfile>>
       ELSE IF id = 1
       THEN /\ Returns(<<"Write", id>>, Len(user))
            /\ memory' = user
            /\ UNCHANGED <<unixVars, openfile>>
       ELSE IF ~ IsOpen(id)
       THEN Crashes(<<"Write", id>>)
       ELSE IF openfile[id].type = 1
       THEN /\ Returns(<<"Write", id>>, -1)
            /\ memory' = user
            /\ UNCHANGED <<unixVars, openfile>>
       ELSE IF ~ Seekable(id)
       THEN Crashes(<<"Write", id>>)
       ELSE /\ content' = [content EXCEPT ![fds[openfile[id].file]] =
                             WriteAt(@, User2System(user), openfile[id].currentOffset)]
            /\ Advance(id, Len(user))
            /\ Returns(<<"Write", id>>, Len(user))
            /\ memory' = System2User(user, User2System(user))
            /\ UNCHANGED <<inode, fds>>

(* SC_Seek; -1 stands for the end of the file. *)
Seek(pos, id) ==
  /\ ~ crashed
  /\ IF id \notin Slots \ {0, 1} \/ openfile[id] = NULL
       THEN /\ IF id = MaxFile THEN UndefinedBehaviour(<<"Seek", id>>, -1)
                               ELSE Returns(<<"Seek", id>>, -1)
            /\ memory' = <<>>
            /\ UNCHANGED <<unixVars, openfile>>
       ELSE IF ~ Seekable(id)
       THEN Crashes(<<"Seek", id>>)
       ELSE LET to == IF pos = -1 THEN Len(ContentOf(id)) ELSE pos IN
            /\ IF to \in 0 .. Len(ContentOf(id))
                 THEN /\ openfile' = [openfile EXCEPT ![id].currentOffset = to]
                      /\ Returns(<<"Seek", id>>, to)
                 ELSE /\ Returns(<<"Seek", id>>, -1)
                      /\ UNCHANGED openfile
            /\ memory' = <<>>
            /\ UNCHANGED unixVars

(* The bounds of the model: no file grows beyond MaxLength. *)
Fits(id, n) == IsOpen(id) => openfile[id].currentOffset + n <= MaxLength

FileCall ==
  \/ \E n \in Names :
       Create(n) \/ Remove(n) \/ \E type \in 0 .. 2 : Open(n, type)
  \/ \E id \in 0 .. MaxFile :
       \/ Close(id)
       \/ \E user \in Buffers :
            Read(user, id) \/ (Fits(id, Len(user)) /\ Write(user, id))
       \/ \E pos \in -1 .. MaxLength + 1 : Seek(pos, id)

-----------------------------------------------------------------------------
(* Every UNIX descriptor that a file holds belongs to exactly one slot of  *)
(* the table (SC_Open, SC_Close, ~OpenFile): none is leaked, and none is   *)
(* closed while a slot uses it.                                            *)
DescriptorsOwned ==
  /\ \A d \in Fds : fds[d] \in Inodes =>
       \E i \in Slots : openfile[i] # NULL /\ openfile[i].file = d
  /\ \A i, j \in Slots : openfile[i] # NULL /\ openfile[j] # NULL =>
       /\ fds[openfile[i].file] \in Inodes
       /\ openfile[i].file = openfile[j].file => i = j

(* The bytes of a file change only by a Write through an id that was       *)
(* opened for writing, at its offset and as many as it returns, or by a    *)
(* Create of the file's name (SC_Write, SC_Create).                        *)
WritesAreAllowed ==
  [][\A i \in Inodes : content'[i] # content[i] /\ i \notin FreeInodes' =>
       \/ call'[1] = "Create" /\ inode'[call'[2]] = i
       \/ /\ call'[1] = "Write"
          /\ LET id == call'[2]
                 changed == {k \in DOMAIN content[i] : content'[i][k] # content[i][k]}
             IN /\ openfile[id].type = 0 /\ fds[openfile[id].file] = i
                /\ Len(content'[i]) >= Len(content[i])
                /\ \A k \in changed :
                     k - openfile[id].currentOffset \in 1 .. r2']_fileVars
=============================================================================

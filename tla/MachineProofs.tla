--------------------------- MODULE MachineProofs ----------------------------
(***************************************************************************)
(* Proofs about the simulated machine and what a user program on it relies *)
(* on: the arithmetic of address spaces (AddrSpace.tla), the file and      *)
(* socket calls (SocketCalls.tla), and the interrupts and the clock        *)
(* (Interrupts.tla).                                                       *)
(***************************************************************************)
EXTENDS AddrSpace, Interrupts, SocketCalls, SequenceTheorems,
        WellFoundedInduction, TLAPS

(* A step that names no prover is for Zenon.                               *)
USE ZenonT(40)

(***************************************************************************)
(* What the arithmetic of address spaces guarantees for every page size,   *)
(* memory size, stack size and program: a program fits the pages counted   *)
(* for it, with its stack above its data, and a translation that raises no *)
(* exception never leaves the physical memory.                             *)
(***************************************************************************)
(* Division with remainder by a positive number.                           *)
LEMMA DivMod ==
  ASSUME NEW a \in Nat, NEW b \in Nat \ {0}
  PROVE  /\ a \div b \in Nat /\ a % b \in Nat
         /\ a = b * (a \div b) + (a % b) /\ a % b < b
  BY SMTT(20)

(* divRoundUp counts enough units of s for n, and not one too many.        *)
LEMMA DivRoundUp ==
  ASSUME NEW n \in Nat, NEW s \in Nat \ {0}
  PROVE  /\ divRoundUp(n, s) \in Nat
         /\ n <= divRoundUp(n, s) * s
         /\ divRoundUp(n, s) * s < n + s
<1>1. n + s - 1 \in Nat
  BY SMTT(20)
<1> DEFINE q == (n + s - 1) \div s
           r == (n + s - 1) % s
<1>2. q \in Nat /\ r \in Nat /\ n + s - 1 = s * q + r /\ r < s
  BY <1>1, DivMod, SMTT(20)
<1>3. divRoundUp(n, s) = q
  BY SMTT(20) DEF divRoundUp
<1> HIDE DEF q, r
<1>4. s * q = q * s /\ s * q \in Nat
  BY <1>2, SMTT(20)
<1> QED
  BY <1>2, <1>3, <1>4, SMTT(20)

-----------------------------------------------------------------------------
(* The sum of the sizes of the four segments of an executable. *)
Sizes(noffH) ==
  noffH.code.size + noffH.readonlyData.size + noffH.initData.size
    + noffH.uninitData.size

(* A NOFF file whose segments, but for the empty ones, which may have any  *)
(* address, follow each other from address 0 in some order, as in the      *)
(* executables of code/test: each starts and ends within the sum of the    *)
(* sizes.                                                                  *)
Parts == {"code", "readonlyData", "initData", "uninitData"}
Contiguous(noffH) ==
  \A part \in Parts :
    /\ noffH[part].size \in Nat /\ noffH[part].virtualAddr \in Nat
    /\ noffH[part].size > 0 =>
         noffH[part].virtualAddr + noffH[part].size <= Sizes(noffH)

(* AddrSpace::Load counts the pages of a program from the sizes of its     *)
(* segments, but reads the segments in at the addresses the file gives:    *)
(* for a file whose segments are contiguous, every byte of every segment   *)
(* has a page, and the initial stack pointer of InitRegisters lies in the  *)
(* last page, above all the segments.                                      *)
THEOREM SegmentsFit ==
  ASSUME NEW noffH, Contiguous(noffH)
  PROVE  /\ \A part \in Parts :
              \A addr \in Nat : Covers(noffH[part], addr) =>
                /\ vpn(addr) < numPages(noffH)
                /\ addr < InitialStack(noffH)
         /\ InitialStack(noffH) \in Nat
         /\ InitialStack(noffH) < numPages(noffH) * PageSize
<1> DEFINE n == Sizes(noffH) + UserStackSize
           k == numPages(noffH)
<1>1. Sizes(noffH) \in Nat /\ n \in Nat
  BY SpaceAssumption, SMTT(20) DEF Contiguous, Sizes, Parts
<1>2. k = divRoundUp(n, PageSize)
  BY SMTT(20) DEF numPages, Sizes
<1>3. k \in Nat /\ n <= k * PageSize
  BY <1>1, <1>2, DivRoundUp, SpaceAssumption, SMTT(20)
<1>4. InitialStack(noffH) = k * PageSize - 16 /\ k * PageSize \in Nat
  BY <1>3, SpaceAssumption, SMTT(20) DEF InitialStack
<1>5. /\ Sizes(noffH) <= InitialStack(noffH)
      /\ InitialStack(noffH) \in Nat /\ InitialStack(noffH) < k * PageSize
  <2> DEFINE top == k * PageSize
  <2>1. n <= top /\ top \in Nat /\ InitialStack(noffH) = top - 16
    BY <1>3, <1>4, SMTT(20)
  <2> HIDE DEF top, k
  <2> QED
    BY <1>1, <2>1, SpaceAssumption, SMTT(20) DEF top
<1>6. ASSUME NEW part \in Parts, NEW addr \in Nat, Covers(noffH[part], addr)
      PROVE  vpn(addr) < k /\ addr < InitialStack(noffH)
  <2>1. addr < Sizes(noffH)
    BY <1>1, <1>6, SMTT(20) DEF Covers, Contiguous
  <2>2. addr < InitialStack(noffH) /\ addr < k * PageSize
    BY <1>1, <1>4, <1>5, <2>1, SMTT(20)
  <2>3. PageSize * vpn(addr) <= addr /\ vpn(addr) \in Nat
    BY DivMod, SpaceAssumption, SMTT(20) DEF vpn
  <2> HIDE DEF k
  <2>4. ASSUME k <= vpn(addr) PROVE FALSE
    <3>1. k * PageSize <= vpn(addr) * PageSize
      BY <1>3, <2>3, <2>4, SpaceAssumption, SMTT(20)
    <3> QED
      BY <1>3, <1>4, <2>2, <2>3, <3>1, SpaceAssumption, SMTT(20)
  <2> QED
    BY <1>3, <2>2, <2>3, <2>4, SMTT(20)
<1> QED
  BY <1>5, <1>6, SMTT(20)

-----------------------------------------------------------------------------
(* A page table the machine can have: pageTableSize entries with physical  *)
(* pages that are natural numbers, whatever the bits.                      *)
PageTableOK(m) ==
  /\ m.pageTableSize \in Nat
  /\ \A i \in 0 .. m.pageTableSize - 1 : m.pageTable[i].physicalPage \in Nat

(* An aligned word, halfword or byte does not cross the end of a page.     *)
LEMMA AlignedInPage ==
  ASSUME NEW virtAddr \in Nat, NEW size \in {1, 2, 4},
         virtAddr % size = 0, PageSize % 4 = 0
  PROVE  (virtAddr % PageSize) + size <= PageSize
<1> DEFINE off == virtAddr % PageSize
           p == vpn(virtAddr)
           a == virtAddr \div size
<1>1. /\ off \in Nat /\ p \in Nat
      /\ virtAddr = PageSize * p + off /\ off < PageSize
  BY DivMod, SpaceAssumption, SMTT(20) DEF vpn
<1>2. a \in Nat /\ virtAddr = size * a
  BY DivMod, SMTT(20)
<1>3. PICK b \in Nat : PageSize = size * b
  <2>1. PageSize = 4 * (PageSize \div 4) /\ PageSize \div 4 \in Nat
    BY DivMod, SpaceAssumption, SMTT(20)
  <2>2. CASE size = 4
    BY <2>1, <2>2
  <2>3. CASE size = 2
    <3>1. PageSize = 2 * (2 * (PageSize \div 4)) /\ 2 * (PageSize \div 4) \in Nat
      BY <2>1, SMTT(20)
    <3> QED
      BY <2>3, <3>1
  <2>4. CASE size = 1
    <3>1. PageSize = 1 * PageSize /\ PageSize \in Nat
      BY SpaceAssumption, SMTT(20)
    <3> QED
      BY <2>4, <3>1
  <2>5. size = 1 \/ size = 2 \/ size = 4
    BY SMTT(20)
  <2> QED
    BY <2>2, <2>3, <2>4, <2>5
<1> HIDE DEF off, p, a
<1>4. b * p \in Nat /\ PageSize * p = size * (b * p)
  BY <1>1, <1>3, SMTT(20)
<1> DEFINE c == b * p
<1>5. c \in Nat /\ size * a = size * c + off
  BY <1>1, <1>2, <1>4, SMTT(20)
<1> HIDE DEF c
<1>6. off = size * (a - c) /\ off < size * b
  BY <1>1, <1>2, <1>3, <1>5, SMTT(20)
<1>7. CASE size = 1
  BY <1>1, <1>2, <1>3, <1>5, <1>6, <1>7, SMTT(20) DEF off
<1>8. CASE size = 2
  BY <1>1, <1>2, <1>3, <1>5, <1>6, <1>8, SMTT(20) DEF off
<1>9. CASE size = 4
  BY <1>1, <1>2, <1>3, <1>5, <1>6, <1>9, SMTT(20) DEF off
<1> QED
  BY <1>7, <1>8, <1>9, SMTT(20)

(* Machine::Translate: an access of 1, 2 or 4 bytes that raises no         *)
(* exception lies in the physical memory to its last byte, whatever the    *)
(* page table maps where.                                                  *)
THEOREM TranslationInMemory ==
  ASSUME NEW m, PageTableOK(m), PageSize % 4 = 0,
         NEW virtAddr \in Nat, NEW size \in {1, 2, 4}, NEW writing \in BOOLEAN,
         Translate(m, virtAddr, size, writing) = "NoException"
  PROVE  /\ PhysAddr(m, virtAddr) \in Nat
         /\ PhysAddr(m, virtAddr) + size <= MemorySize
<1> DEFINE p == m.pageTable[vpn(virtAddr)].physicalPage
           off == virtAddr % PageSize
<1>1. /\ virtAddr % size = 0 /\ ~ (vpn(virtAddr) >= m.pageTableSize)
      /\ ~ (p >= NumPhysPages)
  BY SMTT(20) DEF Translate
<1>2. vpn(virtAddr) \in Nat /\ off \in Nat
  BY DivMod, SpaceAssumption, SMTT(20) DEF vpn
<1>3. p \in Nat /\ p + 1 <= NumPhysPages
  <2>1. vpn(virtAddr) \in 0 .. m.pageTableSize - 1
    BY <1>1, <1>2, SMTT(20) DEF PageTableOK
  <2>2. p \in Nat
    BY <2>1, SMTT(20) DEF PageTableOK
  <2> HIDE DEF p
  <2> QED
    BY <1>1, <2>2, SpaceAssumption, SMTT(20)
<1>4. off + size <= PageSize
  BY <1>1, AlignedInPage, SMTT(20)
<1>5. PhysAddr(m, virtAddr) = p * PageSize + off
  BY SMTT(20) DEF PhysAddr
<1> HIDE DEF p, off
<1>6. (p + 1) * PageSize <= NumPhysPages * PageSize
  BY <1>3, SpaceAssumption, SMTT(20)
<1>7. (p + 1) * PageSize = p * PageSize + PageSize /\ p * PageSize \in Nat
  BY <1>3, SpaceAssumption, SMTT(20)
<1> DEFINE base == p * PageSize
<1>8. /\ base \in Nat /\ base + PageSize <= MemorySize
      /\ PhysAddr(m, virtAddr) = base + off
  BY <1>5, <1>6, <1>7, SpaceAssumption, SMTT(20) DEF MemorySize
<1>9. MemorySize \in Nat
  BY SpaceAssumption, SMTT(20) DEF MemorySize
<1> HIDE DEF base
<1> QED
  BY <1>2, <1>4, <1>8, <1>9, SpaceAssumption, SMTT(20)

-----------------------------------------------------------------------------
(***************************************************************************)
(* The file and socket calls, for tables of any size and any numbers of    *)
(* names, files and descriptors, whatever ids the program passes: until    *)
(* the table of sockets lets a stray CloseSoc pass, descriptors are        *)
(* neither leaked nor shared and an id stands for one open file until it   *)
(* is closed; the bytes of a file change only by the calls that may change *)
(* them.                                                                   *)
(***************************************************************************)
Records == [type : {0, 1}, filename : Names, file : Fds, currentOffset : Nat]

(* The types of what the calls go by. *)
CallTypes ==
  /\ inode \in [Names -> Inodes \cup {NULL}]
  /\ content \in [Inodes -> Seq(Bytes)]
  /\ fds \in [Fds -> Inodes \cup {SOCKET, NULL}]
  /\ openfile \in [Slots -> Records \cup {NULL}]
  /\ socket \in [SocketSlots -> Fds \cup {-1}]

(* The descriptors of the files and of the sockets are theirs alone. *)
Apart == DescriptorsOwned /\ held = {d \in Fds : fds[d] = SOCKET}

CInv == CallTypes /\ (~ strayed => Apart)

-----------------------------------------------------------------------------
(* UNIX's lowest free descriptor, and the table's first free slot: the     *)
(* least element of a set of natural numbers is one of them.               *)
LEMMA MinLemma ==
  ASSUME NEW T, T \subseteq Nat, T # {}
  PROVE  Min(T) \in T
<1>1. PICK m \in T : \A k \in T : ~ (<<k, m>> \in OpToRel(<, Nat))
  BY WFMin, NatLessThanWellFounded
<1>2. \A k \in T : ~ (k < m)
  BY <1>1 DEF OpToRel
<1>3. \A k \in T : m =< k
  BY <1>2, SMTT(20)
<1> QED
  BY <1>3 DEF Min

(* The smaller and the larger of two numbers.                              *)
LEMMA OfTwo ==
  ASSUME NEW a \in Nat, NEW b \in Nat
  PROVE  /\ Min({a, b}) \in {a, b} /\ Min({a, b}) =< a /\ Min({a, b}) =< b
         /\ Max({a, b}) \in {a, b} /\ Max({a, b}) >= a /\ Max({a, b}) >= b
<1>1. \E x \in {a, b} : \A y \in {a, b} : x =< y
  <2>1. CASE a =< b
    BY <2>1, SMTT(20)
  <2>2. CASE b =< a
    BY <2>2, SMTT(20)
  <2> QED
    BY <2>1, <2>2, SMTT(20)
<1>2. \E x \in {a, b} : \A y \in {a, b} : x >= y
  <2>1. CASE a =< b
    BY <2>1, SMTT(20)
  <2>2. CASE b =< a
    BY <2>2, SMTT(20)
  <2> QED
    BY <2>1, <2>2, SMTT(20)
<1>3. Min({a, b}) \in {a, b} /\ \A y \in {a, b} : Min({a, b}) =< y
  BY <1>1 DEF Min
<1>4. Max({a, b}) \in {a, b} /\ \A y \in {a, b} : Max({a, b}) >= y
  BY <1>2 DEF Max
<1> QED
  BY <1>3, <1>4

(* FileSystem::findIndexFree finds a slot that is free.                    *)
LEMMA FreeSlot ==
  ASSUME findIndexFree # -1
  PROVE  findIndexFree \in Slots /\ openfile[findIndexFree] = NULL
<1> DEFINE free == {i \in 2 .. MaxFile - 1 : openfile[i] = NULL}
<1>1. free # {} /\ findIndexFree = Min(free)
  BY DEF findIndexFree
<1>2. free \subseteq Nat /\ MaxFile \in Nat
  BY FileCallsAssumption, SMTT(20)
<1>3. Min(free) \in free
  BY <1>1, <1>2, MinLemma
<1> QED
  BY <1>1, <1>2, <1>3, SMTT(20) DEF Slots

(* A user's buffer is a sequence of bytes, and so is its copy.             *)
LEMMA BufferLemma ==
  ASSUME NEW user \in Buffers
  PROVE  /\ user \in Seq(Bytes) /\ Len(user) \in Nat
         /\ User2System(user) \in Seq(Bytes) /\ Len(User2System(user)) = Len(user)
<1>1. PICK n \in 1 .. MaxSize : user \in [1 .. n -> Bytes]
  BY DEF Buffers
<1>2. n \in Nat
  BY FileCallsAssumption, SMTT(20)
<1>3. user \in Seq(Bytes) /\ Len(user) = n /\ DOMAIN user = 1 .. n
  BY <1>1, <1>2, SMTT(20)
<1>4. User2System(user) \in [1 .. n -> Bytes]
  BY <1>1, <1>3, FileCallsAssumption DEF User2System
<1>5. User2System(user) \in Seq(Bytes) /\ Len(User2System(user)) = n
  BY <1>2, <1>4, SMTT(20)
<1> QED
  BY <1>2, <1>3, <1>5

(* OpenFile::ReadAt returns a number of bytes, none beyond the end.        *)
LEMMA ReadLemma ==
  ASSUME NEW bytes \in Seq(Bytes), NEW size \in Nat, NEW position \in Nat
  PROVE  Len(ReadAt(bytes, size, position)) \in Nat
<1> DEFINE last == Min({Len(bytes), position + size})
<1>1. Len(bytes) \in Nat /\ \A i \in 1 .. Len(bytes) : bytes[i] \in Bytes
  BY LenProperties, ElementOfSeq
<1>2. last \in Nat /\ last =< Len(bytes)
  BY <1>1, OfTwo, SMTT(20)
<1> HIDE DEF last
<1>3. \A i \in position + 1 .. last : bytes[i] \in Bytes
  BY <1>1, <1>2, SMTT(20)
<1>4. SubSeq(bytes, position + 1, last) \in Seq(Bytes)
  BY <1>2, <1>3, SubSeqProperties, SMTT(20)
<1> QED
  BY <1>4, LenProperties DEF ReadAt, last

(* OpenFile::WriteAt changes the bytes at the position, and no others; the *)
(* file does not become shorter.                                           *)
LEMMA WriteLemma ==
  ASSUME NEW bytes \in Seq(Bytes), NEW buf \in Seq(Bytes), NEW position \in Nat
  PROVE  LET r == WriteAt(bytes, buf, position)
         IN  /\ r \in Seq(Bytes) /\ Len(r) >= Len(bytes)
             /\ \A k \in DOMAIN bytes :
                  k - position \notin 1 .. Len(buf) => r[k] = bytes[k]
<1> DEFINE n == Max({Len(bytes), position + Len(buf)})
           r == WriteAt(bytes, buf, position)
<1>1. /\ Len(bytes) \in Nat /\ Len(buf) \in Nat
      /\ DOMAIN bytes = 1 .. Len(bytes) /\ DOMAIN buf = 1 .. Len(buf)
      /\ \A i \in 1 .. Len(bytes) : bytes[i] \in Bytes
      /\ \A i \in 1 .. Len(buf) : buf[i] \in Bytes
  BY LenProperties, ElementOfSeq
<1>2. n \in Nat /\ n >= Len(bytes)
  <2>1. position + Len(buf) \in Nat
    BY <1>1, SMTT(20)
  <2>2. n \in {Len(bytes), position + Len(buf)} /\ n >= Len(bytes)
    BY <1>1, <2>1, OfTwo
  <2> QED
    BY <1>1, <2>1, <2>2
<1>3. r = [i \in 1 .. n |->
             IF i - position \in DOMAIN buf THEN buf[i - position]
             ELSE IF i \in DOMAIN bytes THEN bytes[i] ELSE 0]
  BY DEF WriteAt
<1> HIDE DEF n, r
<1>4. r \in [1 .. n -> Bytes]
  BY <1>1, <1>3, FileCallsAssumption, SMTT(20)
<1>5. r \in Seq(Bytes) /\ Len(r) = n
  BY <1>2, <1>4, SMTT(20)
<1>6. \A k \in DOMAIN bytes : k - position \notin 1 .. Len(buf) => r[k] = bytes[k]
  BY <1>1, <1>2, <1>3, SMTT(20)
<1> QED
  BY <1>1, <1>2, <1>5, <1>6 DEF r

-----------------------------------------------------------------------------
(* What an id that is open stands for.                                     *)
LEMMA OpenTypes ==
  ASSUME CInv, NEW id, IsOpen(id)
  PROVE  /\ id \in Slots /\ openfile[id] \in Records /\ openfile[id] # NULL
         /\ openfile[id].file \in Fds /\ openfile[id].currentOffset \in Nat
<1>1. id \in Slots /\ openfile[id] \in Records /\ openfile[id] # NULL
  BY DEF IsOpen, CInv, CallTypes
<1> QED
  BY <1>1 DEF Records

LEMMA OpenLemma ==
  ASSUME CInv, NEW id, Seekable(id)
  PROVE  /\ fds[openfile[id].file] \in Inodes
         /\ ContentOf(id) \in Seq(Bytes) /\ Len(ContentOf(id)) \in Nat
<1>1. fds[openfile[id].file] \in Inodes
  BY DEF Seekable
<1>2. ContentOf(id) \in Seq(Bytes)
  BY <1>1 DEF ContentOf, CInv, CallTypes
<1> QED
  BY <1>1, <1>2, LenProperties

(* A call that only moves the offset of an open file.                      *)
LEMMA Moves ==
  ASSUME CInv, NEW id, IsOpen(id), NEW x \in Nat,
         openfile' = [openfile EXCEPT ![id].currentOffset = x]
  PROVE  /\ openfile' \in [Slots -> Records \cup {NULL}]
         /\ \A i \in Slots : i # id => openfile'[i] = openfile[i]
         /\ openfile'[id] = [openfile[id] EXCEPT !.currentOffset = x]
         /\ openfile'[id] # NULL /\ openfile'[id].file = openfile[id].file
         /\ openfile'[id].currentOffset = x
<1>1. id \in Slots /\ openfile[id] \in Records /\ openfile \in [Slots -> Records \cup {NULL}]
  BY OpenTypes DEF CInv, CallTypes
<1>2. /\ openfile'[id] = [openfile[id] EXCEPT !.currentOffset = x]
      /\ \A i \in Slots : i # id => openfile'[i] = openfile[i]
  BY <1>1
<1>3. /\ openfile'[id] \in Records /\ openfile'[id].file = openfile[id].file
      /\ openfile'[id].currentOffset = x
  BY <1>1, <1>2 DEF Records
<1>4. openfile'[id] # NULL
  BY <1>3, NullAssumption DEF Records
<1>5. openfile' \in [Slots -> Records \cup {NULL}]
  BY <1>1, <1>2, <1>3
<1> QED
  BY <1>2, <1>3, <1>4, <1>5

LEMMA MovesOwned ==
  ASSUME CInv, Apart, NEW id, IsOpen(id), NEW x \in Nat,
         openfile' = [openfile EXCEPT ![id].currentOffset = x],
         UNCHANGED <<fds, held>>
  PROVE  Apart'
<1>1. \A i \in Slots : /\ openfile'[i] = NULL <=> openfile[i] = NULL
                       /\ openfile[i] # NULL => openfile'[i].file = openfile[i].file
  BY Moves DEF IsOpen
<1>2. \A d \in Fds : fds[d] \in Inodes =>
        \E i \in Slots : openfile'[i] # NULL /\ openfile'[i].file = d
  <2>1. DescriptorsOwned
    BY DEF Apart
  <2> QED
    BY <1>1, <2>1 DEF DescriptorsOwned
<1>3. \A i, j \in Slots : openfile'[i] # NULL /\ openfile'[j] # NULL =>
        /\ fds[openfile'[i].file] \in Inodes
        /\ openfile'[i].file = openfile'[j].file => i = j
  BY <1>1, SMTT(20) DEF Apart, DescriptorsOwned
<1>4. fds' = fds /\ held' = held
  OBVIOUS
<1> QED
  BY <1>2, <1>3, <1>4, SMTT(20) DEF Apart, DescriptorsOwned

(* What Read, Write and Seek do to the table.                              *)
LEMMA ReadStep ==
  ASSUME CInv, NEW id, NEW user \in Buffers, Read(user, id)
  PROVE  /\ UNCHANGED <<inode, content, fds>>
         /\ \/ UNCHANGED openfile
            \/ /\ IsOpen(id) /\ call' = <<"Read", id>>
               /\ \E x \in Nat : openfile' = [openfile EXCEPT ![id].currentOffset = x]
<1>1. CASE Seekable(id) /\ ~ (id < 0 \/ id > MaxFile) /\ id # 0
  <2> DEFINE n == Len(ReadAt(ContentOf(id), Len(user), openfile[id].currentOffset))
  <2>1. n \in Nat /\ openfile[id].currentOffset + n \in Nat
    BY <1>1, OpenTypes, OpenLemma, BufferLemma, ReadLemma, SMTT(20) DEF Seekable
  <2>2. /\ UNCHANGED unixVars /\ call' = <<"Read", id>>
        /\ openfile' = [openfile EXCEPT ![id].currentOffset = @ + n]
    BY <1>1 DEF Read, Returns, Advance
  <2>3. openfile' = [openfile EXCEPT ![id].currentOffset = openfile[id].currentOffset + n]
    BY <2>2
  <2> HIDE DEF n
  <2> QED
    BY <1>1, <2>1, <2>2, <2>3 DEF unixVars, Seekable
<1>2. CASE ~ (Seekable(id) /\ ~ (id < 0 \/ id > MaxFile) /\ id # 0)
  BY <1>2 DEF Read, Crashes, unixVars
<1> QED
  BY <1>1, <1>2

LEMMA WriteStep ==
  ASSUME CInv, NEW id, NEW user \in Buffers, Write(user, id)
  PROVE  /\ UNCHANGED <<inode, fds>>
         /\ \/ UNCHANGED <<content, openfile>>
            \/ /\ Seekable(id) /\ openfile[id].type # 1
               /\ call' = <<"Write", id>> /\ r2' = Len(user)
               /\ \E x \in Nat : openfile' = [openfile EXCEPT ![id].currentOffset = x]
               /\ content' = [content EXCEPT ![fds[openfile[id].file]] =
                    WriteAt(content[fds[openfile[id].file]], User2System(user),
                            openfile[id].currentOffset)]
<1>1. CASE Seekable(id) /\ ~ (id < 0 \/ id > MaxFile) /\ id # 1 /\ openfile[id].type # 1
  <2>1. /\ UNCHANGED <<inode, fds>> /\ call' = <<"Write", id>> /\ r2' = Len(user)
        /\ openfile' = [openfile EXCEPT ![id].currentOffset = @ + Len(user)]
        /\ content' = [content EXCEPT ![fds[openfile[id].file]] =
             WriteAt(@, User2System(user), openfile[id].currentOffset)]
    BY <1>1 DEF Write, Returns, Advance, Seekable
  <2>2. openfile[id].currentOffset + Len(user) \in Nat
    BY <1>1, OpenTypes, BufferLemma, SMTT(20) DEF Seekable
  <2>3. openfile' = [openfile EXCEPT ![id].currentOffset =
                       openfile[id].currentOffset + Len(user)]
    BY <2>1
  <2>4. content' = [content EXCEPT ![fds[openfile[id].file]] =
          WriteAt(content[fds[openfile[id].file]], User2System(user),
                  openfile[id].currentOffset)]
    BY <2>1
  <2> QED
    BY <1>1, <2>1, <2>2, <2>3, <2>4
<1>2. CASE ~ (Seekable(id) /\ ~ (id < 0 \/ id > MaxFile) /\ id # 1 /\ openfile[id].type # 1)
  BY <1>2 DEF Write, Crashes, unixVars
<1> QED
  BY <1>1, <1>2

LEMMA SeekStep ==
  ASSUME CInv, NEW id, NEW pos \in Int, Seek(pos, id)
  PROVE  /\ UNCHANGED <<inode, content, fds>>
         /\ \/ UNCHANGED openfile
            \/ /\ IsOpen(id) /\ call' = <<"Seek", id>>
               /\ \E x \in Nat : openfile' = [openfile EXCEPT ![id].currentOffset = x]
<1>1. CASE Seekable(id)
  <2>1. PICK to : to = IF pos = -1 THEN Len(ContentOf(id)) ELSE pos
    OBVIOUS
  <2>2. /\ UNCHANGED unixVars
        /\ \/ UNCHANGED openfile
           \/ /\ to \in 0 .. Len(ContentOf(id)) /\ call' = <<"Seek", id>>
              /\ openfile' = [openfile EXCEPT ![id].currentOffset = to]
    BY <1>1, <2>1 DEF Seek, Returns
  <2>3. to \in 0 .. Len(ContentOf(id)) => to \in Nat
    BY <1>1, OpenLemma, SMTT(20)
  <2> QED
    BY <1>1, <2>2, <2>3 DEF unixVars, Seekable
<1>2. CASE ~ Seekable(id)
  BY <1>2 DEF Seek, Crashes, unixVars
<1> QED
  BY <1>1, <1>2

-----------------------------------------------------------------------------
(* SC_Open and SC_Close keep the table and the descriptors together.       *)
LEMMA OpenStep ==
  ASSUME CInv, NEW n \in Names, NEW type, Open(n, type)
  PROVE  /\ UNCHANGED <<inode, content>>
         /\ \/ UNCHANGED <<fds, openfile>>
            \/ \E d \in Fds, k \in Slots, r \in Records :
                 /\ fds[d] = NULL /\ openfile[k] = NULL
                 /\ inode[n] \in Inodes /\ r.file = d
                 /\ fds' = [fds EXCEPT ![d] = inode[n]]
                 /\ openfile' = [openfile EXCEPT ![k] = r]
<1> DEFINE k == findIndexFree
           d == Min(FreeFds)
           r == [type |-> type, filename |-> n, file |-> d, currentOffset |-> 0]
<1>1. UNCHANGED <<inode, content>>
  BY DEF Open
<1>2. CASE type \notin {0, 1} \/ k = -1
  BY <1>1, <1>2 DEF Open
<1>3. CASE type \in {0, 1} /\ k # -1 /\ (inode[n] = NULL \/ FreeFds = {})
  <2>1. openfile' = [openfile EXCEPT ![k] = NULL] /\ UNCHANGED fds
    BY <1>3 DEF Open
  <2>2. k \in Slots /\ openfile[k] = NULL /\ openfile \in [Slots -> Records \cup {NULL}]
    BY <1>3, FreeSlot DEF CInv, CallTypes
  <2>3. openfile' = openfile
    BY <2>1, <2>2
  <2> QED
    BY <1>1, <2>1, <2>3
<1>4. CASE type \in {0, 1} /\ k # -1 /\ inode[n] # NULL /\ FreeFds # {}
  <2>1. k \in Slots /\ openfile[k] = NULL
    BY <1>4, FreeSlot
  <2>2. FreeFds \subseteq Nat
    BY FileCallsAssumption DEF FreeFds
  <2>3. d \in Fds /\ fds[d] = NULL
    BY <1>4, <2>2, MinLemma DEF FreeFds
  <2>4. fds' = [fds EXCEPT ![d] = inode[n]] /\ openfile' = [openfile EXCEPT ![k] = r]
    BY <1>4 DEF Open
  <2>5. inode[n] \in Inodes
    BY <1>4 DEF CInv, CallTypes
  <2> HIDE DEF d, k
  <2>6. r \in Records /\ r.file = d
    BY <1>4, <2>3 DEF Records
  <2> HIDE DEF r
  <2> QED
    BY <1>1, <2>1, <2>3, <2>4, <2>5, <2>6
<1> QED
  BY <1>2, <1>3, <1>4

LEMMA OpenOwned ==
  ASSUME CInv, Apart, NEW d \in Fds, NEW k \in Slots, NEW r \in Records, NEW i \in Inodes,
         fds[d] = NULL, openfile[k] = NULL, r.file = d,
         fds' = [fds EXCEPT ![d] = i], openfile' = [openfile EXCEPT ![k] = r],
         UNCHANGED held
  PROVE  Apart'
<1>1. /\ fds \in [Fds -> Inodes \cup {SOCKET, NULL}]
      /\ openfile \in [Slots -> Records \cup {NULL}]
      /\ DescriptorsOwned /\ held = {f \in Fds : fds[f] = SOCKET}
  BY DEF CInv, CallTypes, Apart
<1>2. /\ fds'[d] = i /\ \A f \in Fds : f # d => fds'[f] = fds[f]
      /\ openfile'[k] = r /\ \A j \in Slots : j # k => openfile'[j] = openfile[j]
  BY <1>1
<1>3. r # NULL /\ i # SOCKET /\ NULL # SOCKET /\ NULL \notin Inodes
  BY NullAssumption, SocketCallsAssumption DEF Records
<1>4. \A j \in Slots : openfile[j] # NULL => openfile[j].file # d
  BY <1>1, <1>3, SMTT(20) DEF DescriptorsOwned
<1>5. \A f \in Fds : fds'[f] \in Inodes =>
        \E j \in Slots : openfile'[j] # NULL /\ openfile'[j].file = f
  BY <1>1, <1>2, <1>3, SMTT(20) DEF DescriptorsOwned
<1>6. \A j \in Slots : openfile[j] # NULL => openfile[j].file \in Fds
  BY <1>1 DEF Records
<1>7. \A j \in Slots : openfile'[j] # NULL => fds'[openfile'[j].file] \in Inodes
  BY <1>1, <1>2, <1>4, <1>6, SMTT(20) DEF DescriptorsOwned
<1>8. \A j, l \in Slots : openfile'[j] # NULL /\ openfile'[l] # NULL =>
        (openfile'[j].file = openfile'[l].file => j = l)
  BY <1>1, <1>2, <1>4, SMTT(20) DEF DescriptorsOwned
<1>9. DescriptorsOwned'
  BY <1>5, <1>7, <1>8 DEF DescriptorsOwned
<1>10. held' = {f \in Fds : fds'[f] = SOCKET}
  BY <1>1, <1>2, <1>3
<1> QED
  BY <1>9, <1>10 DEF Apart

LEMMA CloseOwned ==
  ASSUME CInv, Apart, NEW id, IsOpen(id),
         fds' = [fds EXCEPT ![openfile[id].file] = NULL],
         openfile' = [openfile EXCEPT ![id] = NULL], UNCHANGED held
  PROVE  Apart'
<1>1. /\ fds \in [Fds -> Inodes \cup {SOCKET, NULL}]
      /\ openfile \in [Slots -> Records \cup {NULL}]
      /\ DescriptorsOwned /\ held = {f \in Fds : fds[f] = SOCKET}
  BY DEF CInv, CallTypes, Apart
<1>2. PICK d \in Fds : d = openfile[id].file
  BY OpenTypes
<1>3. id \in Slots /\ openfile[id] # NULL /\ fds[d] \in Inodes
  BY <1>1, <1>2, OpenTypes DEF DescriptorsOwned
<1>4. /\ fds'[d] = NULL /\ \A f \in Fds : f # d => fds'[f] = fds[f]
      /\ openfile'[id] = NULL /\ \A j \in Slots : j # id => openfile'[j] = openfile[j]
  BY <1>1, <1>2, <1>3
<1>5. SOCKET \notin Inodes /\ NULL # SOCKET /\ NULL \notin Inodes
  BY NullAssumption, SocketCallsAssumption
<1>6. \A j \in Slots : openfile[j] # NULL => openfile[j].file \in Fds
  BY <1>1 DEF Records
<1>7. \A j \in Slots : j # id /\ openfile[j] # NULL => openfile[j].file # d
  BY <1>1, <1>2, <1>3 DEF DescriptorsOwned
<1>8. \A f \in Fds : fds'[f] \in Inodes =>
        \E j \in Slots : openfile'[j] # NULL /\ openfile'[j].file = f
  BY <1>1, <1>2, <1>3, <1>4, <1>5, SMTT(20) DEF DescriptorsOwned
<1>9. \A j \in Slots : openfile'[j] # NULL => fds'[openfile'[j].file] \in Inodes
  BY <1>1, <1>4, <1>6, <1>7, SMTT(20) DEF DescriptorsOwned
<1>10. \A j, l \in Slots : openfile'[j] # NULL /\ openfile'[l] # NULL =>
         (openfile'[j].file = openfile'[l].file => j = l)
  BY <1>1, <1>4, SMTT(20) DEF DescriptorsOwned
<1>11. DescriptorsOwned'
  BY <1>8, <1>9, <1>10 DEF DescriptorsOwned
<1>12. held' = {f \in Fds : fds'[f] = SOCKET}
  BY <1>1, <1>3, <1>4, <1>5
<1> QED
  BY <1>11, <1>12 DEF Apart

LEMMA CloseStep ==
  ASSUME CInv, NEW id, Close(id)
  PROVE  /\ UNCHANGED inode
         /\ \/ UNCHANGED <<content, fds, openfile>>
            \/ /\ IsOpen(id) /\ call' = <<"Close", id>> /\ Reclaim
               /\ fds' = [fds EXCEPT ![openfile[id].file] = NULL]
               /\ openfile' = [openfile EXCEPT ![id] = NULL]
<1>1. CASE IsOpen(id) /\ fds[openfile[id].file] # NULL
  BY <1>1 DEF Close, IsOpen, Returns
<1>2. CASE ~ (IsOpen(id) /\ fds[openfile[id].file] # NULL)
  BY <1>2 DEF Close, IsOpen, Crashes, unixVars
<1> QED
  BY <1>1, <1>2

(* FileSystem::Create gives a new name a file that nobody refers to, if it *)
(* does not crash.                                                         *)
LEMMA CreateStep ==
  ASSUME CInv, NEW n \in Names, Create(n)
  PROVE  /\ UNCHANGED <<fds, openfile>> /\ call' = <<"Create", n>>
         /\ \/ UNCHANGED <<inode, content>>
            \/ \E i \in Inodes : /\ inode' = [inode EXCEPT ![n] = i]
                                 /\ content' = [content EXCEPT ![i] = <<>>]
<1>1. CASE FreeFds = {}
  BY <1>1 DEF Create, Crashes, unixVars
<1>2. CASE FreeFds # {} /\ inode[n] = NULL
  <2>1. FreeInodes # {} /\ FreeInodes \subseteq Nat /\ FreeInodes \subseteq Inodes
    BY <1>2, FileCallsAssumption DEF Create, FreeInodes
  <2>2. Min(FreeInodes) \in Inodes
    BY <2>1, MinLemma
  <2> QED
    BY <1>2, <2>2 DEF Create, Returns
<1>3. CASE FreeFds # {} /\ inode[n] # NULL
  <2>1. inode[n] \in Inodes
    BY <1>3 DEF CInv, CallTypes
  <2> QED
    BY <1>3, <2>1 DEF Create, Returns
<1> QED
  BY <1>1, <1>2, <1>3

(* A call that leaves the descriptors and the table alone.                 *)
LEMMA SameOwned ==
  ASSUME CInv, UNCHANGED <<fds, openfile, socketVars>>,
         inode' \in [Names -> Inodes \cup {NULL}], content' \in [Inodes -> Seq(Bytes)]
  PROVE  CInv'
  BY DEF CInv, CallTypes, Apart, DescriptorsOwned, socketVars

LEMMA ReclaimTypes ==
  ASSUME CInv, Reclaim
  PROVE  content' \in [Inodes -> Seq(Bytes)]
<1>1. <<>> \in Seq(Bytes)
  BY EmptySeq
<1>2. \A i \in Inodes : content[i] \in Seq(Bytes)
  BY DEF CInv, CallTypes
<1> QED
  BY <1>1, <1>2 DEF Reclaim

(* Every file call keeps the invariant.                                    *)
LEMMA FileCallStep ==
  ASSUME CInv, FileCall, UNCHANGED socketVars
  PROVE  CInv'
<1>1. /\ UNCHANGED <<socket, held, strayed>>
      /\ inode \in [Names -> Inodes \cup {NULL}] /\ content \in [Inodes -> Seq(Bytes)]
      /\ fds \in [Fds -> Inodes \cup {SOCKET, NULL}]
      /\ openfile \in [Slots -> Records \cup {NULL}]
  BY DEF socketVars, CInv, CallTypes
<1>2. ASSUME NEW n \in Names, Create(n) PROVE CInv'
  <2>1. UNCHANGED <<fds, openfile>> /\ <<>> \in Seq(Bytes)
    BY <1>2, CreateStep, EmptySeq
  <2>2. inode' \in [Names -> Inodes \cup {NULL}] /\ content' \in [Inodes -> Seq(Bytes)]
    BY <1>1, <1>2, <2>1, CreateStep
  <2> QED
    BY <2>1, <2>2, SameOwned
<1>3. ASSUME NEW n \in Names, Remove(n) PROVE CInv'
  <2>1. /\ UNCHANGED <<fds, openfile>> /\ Reclaim
        /\ inode' \in {inode, [inode EXCEPT ![n] = NULL]}
    BY <1>3 DEF Remove
  <2>2. inode' \in [Names -> Inodes \cup {NULL}]
    BY <1>1, <2>1
  <2> QED
    BY <2>1, <2>2, ReclaimTypes, SameOwned
<1>4. ASSUME NEW n \in Names, NEW type \in 0 .. 2, Open(n, type) PROVE CInv'
  <2>1. UNCHANGED <<inode, content>>
    BY <1>4, OpenStep
  <2>2. CASE UNCHANGED <<fds, openfile>>
    BY <1>1, <2>1, <2>2, SameOwned
  <2>3. ASSUME NEW d \in Fds, NEW k \in Slots, NEW r \in Records,
               fds[d] = NULL, openfile[k] = NULL, inode[n] \in Inodes, r.file = d,
               fds' = [fds EXCEPT ![d] = inode[n]],
               openfile' = [openfile EXCEPT ![k] = r]
        PROVE  CInv'
    <3>1. ~ strayed' => Apart'
      BY <1>1, <2>3, OpenOwned DEF CInv
    <3> QED
      BY <1>1, <2>1, <2>3, <3>1 DEF CInv, CallTypes
  <2> QED
    BY <1>4, <2>2, <2>3, OpenStep, SMTT(20)
<1>5. ASSUME NEW id, Close(id) PROVE CInv'
  <2>1. UNCHANGED inode
    BY <1>5, CloseStep
  <2>2. CASE UNCHANGED <<content, fds, openfile>>
    BY <1>1, <2>1, <2>2, SameOwned
  <2>3. CASE /\ IsOpen(id) /\ Reclaim
             /\ fds' = [fds EXCEPT ![openfile[id].file] = NULL]
             /\ openfile' = [openfile EXCEPT ![id] = NULL]
    <3>1. ~ strayed' => Apart'
      BY <1>1, <2>3, CloseOwned DEF CInv
    <3>2. fds' \in [Fds -> Inodes \cup {SOCKET, NULL}] /\ openfile' \in [Slots -> Records \cup {NULL}]
      BY <1>1, <2>3
    <3> QED
      BY <1>1, <2>1, <2>3, <3>1, <3>2, ReclaimTypes DEF CInv, CallTypes
  <2> QED
    BY <1>5, <2>2, <2>3, CloseStep
<1>6. ASSUME NEW id, IsOpen(id), NEW x \in Nat,
             openfile' = [openfile EXCEPT ![id].currentOffset = x],
             UNCHANGED <<inode, fds>>, content' \in [Inodes -> Seq(Bytes)]
      PROVE  CInv'
  <2>1. openfile' \in [Slots -> Records \cup {NULL}]
    BY <1>6, Moves
  <2>2. ~ strayed' => Apart'
    BY <1>1, <1>6, MovesOwned DEF CInv
  <2> QED
    BY <1>1, <1>6, <2>1, <2>2 DEF CInv, CallTypes
<1>7. ASSUME NEW id, NEW user \in Buffers, Read(user, id) PROVE CInv'
  <2>1. UNCHANGED <<inode, content, fds>>
    BY <1>7, ReadStep
  <2>2. CASE UNCHANGED openfile
    BY <1>1, <2>1, <2>2, SameOwned
  <2>3. CASE ~ UNCHANGED openfile
    <3>1. IsOpen(id) /\ \E x \in Nat : openfile' = [openfile EXCEPT ![id].currentOffset = x]
      BY <1>7, <2>3, ReadStep
    <3> QED
      BY <1>1, <1>6, <2>1, <3>1
  <2> QED
    BY <2>2, <2>3
<1>8. ASSUME NEW id, NEW user \in Buffers, Write(user, id) PROVE CInv'
  <2>1. UNCHANGED <<inode, fds>>
    BY <1>8, WriteStep
  <2>2. CASE UNCHANGED <<content, openfile>>
    BY <1>1, <2>1, <2>2, SameOwned
  <2>3. CASE ~ UNCHANGED <<content, openfile>>
    <3>1. /\ Seekable(id) /\ IsOpen(id)
          /\ \E x \in Nat : openfile' = [openfile EXCEPT ![id].currentOffset = x]
          /\ content' = [content EXCEPT ![fds[openfile[id].file]] =
               WriteAt(content[fds[openfile[id].file]], User2System(user),
                       openfile[id].currentOffset)]
      BY <1>8, <2>3, WriteStep DEF Seekable
    <3>2. PICK i \in Inodes : i = fds[openfile[id].file]
      BY <3>1, OpenLemma
    <3>3. WriteAt(content[i], User2System(user), openfile[id].currentOffset) \in Seq(Bytes)
      BY <1>1, <3>1, OpenTypes, BufferLemma, WriteLemma
    <3>4. content' \in [Inodes -> Seq(Bytes)]
      BY <1>1, <3>1, <3>2, <3>3
    <3> QED
      BY <1>6, <2>1, <3>1, <3>4
  <2> QED
    BY <2>2, <2>3
<1>9. ASSUME NEW id, NEW pos \in -1 .. MaxLength + 1, Seek(pos, id) PROVE CInv'
  <2>0. pos \in Int
    BY FileCallsAssumption, SMTT(20)
  <2>1. UNCHANGED <<inode, content, fds>>
    BY <1>9, <2>0, SeekStep
  <2>2. CASE UNCHANGED openfile
    BY <1>1, <2>1, <2>2, SameOwned
  <2>3. CASE ~ UNCHANGED openfile
    <3>1. IsOpen(id) /\ \E x \in Nat : openfile' = [openfile EXCEPT ![id].currentOffset = x]
      BY <1>9, <2>0, <2>3, SeekStep
    <3> QED
      BY <1>1, <1>6, <2>1, <3>1
  <2> QED
    BY <2>2, <2>3
<1> QED
  BY <1>2, <1>3, <1>4, <1>5, <1>7, <1>8, <1>9 DEF FileCall

-----------------------------------------------------------------------------
(* A socket call gives a free descriptor to a socket, or takes one that    *)
(* the program holds from it; the files' descriptors are not concerned.    *)
LEMMA SocketOwned ==
  ASSUME CInv, Apart, NEW d \in Fds,
         \/ fds[d] = NULL /\ fds' = [fds EXCEPT ![d] = SOCKET] /\ held' = held \cup {d}
         \/ fds[d] = SOCKET /\ fds' = [fds EXCEPT ![d] = NULL] /\ held' = held \ {d},
         UNCHANGED openfile
  PROVE  Apart'
<1>1. /\ fds \in [Fds -> Inodes \cup {SOCKET, NULL}]
      /\ openfile \in [Slots -> Records \cup {NULL}]
      /\ DescriptorsOwned /\ held = {f \in Fds : fds[f] = SOCKET}
  BY DEF CInv, CallTypes, Apart
<1>2. SOCKET \notin Inodes /\ NULL # SOCKET /\ NULL \notin Inodes
  BY NullAssumption, SocketCallsAssumption
<1>3. \A f \in Fds : f # d => fds'[f] = fds[f]
  BY <1>1
<1>4. fds[d] \notin Inodes /\ fds'[d] \notin Inodes
  BY <1>1, <1>2
<1>5. \A f \in Fds : fds'[f] \in Inodes <=> fds[f] \in Inodes
  BY <1>3, <1>4
<1>6. \A j \in Slots : openfile[j] # NULL => openfile[j].file \in Fds
  BY <1>1 DEF Records
<1>7. DescriptorsOwned'
  BY <1>1, <1>5, <1>6 DEF DescriptorsOwned
<1>8. held' = {f \in Fds : fds'[f] = SOCKET}
  BY <1>1, <1>2, <1>3
<1> QED
  BY <1>7, <1>8 DEF Apart

(* What SC_SocketTCP and SC_Accept do to the descriptors ...               *)
LEMMA SocketOpens ==
  ASSUME CInv, SocketTCP \/ \E id \in Ids : Accept(id)
  PROVE  /\ UNCHANGED <<inode, content, openfile, strayed>>
         /\ \/ UNCHANGED <<fds, socketVars>>
            \/ \E d \in Fds : /\ fds[d] = NULL /\ fds' = [fds EXCEPT ![d] = SOCKET]
                              /\ held' = held \cup {d}
                              /\ socket' \in [SocketSlots -> Fds \cup {-1}]
<1>1. FreeFds # {} => Min(FreeFds) \in Fds /\ fds[Min(FreeFds)] = NULL
  <2>1. FreeFds \subseteq Nat
    BY FileCallsAssumption DEF FreeFds
  <2> QED
    BY <2>1, MinLemma DEF FreeFds
<1>2. socket \in [SocketSlots -> Fds \cup {-1}]
  BY DEF CInv, CallTypes
<1>3. CASE SocketTCP
  <2>1. FreeFds # {} =>
          [socket EXCEPT ![findIndexSocketFree] = Min(FreeFds)]
            \in [SocketSlots -> Fds \cup {-1}]
    BY <1>1, <1>2
  <2> QED
    BY <1>1, <1>3, <2>1 DEF SocketTCP, socketVars
<1>4. CASE \E id \in Ids : Accept(id)
  BY <1>1, <1>2, <1>4 DEF Accept, socketVars
<1> QED
  BY <1>3, <1>4

(* ... and SC_CloseSoc.                                                    *)
LEMMA SocketCloses ==
  ASSUME CInv, NEW id \in Ids, CloseSoc(id)
  PROVE  /\ UNCHANGED <<inode, openfile>>
         /\ \/ UNCHANGED <<content, fds, socketVars>>
            \/ /\ id \in Fds /\ fds' = [fds EXCEPT ![id] = NULL] /\ held' = held \ {id}
               /\ strayed' = (strayed \/ id \notin held) /\ Reclaim
               /\ socket' \in [SocketSlots -> Fds \cup {-1}]
<1>1. socket \in [SocketSlots -> Fds \cup {-1}]
  BY DEF CInv, CallTypes
<1>2. CASE findIndexSocket(id) = -1
  BY <1>2 DEF CloseSoc, unixVars
<1>3. CASE findIndexSocket(id) # -1
  <2>1. id \in Fds /\ findIndexSocket(id) = id
    BY <1>1, <1>3 DEF findIndexSocket
  <2>2. [socket EXCEPT ![id] = -1] \in [SocketSlots -> Fds \cup {-1}]
    BY <1>1
  <2> QED
    BY <1>1, <1>3, <2>1, <2>2 DEF CloseSoc
<1> QED
  BY <1>2, <1>3

(* The other socket calls change nothing but what they return.             *)
LEMMA SocketTransfers ==
  ASSUME SocketCall, ~ SocketTCP, \A id \in Ids : ~ CloseSoc(id) /\ ~ Accept(id)
  PROVE  UNCHANGED <<inode, content, fds, openfile, socketVars>>
<1>1. NoTableChanges
  BY DEF SocketCall, BindOrListen, Connect, Send, Receive
<1> QED
  BY <1>1 DEF NoTableChanges, unixVars

LEMMA CallsInit == Init => CInv
<1> SUFFICES ASSUME Init PROVE CInv
  OBVIOUS
<1>1. CallTypes
  BY EmptySeq DEF Init, FileInit, CallTypes
<1>2. NULL # SOCKET /\ NULL \notin Inodes
  BY NullAssumption, SocketCallsAssumption
<1>3. Apart
  BY <1>2 DEF Init, FileInit, DescriptorsOwned, Apart
<1> QED
  BY <1>1, <1>3 DEF CInv

LEMMA CallsStep == CInv /\ [Next]_vars => CInv'
<1> SUFFICES ASSUME CInv, [Next]_vars PROVE CInv'
  OBVIOUS
<1>1. /\ inode \in [Names -> Inodes \cup {NULL}] /\ content \in [Inodes -> Seq(Bytes)]
      /\ fds \in [Fds -> Inodes \cup {SOCKET, NULL}]
      /\ openfile \in [Slots -> Records \cup {NULL}]
  BY DEF CInv, CallTypes
<1>2. CASE UNCHANGED <<inode, content, fds, openfile, socketVars>>
  BY <1>1, <1>2, SameOwned
<1>3. CASE SocketTCP \/ \E id \in Ids : Accept(id)
  <2>1. UNCHANGED <<inode, content, openfile, strayed>>
    BY <1>3, SocketOpens
  <2>2. ASSUME NEW d \in Fds, fds[d] = NULL, fds' = [fds EXCEPT ![d] = SOCKET],
               held' = held \cup {d}, socket' \in [SocketSlots -> Fds \cup {-1}]
        PROVE  CInv'
    <3>1. ~ strayed' => Apart'
      BY <2>1, <2>2, SocketOwned DEF CInv
    <3>2. fds' \in [Fds -> Inodes \cup {SOCKET, NULL}]
      BY <1>1, <2>2
    <3> QED
      BY <1>1, <2>1, <2>2, <3>1, <3>2 DEF CInv, CallTypes
  <2> QED
    BY <1>2, <1>3, <2>1, <2>2, SocketOpens
<1>4. ASSUME NEW id \in Ids, CloseSoc(id) PROVE CInv'
  <2>1. UNCHANGED <<inode, openfile>>
    BY <1>4, SocketCloses
  <2>2. ASSUME id \in Fds, fds' = [fds EXCEPT ![id] = NULL], held' = held \ {id},
               strayed' = (strayed \/ id \notin held), Reclaim,
               socket' \in [SocketSlots -> Fds \cup {-1}]
        PROVE  CInv'
    <3>1. ASSUME ~ strayed' PROVE Apart'
      <4>1. Apart /\ fds[id] = SOCKET
        BY <2>2, <3>1 DEF CInv, Apart
      <4> QED
        BY <2>1, <2>2, <4>1, SocketOwned
    <3>2. fds' \in [Fds -> Inodes \cup {SOCKET, NULL}]
      BY <1>1, <2>2
    <3> QED
      BY <1>1, <2>1, <2>2, <3>1, <3>2, ReclaimTypes DEF CInv, CallTypes
  <2> QED
    BY <1>2, <1>4, <2>1, <2>2, SocketCloses
<1>5. CASE SocketCall
  BY <1>2, <1>3, <1>4, <1>5, SocketTransfers
<1>6. CASE FileCall /\ UNCHANGED socketVars
  BY <1>6, FileCallStep
<1>7. CASE UNCHANGED vars
  BY <1>2, <1>7 DEF vars, fileVars, unixVars
<1> QED
  BY <1>5, <1>6, <1>7 DEF Next

(* As long as the table of sockets lets no CloseSoc pass that is not of a  *)
(* socket of the program, no sequence of file and socket calls leaks a     *)
(* descriptor, gives one to two slots, closes one that a slot uses, or     *)
(* mixes up a file's with a socket's (SC_Open, SC_Close, SC_SocketTCP,     *)
(* SC_Accept, SC_CloseSoc).                                                *)
THEOREM DescriptorsCorrect == Spec => []SocketsAndFilesApart
<1>1. CInv => SocketsAndFilesApart
  BY DEF CInv, Apart, SocketsAndFilesApart
<1> QED
  BY <1>1, CallsInit, CallsStep, PTL DEF Spec

-----------------------------------------------------------------------------
(* What one step may do to an open file: to its entry, and to what its     *)
(* descriptor is open on.                                                  *)
EntryKept ==
  \A i \in Slots :
    openfile[i] # NULL /\ call' # <<"Close", i>> /\ openfile'[i] # openfile[i] =>
      /\ call' \in {"Read", "Write", "Seek"} \X {i}
      /\ openfile'[i] = [openfile[i] EXCEPT !.currentOffset =
                                              openfile'[i].currentOffset]

FdKept ==
  ~ strayed' => \A i \in Slots : openfile[i] # NULL /\ call' # <<"Close", i>> =>
                  fds'[openfile[i].file] = fds[openfile[i].file]

(* A call that moves an offset moves that of its own id.                   *)
LEMMA MovesKept ==
  ASSUME CInv, NEW id, IsOpen(id), NEW x \in Nat,
         openfile' = [openfile EXCEPT ![id].currentOffset = x],
         NEW name \in {"Read", "Write", "Seek"}, call' = <<name, id>>
  PROVE  EntryKept
<1>1. \A i \in Slots : openfile'[i] # openfile[i] => i = id
  BY Moves
<1>2. openfile'[id] = [openfile[id] EXCEPT !.currentOffset = openfile'[id].currentOffset]
  <2>1. /\ openfile'[id] = [openfile[id] EXCEPT !.currentOffset = x]
        /\ openfile'[id].currentOffset = x
    BY Moves
  <2> QED
    BY <2>1
<1>3. call' \in {"Read", "Write", "Seek"} \X {id}
  OBVIOUS
<1> QED
  BY <1>1, <1>2, <1>3 DEF EntryKept

(* A descriptor that no file is open on may become anything.               *)
LEMMA OtherFdKept ==
  ASSUME CInv, ~ strayed' => ~ strayed, NEW d \in Fds, NEW x,
         fds' = [fds EXCEPT ![d] = x], ~ strayed' => fds[d] \notin Inodes
  PROVE  FdKept
<1> SUFFICES ASSUME ~ strayed', NEW i \in Slots, openfile[i] # NULL
             PROVE  fds'[openfile[i].file] = fds[openfile[i].file]
  BY DEF FdKept
<1>1. openfile[i].file \in Fds /\ fds[openfile[i].file] \in Inodes
  <2>1. IsOpen(i)
    BY DEF IsOpen
  <2> QED
    BY <2>1, OpenTypes DEF CInv, Apart, DescriptorsOwned
<1>2. fds \in [Fds -> Inodes \cup {SOCKET, NULL}]
  BY DEF CInv, CallTypes
<1> QED
  BY <1>1, <1>2

LEMMA OpenKept ==
  ASSUME CInv, NEW n \in Names, NEW type, Open(n, type), UNCHANGED strayed
  PROVE  EntryKept /\ FdKept
<1>1. CASE UNCHANGED <<fds, openfile>>
  BY <1>1 DEF EntryKept, FdKept
<1>2. ASSUME NEW d \in Fds, NEW k \in Slots, NEW r \in Records,
             fds[d] = NULL, openfile[k] = NULL,
             fds' = [fds EXCEPT ![d] = inode[n]], openfile' = [openfile EXCEPT ![k] = r]
      PROVE  EntryKept /\ FdKept
  <2>1. openfile \in [Slots -> Records \cup {NULL}] /\ NULL \notin Inodes
    BY NullAssumption DEF CInv, CallTypes
  <2>2. \A i \in Slots : i # k => openfile'[i] = openfile[i]
    BY <1>2, <2>1
  <2>3. EntryKept
    BY <1>2, <2>2 DEF EntryKept
  <2>4. FdKept
    BY <1>2, <2>1, OtherFdKept
  <2> QED
    BY <2>3, <2>4
<1> QED
  BY <1>1, <1>2, OpenStep, SMTT(20)

LEMMA CloseKept ==
  ASSUME CInv, NEW id, Close(id), UNCHANGED strayed
  PROVE  EntryKept /\ FdKept
<1>1. CASE UNCHANGED <<fds, openfile>>
  BY <1>1 DEF EntryKept, FdKept
<1>2. CASE /\ IsOpen(id) /\ call' = <<"Close", id>>
           /\ fds' = [fds EXCEPT ![openfile[id].file] = NULL]
           /\ openfile' = [openfile EXCEPT ![id] = NULL]
  <2>1. /\ openfile \in [Slots -> Records \cup {NULL}]
        /\ fds \in [Fds -> Inodes \cup {SOCKET, NULL}]
    BY DEF CInv, CallTypes
  <2>2. \A i \in Slots : i # id => openfile'[i] = openfile[i]
    BY <1>2, <2>1
  <2>3. EntryKept
    BY <1>2, <2>2 DEF EntryKept
  <2>4. FdKept
    <3> SUFFICES ASSUME ~ strayed, NEW i \in Slots, openfile[i] # NULL, i # id
                 PROVE  fds'[openfile[i].file] = fds[openfile[i].file]
      BY <1>2 DEF FdKept
    <3>1. openfile[i].file # openfile[id].file
      BY <1>2, OpenTypes DEF CInv, Apart, DescriptorsOwned
    <3>2. openfile[i].file \in Fds
      BY <2>1 DEF Records
    <3> QED
      BY <1>2, <2>1, <3>1, <3>2
  <2> QED
    BY <2>3, <2>4
<1> QED
  BY <1>1, <1>2, CloseStep

LEMMA TableStep == CInv /\ [Next]_vars => EntryKept /\ FdKept
<1> SUFFICES ASSUME CInv, [Next]_vars PROVE EntryKept /\ FdKept
  OBVIOUS
<1>1. UNCHANGED openfile => EntryKept
  BY DEF EntryKept
<1>2. UNCHANGED fds => FdKept
  BY DEF FdKept
<1>3. CASE SocketTCP \/ \E id \in Ids : Accept(id)
  <2>1. SOCKET \notin Inodes /\ NULL \notin Inodes
    BY NullAssumption, SocketCallsAssumption
  <2>2. UNCHANGED <<openfile, strayed>>
    BY <1>3, SocketOpens
  <2> QED
    BY <1>1, <1>2, <1>3, <2>1, <2>2, SocketOpens, OtherFdKept
<1>4. ASSUME NEW id \in Ids, CloseSoc(id) PROVE EntryKept /\ FdKept
  <2>1. UNCHANGED openfile
    BY <1>4, SocketCloses
  <2>2. CASE UNCHANGED fds
    BY <1>1, <1>2, <2>1, <2>2
  <2>3. CASE /\ id \in Fds /\ fds' = [fds EXCEPT ![id] = NULL]
             /\ strayed' = (strayed \/ id \notin held)
    <3>1. ~ strayed' => ~ strayed /\ fds[id] \notin Inodes
      BY <2>3, SocketCallsAssumption DEF CInv, Apart
    <3> QED
      BY <1>1, <2>1, <2>3, <3>1, OtherFdKept
  <2> QED
    BY <1>4, <2>2, <2>3, SocketCloses
<1>5. CASE SocketCall
  BY <1>1, <1>2, <1>3, <1>4, <1>5, SocketTransfers
<1>6. CASE FileCall /\ UNCHANGED socketVars
  <2>1. UNCHANGED strayed
    BY <1>6 DEF socketVars
  <2>2. ASSUME NEW n \in Names, Create(n) PROVE EntryKept /\ FdKept
    BY <1>1, <1>2, <2>2, CreateStep
  <2>3. ASSUME NEW n \in Names, Remove(n) PROVE EntryKept /\ FdKept
    BY <1>1, <1>2, <2>3 DEF Remove
  <2>4. ASSUME NEW id, NEW user \in Buffers, Read(user, id) PROVE EntryKept /\ FdKept
    BY <1>1, <1>2, <2>4, ReadStep, MovesKept
  <2>5. ASSUME NEW id, NEW user \in Buffers, Write(user, id) PROVE EntryKept /\ FdKept
    BY <1>1, <1>2, <2>5, WriteStep, MovesKept DEF Seekable
  <2>6. ASSUME NEW id, NEW pos \in -1 .. MaxLength + 1, Seek(pos, id)
        PROVE  EntryKept /\ FdKept
    <3>1. pos \in Int
      BY FileCallsAssumption, SMTT(20)
    <3> QED
      BY <1>1, <1>2, <2>6, <3>1, SeekStep, MovesKept
  <2> QED
    BY <1>6, <2>1, <2>2, <2>3, <2>4, <2>5, <2>6, OpenKept, CloseKept DEF FileCall
<1>7. CASE UNCHANGED vars
  BY <1>1, <1>2, <1>7 DEF vars, fileVars, unixVars
<1> QED
  BY <1>5, <1>6, <1>7 DEF Next

(* An OpenFileId stands for the same open file, at an offset that only its *)
(* own calls move, until it is closed, and its descriptor stays open on    *)
(* the same UNIX file until a stray CloseSoc (findIndexFree, SC_Open).     *)
THEOREM IdsAreStableCorrect == Spec => IdsAreStable
<1> DEFINE Stable ==
      \A i \in Slots : openfile[i] # NULL /\ call' # <<"Close", i>> =>
        /\ openfile'[i] = [openfile[i] EXCEPT !.currentOffset =
                                                openfile'[i].currentOffset]
        /\ openfile'[i] # openfile[i] => call' \in {"Read", "Write", "Seek"} \X {i}
        /\ ~ strayed' => fds'[openfile[i].file] = fds[openfile[i].file]
<1>1. CInv /\ [Next]_vars => [Stable]_vars
  <2> SUFFICES ASSUME CInv, [Next]_vars, NEW i \in Slots, openfile[i] # NULL,
                      call' # <<"Close", i>>
               PROVE  /\ openfile'[i] = [openfile[i] EXCEPT !.currentOffset =
                                                              openfile'[i].currentOffset]
                      /\ openfile'[i] # openfile[i]
                           => call' \in {"Read", "Write", "Seek"} \X {i}
                      /\ ~ strayed' => fds'[openfile[i].file] = fds[openfile[i].file]
    OBVIOUS
  <2>1. openfile[i] \in Records
    BY DEF CInv, CallTypes
  <2>2. openfile[i] = [openfile[i] EXCEPT !.currentOffset = openfile[i].currentOffset]
    BY <2>1 DEF Records
  <2> QED
    BY <2>2, TableStep DEF EntryKept, FdKept
<1>2. Spec => [][Stable]_vars
  BY <1>1, CallsInit, CallsStep, PTL DEF Spec
<1> QED
  BY <1>2 DEF IdsAreStable

-----------------------------------------------------------------------------
(* What one step may do to the bytes of a file.                            *)
BytesKept ==
  \A i \in Inodes : content'[i] # content[i] /\ i \notin FreeInodes' =>
    \/ call'[1] = "Create" /\ inode'[call'[2]] = i
    \/ /\ call'[1] = "Write"
       /\ LET id == call'[2]
              changed == {k \in DOMAIN content[i] : content'[i][k] # content[i][k]}
          IN /\ openfile[id].type = 0 /\ fds[openfile[id].file] = i
             /\ Len(content'[i]) >= Len(content[i])
             /\ \A k \in changed :
                  k - openfile[id].currentOffset \in 1 .. r2'

(* What UNIX reclaims nobody refers to any more.                           *)
LEMMA ReclaimKept ==
  ASSUME CInv, Reclaim
  PROVE  BytesKept
<1>1. ASSUME NEW i \in Inodes, i \notin FreeInodes' PROVE content'[i] = content[i]
  <2>1. i \in {inode'[n] : n \in Names} \cup {fds'[d] : d \in Fds}
    BY <1>1 DEF FreeInodes
  <2> QED
    BY <2>1 DEF Reclaim
<1> QED
  BY <1>1 DEF BytesKept

LEMMA WriteKept ==
  ASSUME CInv, NEW id, NEW user \in Buffers, Write(user, id)
  PROVE  BytesKept
<1>1. CASE UNCHANGED content
  BY <1>1 DEF BytesKept
<1>2. CASE ~ UNCHANGED content
  <2>1. /\ Seekable(id) /\ IsOpen(id) /\ openfile[id].type # 1
        /\ call' = <<"Write", id>> /\ r2' = Len(user)
        /\ content' = [content EXCEPT ![fds[openfile[id].file]] =
             WriteAt(content[fds[openfile[id].file]], User2System(user),
                     openfile[id].currentOffset)]
    BY <1>2, WriteStep DEF Seekable
  <2>2. PICK i \in Inodes : i = fds[openfile[id].file]
    BY <2>1, OpenLemma
  <2>3. PICK p \in Nat : p = openfile[id].currentOffset
    BY <2>1, OpenTypes
  <2>4. content \in [Inodes -> Seq(Bytes)] /\ openfile[id] \in Records
    BY <2>1, OpenTypes DEF CInv, CallTypes
  <2>5. /\ content'[i] = WriteAt(content[i], User2System(user), p)
        /\ \A j \in Inodes : j # i => content'[j] = content[j]
    BY <2>1, <2>2, <2>3, <2>4
  <2>6. /\ Len(content'[i]) >= Len(content[i])
        /\ \A k \in DOMAIN content[i] :
             k - p \notin 1 .. Len(user) => content'[i][k] = content[i][k]
    <3>1. /\ content[i] \in Seq(Bytes) /\ User2System(user) \in Seq(Bytes)
          /\ Len(User2System(user)) = Len(user)
      BY <2>4, BufferLemma
    <3>2. LET r == WriteAt(content[i], User2System(user), p)
          IN  /\ Len(r) >= Len(content[i])
              /\ \A k \in DOMAIN content[i] :
                   k - p \notin 1 .. Len(User2System(user)) => r[k] = content[i][k]
      BY <3>1, WriteLemma
    <3> QED
      BY <2>5, <3>1, <3>2
  <2>7. openfile[id].type = 0
    BY <2>1, <2>4 DEF Records
  <2>8. call'[1] = "Write" /\ call'[2] = id
    BY <2>1
  <2> QED
    BY <2>1, <2>2, <2>3, <2>5, <2>6, <2>7, <2>8 DEF BytesKept
<1> QED
  BY <1>1, <1>2

LEMMA BytesStep == CInv /\ [Next]_vars => BytesKept
<1> SUFFICES ASSUME CInv, [Next]_vars PROVE BytesKept
  OBVIOUS
<1>1. CASE UNCHANGED content
  BY <1>1 DEF BytesKept
<1>2. CASE SocketCall
  BY <1>1, <1>2, ReclaimKept, SocketOpens, SocketCloses, SocketTransfers
<1>3. ASSUME NEW n \in Names, Create(n) PROVE BytesKept
  <2>1. ASSUME NEW i \in Inodes, inode' = [inode EXCEPT ![n] = i],
               content' = [content EXCEPT ![i] = <<>>]
        PROVE  BytesKept
    <3>1. call'[1] = "Create" /\ call'[2] = n
      BY <1>3, CreateStep, SMTT(20)
    <3>2. inode'[n] = i /\ \A j \in Inodes : j # i => content'[j] = content[j]
      BY <2>1 DEF CInv, CallTypes
    <3> QED
      BY <3>1, <3>2 DEF BytesKept
  <2> QED
    BY <1>1, <1>3, <2>1, CreateStep
<1>4. ASSUME NEW n \in Names, Remove(n) PROVE BytesKept
  BY <1>4, ReclaimKept DEF Remove
<1>5. ASSUME NEW n \in Names, NEW type \in 0 .. 2, Open(n, type) PROVE BytesKept
  BY <1>1, <1>5 DEF Open
<1>6. ASSUME NEW id, Close(id) PROVE BytesKept
  BY <1>1, <1>6, CloseStep, ReclaimKept
<1>7. ASSUME NEW id, NEW user \in Buffers, Read(user, id) PROVE BytesKept
  BY <1>1, <1>7, ReadStep
<1>8. ASSUME NEW id, NEW user \in Buffers, Write(user, id) PROVE BytesKept
  BY <1>8, WriteKept
<1>9. ASSUME NEW id, NEW pos \in -1 .. MaxLength + 1, Seek(pos, id) PROVE BytesKept
  <2>1. pos \in Int
    BY FileCallsAssumption, SMTT(20)
  <2> QED
    BY <1>1, <1>9, <2>1, SeekStep
<1>10. CASE UNCHANGED vars
  BY <1>1, <1>10 DEF vars, fileVars, unixVars
<1>11. CASE FileCall
  BY <1>3, <1>4, <1>5, <1>6, <1>7, <1>8, <1>9, <1>11 DEF FileCall
<1> QED
  BY <1>2, <1>10, <1>11 DEF Next

(* The bytes of a file that is named or open change only by a Write        *)
(* through an id opened for writing, at its offset, or by a Create of its  *)
(* name (SC_Write, SC_Create).                                             *)
THEOREM WritesAreAllowedCorrect == Spec => WritesAreAllowed
<1>1. CInv /\ [Next]_vars => [BytesKept]_fileVars
  BY BytesStep
<1>2. Spec => [][BytesKept]_fileVars
  BY <1>1, CallsInit, CallsStep, PTL DEF Spec
<1> QED
  BY <1>2, PTL DEF WritesAreAllowed, BytesKept

-----------------------------------------------------------------------------
(***************************************************************************)
(* Every interrupt is handled on time and every device has the interrupts  *)
(* it should have, for all tick lengths, delays and disk geometries and    *)
(* for any number of requests.                                             *)
(*                                                                         *)
(* The heart of both is what SortedList::Insert does to the list of        *)
(* pending interrupts, and that every delay is positive: the disk's, which *)
(* is computed from the position of its head, too (LatencyPositive).       *)
(***************************************************************************)
Types == {"TimerInt", "NetworkRecvInt", "DiskInt", "ConsoleWriteInt"}
Entries == [when : Nat, type : Types]

(* Every variable has its type. *)
TimesOK ==
  /\ totalTicks \in Nat
  /\ pending \in Seq(Entries)
  /\ inHandler \in BOOLEAN /\ halted \in BOOLEAN
  /\ active \in BOOLEAN /\ lastSector \in Nat /\ bufferInit \in Nat
  /\ putBusy \in BOOLEAN

Sorted(s) == \A i, j \in 1..Len(s) : i < j => s[i].when <= s[j].when

(* A set of natural numbers that is not empty has a least element.         *)
LEMMA LeastNatural ==
  ASSUME NEW T, T \subseteq Nat, T # {}
  PROVE  \E m \in T : \A k \in T : m <= k
<1>1. PICK m \in T : \A k \in T : ~ (<<k, m>> \in OpToRel(<, Nat))
  BY WFMin, NatLessThanWellFounded
<1>2. \A k \in T : ~ (k < m)
  BY <1>1 DEF OpToRel
<1> QED
  BY <1>2, SMTT(20)

(* The elements of a list of pending interrupts.                           *)
LEMMA EntryTypes ==
  ASSUME NEW s \in Seq(Entries)
  PROVE  /\ Len(s) \in Nat
         /\ \A i \in 1..Len(s) : s[i] \in Entries /\ s[i].when \in Nat
<1>1. Len(s) \in Nat /\ \A i \in 1..Len(s) : s[i] \in Entries
  BY LenProperties, ElementOfSeq
<1>2. \A e \in Entries : e.when \in Nat
  BY DEF Entries
<1> QED
  BY <1>1, <1>2

(* The loop of SortedList::Insert finds the first element that is due      *)
(* later than the new one, or the end of the list.                         *)
LEMMA PositionLemma ==
  ASSUME NEW s \in Seq(Entries), NEW when \in Nat
  PROVE  /\ Position(s, when) \in 1..(Len(s) + 1)
         /\ \A j \in 1..Len(s) : j < Position(s, when) => s[j].when <= when
         /\ Position(s, when) <= Len(s) => when < s[Position(s, when)].when
<1>1. Len(s) \in Nat /\ \A i \in 1..Len(s) : s[i] \in Entries /\ s[i].when \in Nat
  BY EntryTypes
<1> DEFINE Later == {i \in 1..Len(s) : when < s[i].when}
<1>2. CASE Later = {}
  <2>1. Position(s, when) = Len(s) + 1 /\ \A i \in 1..Len(s) : ~ (when < s[i].when)
    BY <1>2 DEF Position
  <2> QED
    BY <1>1, <2>1, SMTT(20)
<1>3. CASE Later # {}
  <2>0. Later \subseteq Nat
    BY <1>1, SMTT(20)
  <2>1. PICK m \in Later : \A k \in Later : m <= k
    BY <1>3, <2>0, LeastNatural
  <2>2. \A j \in 1..(m - 1) : s[j].when <= when
    BY <1>1, <2>1, SMTT(20)
  <2>3. \E i \in 1..Len(s) :
          when < s[i].when /\ \A j \in 1..(i - 1) : s[j].when <= when
    BY <2>1, <2>2
  <2> DEFINE k == CHOOSE i \in 1..Len(s) :
                    when < s[i].when /\ \A j \in 1..(i - 1) : s[j].when <= when
  <2>4. k \in 1..Len(s) /\ when < s[k].when /\ \A j \in 1..(k - 1) : s[j].when <= when
    BY <2>3
  <2>5. Position(s, when) = k
    BY <2>3 DEF Position
  <2> HIDE DEF k
  <2> QED
    BY <1>1, <2>4, <2>5, SMTT(20)
<1> QED
  BY <1>2, <1>3

(* SortedList::Insert puts the new element at its position and leaves the  *)
(* others as they are, in their order.                                     *)
LEMMA InsertedLemma ==
  ASSUME NEW s \in Seq(Entries), NEW p \in Entries
  PROVE  /\ Inserted(s, p) \in Seq(Entries)
         /\ Len(Inserted(s, p)) = Len(s) + 1
         /\ Inserted(s, p) # <<>>
         /\ Inserted(s, p)[Position(s, p.when)] = p
         /\ \A i \in 1..Len(s) :
              Inserted(s, p)[IF i < Position(s, p.when) THEN i ELSE i + 1] = s[i]
         /\ \A i \in 1..(Len(s) + 1) :
              Inserted(s, p)[i] = IF i < Position(s, p.when) THEN s[i]
                                  ELSE IF i = Position(s, p.when) THEN p ELSE s[i - 1]
<1> DEFINE k == Position(s, p.when)
           n == Len(s) + 1
           r == Inserted(s, p)
<1>1. k \in 1..n
  BY PositionLemma DEF Entries
<1>2. n \in Nat /\ Len(s) \in Nat /\ \A i \in 1..Len(s) : s[i] \in Entries
  BY LenProperties, ElementOfSeq, SMTT(20)
<1>3. r = [i \in 1..n |-> IF i < k THEN s[i] ELSE IF i = k THEN p ELSE s[i - 1]]
  BY DEF Inserted
<1> HIDE DEF k
<1>4. \A i \in 1..n : (IF i < k THEN s[i] ELSE IF i = k THEN p ELSE s[i - 1]) \in Entries
  BY <1>1, <1>2, SMTT(20)
<1>5. r \in [1..n -> Entries]
  BY <1>3, <1>4
<1> HIDE DEF r
<1>6. r \in Seq(Entries)
  BY <1>2, <1>5, SeqDef, SMTT(20)
<1>7. Len(r) = n
  BY <1>2, <1>5, <1>6, LenProperties, SMTT(20)
<1>8. r # <<>>
  BY <1>2, <1>7, EmptySeq, SMTT(20)
<1>9. r[k] = p
  BY <1>1, <1>3, SMTT(20)
<1>10. \A i \in 1..Len(s) : r[IF i < k THEN i ELSE i + 1] = s[i]
  BY <1>1, <1>2, <1>3, SMTT(20)
<1>11. \A i \in 1..n : r[i] = IF i < k THEN s[i] ELSE IF i = k THEN p ELSE s[i - 1]
  BY <1>3
<1> QED
  BY <1>6, <1>7, <1>8, <1>9, <1>10, <1>11 DEF r, k

(* SortedList::Insert keeps the list sorted.                               *)
LEMMA InsertedSorted ==
  ASSUME NEW s \in Seq(Entries), NEW p \in Entries, Sorted(s)
  PROVE  Sorted(Inserted(s, p))
<1> DEFINE k == Position(s, p.when)
           r == Inserted(s, p)
<1>1. /\ k \in 1..(Len(s) + 1)
      /\ \A j \in 1..Len(s) : j < k => s[j].when <= p.when
      /\ k <= Len(s) => p.when < s[k].when
  BY PositionLemma DEF Entries
<1>2. /\ Len(r) = Len(s) + 1
      /\ \A i \in 1..(Len(s) + 1) :
           r[i] = IF i < k THEN s[i] ELSE IF i = k THEN p ELSE s[i - 1]
  BY InsertedLemma
<1>3. Len(s) \in Nat /\ p.when \in Nat /\ \A i \in 1..Len(s) : s[i].when \in Nat
  BY EntryTypes DEF Entries
<1> HIDE DEF k, r
<1>4. ASSUME NEW i \in 1..(Len(s) + 1), NEW j \in 1..(Len(s) + 1), i < j
      PROVE  r[i].when <= r[j].when
  <2>1. CASE i < k /\ j < k
    BY <1>1, <1>2, <1>3, <1>4, <2>1, SMTT(20) DEF Sorted
  <2>2. CASE i < k /\ j = k
    BY <1>1, <1>2, <1>3, <1>4, <2>2, SMTT(20)
  <2>3. CASE i < k /\ j > k
    <3>1. i \in 1..Len(s) /\ j - 1 \in 1..Len(s) /\ i < j - 1
      BY <1>1, <1>3, <1>4, <2>3, SMTT(20)
    <3> QED
      BY <1>1, <1>2, <1>3, <2>3, <3>1, SMTT(20) DEF Sorted
  <2>4. CASE i = k
    <3>1. /\ r[i] = p /\ r[j] = s[j - 1] /\ k <= Len(s) /\ j - 1 \in 1..Len(s)
          /\ k = j - 1 \/ k < j - 1
      BY <1>1, <1>2, <1>3, <1>4, <2>4, SMTT(20)
    <3>2. s[k].when <= s[j - 1].when
      BY <1>1, <1>3, <3>1, SMTT(20) DEF Sorted
    <3> QED
      BY <1>1, <1>3, <3>1, <3>2, SMTT(20)
  <2>5. CASE i > k
    <3>1. /\ r[i] = s[i - 1] /\ r[j] = s[j - 1]
          /\ i - 1 \in 1..Len(s) /\ j - 1 \in 1..Len(s) /\ i - 1 < j - 1
      BY <1>1, <1>2, <1>3, <1>4, <2>5, SMTT(20)
    <3> QED
      BY <3>1 DEF Sorted
  <2> QED
    BY <1>1, <1>3, <2>1, <2>2, <2>3, <2>4, <2>5, SMTT(20)
<1> QED
  BY <1>2, <1>4 DEF Sorted, r

(* Interrupt::Schedule with a positive delay keeps the list sorted, and    *)
(* everything in it later than any bound that is not in the future.        *)
LEMMA ScheduleLemma ==
  ASSUME totalTicks \in Nat, NEW s \in Seq(Entries), NEW delay \in Nat \ {0},
         NEW type \in Types, NEW bound \in Int, bound <= totalTicks,
         Sorted(s), \A i \in 1..Len(s) : s[i].when > bound
  PROVE  LET r == Schedule(s, delay, type)
         IN  /\ r \in Seq(Entries)
             /\ Sorted(r)
             /\ \A i \in 1..Len(r) : r[i].when > bound
<1> DEFINE p == [when |-> totalTicks + delay, type |-> type]
           r == Inserted(s, p)
           k == Position(s, p.when)
<1>1. p \in Entries /\ p.when = totalTicks + delay
  BY SMTT(20) DEF Entries
<1>2. Schedule(s, delay, type) = r
  BY DEF Schedule
<1> HIDE DEF p
<1>3. r \in Seq(Entries) /\ Sorted(r)
  BY <1>1, InsertedLemma, InsertedSorted
<1>4. /\ Len(r) = Len(s) + 1
      /\ \A i \in 1..(Len(s) + 1) :
           r[i] = IF i < k THEN s[i] ELSE IF i = k THEN p ELSE s[i - 1]
  BY <1>1, InsertedLemma
<1>5. k \in 1..(Len(s) + 1) /\ Len(s) \in Nat
  BY <1>1, PositionLemma, EntryTypes, SMTT(20)
<1> HIDE DEF r, k
<1>6. ASSUME NEW i \in 1..Len(r)
      PROVE  r[i].when > bound
  <2>1. CASE i = k
    BY <1>1, <1>4, <1>5, <2>1, SMTT(20)
  <2>2. CASE i < k
    BY <1>4, <1>5, <2>2, SMTT(20)
  <2>3. CASE i > k
    <3>1. i - 1 \in 1..Len(s) /\ r[i] = s[i - 1]
      BY <1>4, <1>5, <2>3, SMTT(20)
    <3> QED
      BY <3>1
  <2> QED
    BY <1>4, <1>5, <2>1, <2>2, <2>3, SMTT(20)
<1> QED
  BY <1>2, <1>3, <1>6

(* RemoveFront leaves the rest of the list as it was.                      *)
LEMMA TailLemma ==
  ASSUME NEW s \in Seq(Entries), s # <<>>
  PROVE  /\ Tail(s) \in Seq(Entries)
         /\ Len(s) \in Nat \ {0} /\ Len(Tail(s)) = Len(s) - 1
         /\ \A i \in 1..Len(Tail(s)) : Tail(s)[i] = s[i + 1]
         /\ Sorted(s) => Sorted(Tail(s))
         /\ Head(s) = s[1]
<1>1. /\ Tail(s) \in Seq(Entries)
      /\ Len(Tail(s)) = Len(s) - 1
      /\ \A i \in 1..Len(Tail(s)) : Tail(s)[i] = s[i + 1]
  BY HeadTailProperties
<1>2. Len(s) \in Nat \ {0}
  BY EmptySeq
<1>3. Sorted(s) => Sorted(Tail(s))
  BY <1>1, <1>2, SMTT(20) DEF Sorted
<1>4. Head(s) = s[1]
  BY SMTT(20)
<1> QED
  BY <1>1, <1>2, <1>3, <1>4

-----------------------------------------------------------------------------
(* A remainder by a positive number.                                       *)
LEMMA ModLemma ==
  ASSUME NEW a \in Int, NEW b \in Nat \ {0}
  PROVE  a % b \in Nat /\ a % b < b
  BY SMTT(20)

(* Disk::ComputeLatency is positive, wherever the head is: also when the   *)
(* sector is the next one, or in the track buffer.                         *)
LEMMA LatencyPositive ==
  ASSUME TimesOK, NEW sector \in Sectors, NEW writing
  PROVE  ComputeLatency(sector, writing) \in Nat \ {0} /\ TimeAfter(sector) \in Nat
<1> USE TimesAssumption
<1>1. sector \in Nat
  BY SMTT(20) DEF Sectors
<1>2. Track(sector) \in Nat /\ Track(lastSector) \in Nat
  BY <1>1, DivMod DEF Track, TimesOK
<1>3. SeekOf(sector) \in Nat
  <2>1. Distance(Track(sector), Track(lastSector)) \in Nat
    BY <1>2, SMTT(20) DEF Distance
  <2> QED
    BY <2>1, SMTT(20) DEF SeekOf
<1>4. RotationOf(sector) \in Nat
  <2>1. totalTicks + SeekOf(sector) \in Nat
    BY <1>3, SMTT(20) DEF TimesOK
  <2>2. /\ (totalTicks + SeekOf(sector)) % RotationTime \in Nat
        /\ (totalTicks + SeekOf(sector)) % RotationTime < RotationTime
    BY <2>1, ModLemma, SMTT(20)
  <2> QED
    BY <2>2, SMTT(20) DEF RotationOf
<1>5. TimeAfter(sector) \in Nat
  <2>1. totalTicks \in Nat
    BY DEF TimesOK
  <2> QED
    BY <1>3, <1>4, <2>1, SMTT(30) DEF TimeAfter
<1>6. ASSUME NEW from \in Nat
      PROVE  ModuloDiff(sector, from) \in Nat
  <2>1. sector % SectorsPerTrack \in Nat /\ from % SectorsPerTrack \in Nat
    BY <1>1, ModLemma, SMTT(20)
  <2> QED
    BY <2>1, ModLemma, SMTT(20) DEF ModuloDiff
<1> DEFINE wait == ModuloDiff(sector, TimeAfter(sector) \div RotationTime)
<1>7. wait \in Nat
  BY <1>5, <1>6, DivMod
<1>8. wait * RotationTime \in Nat
  BY <1>7, SMTT(20)
<1>9. \/ ComputeLatency(sector, writing) = RotationTime
      \/ ComputeLatency(sector, writing) =
           SeekOf(sector) + RotationOf(sector) + wait * RotationTime + RotationTime
  BY DEF ComputeLatency
<1> HIDE DEF wait
<1> QED
  BY <1>3, <1>4, <1>5, <1>8, <1>9, SMTT(20)

-----------------------------------------------------------------------------
OInv == TimesOK /\ OnTime

(* When a handler returns, CheckIfDue goes on while the first interrupt is *)
(* due; the list is sorted, so nothing is due when it stops.               *)
LEMMA HandlerOnTime ==
  ASSUME TimesOK, pending' \in Seq(Entries), Sorted(pending'),
         \A i \in 1..Len(pending') : pending'[i].when > totalTicks - SystemTick,
         inHandler' = Due(pending', totalTicks), UNCHANGED totalTicks
  PROVE  OnTime'
<1>1. CASE Due(pending', totalTicks)
  BY <1>1 DEF OnTime, Sorted
<1>2. CASE ~ Due(pending', totalTicks)
  <2>1. ASSUME NEW i \in 1..Len(pending')
        PROVE  pending'[i].when > totalTicks
    <3>1. pending' # <<>> /\ Len(pending') \in Nat
      BY <2>1, EmptySeq, EntryTypes, SMTT(20)
    <3>2. Head(pending') = pending'[1]
      BY <3>1, TailLemma
    <3>3. pending'[1].when \in Nat /\ pending'[i].when \in Nat /\ 1 \in 1..Len(pending')
      BY <2>1, <3>1, EntryTypes, SMTT(20)
    <3>4. pending'[1].when > totalTicks
      BY <1>2, <3>1, <3>2, <3>3, SMTT(20) DEF Due, TimesOK
    <3>5. pending'[1].when <= pending'[i].when
      BY <2>1, <3>1, <3>3, SMTT(20) DEF Sorted
    <3> QED
      BY <3>3, <3>4, <3>5, SMTT(20) DEF TimesOK
  <2> QED
    BY <1>2, <2>1 DEF OnTime, Sorted
<1> QED
  BY <1>1, <1>2

(* While a handler is to be called, the list is not empty; what the        *)
(* handler finds is the rest of it.                                        *)
LEMMA RestOnTime ==
  ASSUME OInv, inHandler
  PROVE  /\ pending # <<>>
         /\ Tail(pending) \in Seq(Entries) /\ Sorted(Tail(pending))
         /\ \A i \in 1..Len(Tail(pending)) :
              Tail(pending)[i].when > totalTicks - SystemTick
<1>1. pending \in Seq(Entries) /\ pending # <<>> /\ Sorted(pending)
  BY DEF OInv, TimesOK, OnTime, Due, Sorted
<1>2. /\ Tail(pending) \in Seq(Entries) /\ Sorted(Tail(pending))
      /\ Len(Tail(pending)) = Len(pending) - 1 /\ Len(pending) \in Nat \ {0}
      /\ \A i \in 1..Len(Tail(pending)) : Tail(pending)[i] = pending[i + 1]
  BY <1>1, TailLemma
<1>3. \A i \in 1..Len(Tail(pending)) : i + 1 \in 1..Len(pending)
  BY <1>2, SMTT(20)
<1> QED
  BY <1>1, <1>2, <1>3 DEF OInv, OnTime

(* A handler that schedules the next interrupt of its device.              *)
LEMMA Reschedule ==
  ASSUME OInv, inHandler, NEW delay \in Nat \ {0}, NEW type \in Types,
         pending' = Schedule(Tail(pending), delay, type)
  PROVE  /\ pending' \in Seq(Entries) /\ Sorted(pending')
         /\ \A i \in 1..Len(pending') : pending'[i].when > totalTicks - SystemTick
<1> DEFINE bound == totalTicks - SystemTick
<1>1. bound \in Int /\ bound <= totalTicks /\ totalTicks \in Nat
  BY TimesAssumption, SMTT(20) DEF OInv, TimesOK
<1> HIDE DEF bound
<1> QED
  BY <1>1, RestOnTime, ScheduleLemma DEF bound

(* A thread that schedules an interrupt.                                   *)
LEMMA ScheduledOnTime ==
  ASSUME OInv, ~ inHandler, NEW delay \in Nat \ {0}, NEW type \in Types,
         pending' = Schedule(pending, delay, type),
         UNCHANGED <<totalTicks, inHandler>>
  PROVE  pending' \in Seq(Entries) /\ OnTime'
<1>1. /\ totalTicks \in Nat /\ pending \in Seq(Entries) /\ Sorted(pending)
      /\ \A i \in 1..Len(pending) : pending[i].when > totalTicks
  BY DEF OInv, TimesOK, OnTime, Sorted
<1>2. totalTicks \in Int /\ totalTicks <= totalTicks
  BY <1>1, SMTT(20)
<1>3. /\ pending' \in Seq(Entries) /\ Sorted(pending')
      /\ \A i \in 1..Len(pending') : pending'[i].when > totalTicks
  BY <1>1, <1>2, ScheduleLemma
<1>4. ASSUME NEW i \in 1..Len(pending')
      PROVE  pending'[i].when > totalTicks - SystemTick
  <2>1. pending'[i].when \in Nat
    BY <1>3, EntryTypes
  <2>2. pending'[i].when > totalTicks
    BY <1>3
  <2>3. SystemTick \in Nat
    BY TimesAssumption
  <2> QED
    BY <1>1, <2>1, <2>2, <2>3, SMTT(20)
<1> QED
  BY <1>3, <1>4 DEF OnTime, Sorted

(* Kernel::Initialize schedules the first interrupts in the future.        *)
LEMMA OnTimeInit == InterruptInit => OInv
<1> SUFFICES ASSUME InterruptInit PROVE OInv
  OBVIOUS
<1>1. PICK delay \in Delays :
        pending = Schedule(Schedule(<<>>, delay, "TimerInt"), NetworkTime, "NetworkRecvInt")
  BY DEF InterruptInit
<1>2. delay \in Nat \ {0} /\ NetworkTime \in Nat \ {0}
  BY TimesAssumption, SMTT(20) DEF Delays
<1>3. totalTicks = 0 /\ totalTicks \in Nat /\ 0 \in Int /\ 0 <= totalTicks
  BY SMTT(20) DEF InterruptInit
<1>4. <<>> \in Seq(Entries) /\ Sorted(<<>>) /\ \A i \in 1..Len(<<>>) : <<>>[i].when > 0
  BY EmptySeq, SMTT(20) DEF Sorted
<1> DEFINE first == Schedule(<<>>, delay, "TimerInt")
<1>5. /\ first \in Seq(Entries) /\ Sorted(first)
      /\ \A i \in 1..Len(first) : first[i].when > 0
  BY <1>2, <1>3, <1>4, ScheduleLemma DEF Types
<1> HIDE DEF first
<1>6. /\ pending \in Seq(Entries) /\ Sorted(pending)
      /\ \A i \in 1..Len(pending) : pending[i].when > 0
  BY <1>1, <1>2, <1>3, <1>5, ScheduleLemma DEF Types, first
<1>7. TimesOK
  BY <1>3, <1>6 DEF InterruptInit, DiskInit, TimesOK
<1>8. ASSUME NEW i \in 1..Len(pending)
      PROVE  pending[i].when > totalTicks - SystemTick
  <2>1. pending[i].when \in Nat
    BY <1>6, EntryTypes
  <2>2. pending[i].when > totalTicks
    BY <1>3, <1>6
  <2>3. SystemTick \in Nat
    BY TimesAssumption
  <2> QED
    BY <1>3, <2>1, <2>2, <2>3, SMTT(20)
<1>9. inHandler = FALSE
  BY DEF InterruptInit
<1>10. OnTime
  BY <1>3, <1>6, <1>8, <1>9 DEF OnTime, Sorted
<1> QED
  BY <1>7, <1>10 DEF OInv

(* Every step keeps the interrupts on time.                                *)
LEMMA OnTimeStep == OInv /\ [InterruptNext]_interruptVars => OInv'
<1> SUFFICES ASSUME OInv, [InterruptNext]_interruptVars PROVE OInv'
  OBVIOUS
<1> USE DEF diskVars
<1>1. ASSUME NEW tick \in {UserTick, SystemTick}, OneTick(tick)
      PROVE  OInv'
  <2>1. /\ tick \in Nat \ {0} /\ tick <= SystemTick /\ SystemTick \in Nat
        /\ totalTicks \in Nat /\ totalTicks' = totalTicks + tick
        /\ pending' = pending /\ inHandler' = Due(pending, totalTicks')
        /\ ~ inHandler /\ pending \in Seq(Entries) /\ Sorted(pending)
    BY <1>1, TimesAssumption, SMTT(20) DEF OneTick, Running, OInv, TimesOK, OnTime, Sorted
  <2>2. \A i \in 1..Len(pending) : pending[i].when > totalTicks /\ pending[i].when \in Nat
    BY <2>1, EntryTypes DEF OInv, OnTime
  <2>3. \A i \in 1..Len(pending) : pending[i].when > totalTicks' - SystemTick
    BY <2>1, <2>2, SMTT(20)
  <2>4. TimesOK'
    BY <1>1, <2>1, SMTT(20) DEF OneTick, OInv, TimesOK, Due
  <2>5. ASSUME ~ Due(pending, totalTicks'), NEW i \in 1..Len(pending)
        PROVE  pending[i].when > totalTicks'
    <3>1. pending # <<>> /\ Head(pending) = pending[1] /\ 1 \in 1..Len(pending)
      BY <2>1, <2>5, EmptySeq, TailLemma, EntryTypes, SMTT(20)
    <3>2. pending[1].when > totalTicks' /\ pending[1].when <= pending[i].when
      BY <2>1, <2>2, <2>5, <3>1, SMTT(20) DEF Due, Sorted
    <3> QED
      BY <2>1, <2>2, <3>1, <3>2, SMTT(20)
  <2> QED
    BY <2>1, <2>3, <2>4, <2>5 DEF OInv, OnTime, Sorted
<1>2. CASE Idle
  <2>1. /\ totalTicks \in Nat /\ pending' = pending /\ ~ inHandler
        /\ pending \in Seq(Entries) /\ Sorted(pending)
    BY <1>2 DEF Idle, Running, OInv, TimesOK, OnTime, Sorted
  <2>2. CASE pending = <<>>
    BY <1>2, <2>2 DEF Idle, OInv, TimesOK, OnTime
  <2>3. CASE pending # <<>>
    <3>1. Head(pending) = pending[1] /\ 1 \in 1..Len(pending) /\ Len(pending) \in Nat
      BY <2>1, <2>3, TailLemma, SMTT(20)
    <3>2. \A i \in 1..Len(pending) : pending[i].when > totalTicks /\ pending[i].when \in Nat
      BY <2>1, EntryTypes DEF OInv, OnTime
    <3>3. totalTicks' = pending[1].when /\ inHandler' = TRUE
      BY <1>2, <2>3, <3>1, <3>2 DEF Idle
    <3>4. \A i \in 1..Len(pending) : pending[1].when <= pending[i].when
      BY <2>1, <3>1, <3>2, SMTT(20) DEF Sorted
    <3>5. ASSUME NEW i \in 1..Len(pending)
          PROVE  pending[i].when > totalTicks' - SystemTick
      <4>1. pending[i].when \in Nat /\ pending[1].when \in Nat
        BY <3>1, <3>2
      <4>2. pending[1].when <= pending[i].when
        BY <3>4
      <4>3. SystemTick \in Nat \ {0}
        BY TimesAssumption
      <4> QED
        BY <3>3, <4>1, <4>2, <4>3, SMTT(20)
    <3>6. TimesOK'
      BY <1>2, <2>1, <2>3, <3>1, <3>2, <3>3 DEF Idle, OInv, TimesOK
    <3>7. Due(pending, totalTicks')
      BY <2>3, <3>1, <3>2, <3>3, SMTT(20) DEF Due
    <3> QED
      BY <2>1, <3>3, <3>5, <3>6, <3>7 DEF OInv, OnTime, Sorted
  <2> QED
    BY <2>2, <2>3
<1>3. CASE TimerCallBack
  <2>1. PICK delay \in Delays : pending' = Schedule(Tail(pending), delay, "TimerInt")
    BY <1>3 DEF TimerCallBack
  <2>2. delay \in Nat \ {0}
    BY TimesAssumption, SMTT(20) DEF Delays
  <2>3. /\ inHandler /\ inHandler' = Due(pending', totalTicks)
        /\ UNCHANGED <<totalTicks, halted, diskVars, putBusy>>
    BY <1>3 DEF TimerCallBack, Handle
  <2>4. /\ pending' \in Seq(Entries) /\ Sorted(pending')
        /\ \A i \in 1..Len(pending') : pending'[i].when > totalTicks - SystemTick
    BY <2>1, <2>2, <2>3, Reschedule DEF Types
  <2>5. TimesOK'
    BY <2>3, <2>4 DEF OInv, TimesOK, Due
  <2> QED
    BY <2>3, <2>4, <2>5, HandlerOnTime DEF OInv
<1>4. CASE NetworkCallBack
  <2>1. /\ pending' = Schedule(Tail(pending), NetworkTime, "NetworkRecvInt")
        /\ inHandler /\ inHandler' = Due(pending', totalTicks)
        /\ UNCHANGED <<totalTicks, halted, diskVars, putBusy>>
    BY <1>4 DEF NetworkCallBack, Handle
  <2>2. /\ pending' \in Seq(Entries) /\ Sorted(pending')
        /\ \A i \in 1..Len(pending') : pending'[i].when > totalTicks - SystemTick
    BY <2>1, Reschedule, TimesAssumption DEF Types
  <2>3. TimesOK'
    BY <2>1, <2>2 DEF OInv, TimesOK, Due
  <2> QED
    BY <2>1, <2>2, <2>3, HandlerOnTime DEF OInv
<1>5. CASE DiskCallBack \/ DisplayCallBack
  <2>1. /\ pending' = Tail(pending)
        /\ inHandler /\ inHandler' = Due(pending', totalTicks)
        /\ UNCHANGED <<totalTicks, halted, lastSector, bufferInit>>
    BY <1>5 DEF DiskCallBack, DisplayCallBack, Handle
  <2>2. active' \in BOOLEAN /\ putBusy' \in BOOLEAN
    BY <1>5 DEF DiskCallBack, DisplayCallBack, OInv, TimesOK
  <2>3. /\ pending' \in Seq(Entries) /\ Sorted(pending')
        /\ \A i \in 1..Len(pending') : pending'[i].when > totalTicks - SystemTick
    BY <2>1, RestOnTime
  <2>4. TimesOK'
    BY <2>1, <2>2, <2>3 DEF OInv, TimesOK, Due
  <2> QED
    BY <2>1, <2>3, <2>4, HandlerOnTime DEF OInv
<1>6. ASSUME NEW sector \in Sectors, NEW writing \in BOOLEAN, Request(sector, writing)
      PROVE  OInv'
  <2>1. /\ ComputeLatency(sector, writing) \in Nat \ {0} /\ TimeAfter(sector) \in Nat
        /\ sector \in Nat
    BY LatencyPositive, SMTT(20) DEF OInv, Sectors
  <2>2. /\ ~ inHandler /\ UNCHANGED <<totalTicks, inHandler, halted, putBusy>>
        /\ pending' = Schedule(pending, ComputeLatency(sector, writing), "DiskInt")
        /\ active' = TRUE /\ lastSector' = sector
        /\ bufferInit' \in {TimeAfter(sector), bufferInit}
    BY <1>6 DEF Request, Running, UpdateLast
  <2>3. pending' \in Seq(Entries) /\ OnTime'
    BY <2>1, <2>2, ScheduledOnTime DEF Types
  <2> QED
    BY <2>1, <2>2, <2>3 DEF OInv, TimesOK
<1>7. CASE PutChar
  <2>1. /\ ~ inHandler /\ UNCHANGED <<totalTicks, inHandler, halted, diskVars>>
        /\ pending' = Schedule(pending, ConsoleTime, "ConsoleWriteInt")
        /\ putBusy' = TRUE
    BY <1>7 DEF PutChar, Running
  <2>2. pending' \in Seq(Entries) /\ OnTime'
    BY <2>1, ScheduledOnTime, TimesAssumption DEF Types
  <2> QED
    BY <2>1, <2>2 DEF OInv, TimesOK
<1>8. CASE UNCHANGED interruptVars
  BY <1>8 DEF interruptVars, OInv, TimesOK, OnTime, Due
<1> QED
  BY <1>1, <1>2, <1>3, <1>4, <1>5, <1>6, <1>7, <1>8 DEF InterruptNext

(* Interrupts come in the order of their times, never early and never a    *)
(* whole SystemTick late, and whenever a thread runs everything due has    *)
(* been handled (Interrupt::CheckIfDue, OneTick and Idle).                 *)
THEOREM OnTimeCorrect == InterruptSpec => []OnTime
<1>1. OInv => OnTime
  BY DEF OInv
<1> QED
  BY <1>1, OnTimeInit, OnTimeStep, PTL DEF InterruptSpec

-----------------------------------------------------------------------------
(* No interrupt of a type is in the list; exactly one is.                  *)
Of(s, type) == {i \in 1..Len(s) : s[i].type = type}
None(s, type) == Of(s, type) = {}
One(s, type) == \E i \in 1..Len(s) : Of(s, type) = {i}

(* Interrupt::Schedule adds one interrupt of its type and no other.        *)
LEMMA ScheduleCount ==
  ASSUME totalTicks \in Nat, NEW s \in Seq(Entries), NEW delay \in Nat \ {0},
         NEW type \in Types
  PROVE  LET r == Schedule(s, delay, type)
         IN  /\ r \in Seq(Entries)
             /\ None(s, type) => One(r, type)
             /\ \A u \in Types \ {type} : /\ None(s, u) => None(r, u)
                                          /\ One(s, u) => One(r, u)
<1> DEFINE p == [when |-> totalTicks + delay, type |-> type]
           r == Inserted(s, p)
           k == Position(s, p.when)
<1>1. p \in Entries /\ p.type = type /\ p.when \in Nat
  BY SMTT(20) DEF Entries
<1>2. Schedule(s, delay, type) = r
  BY DEF Schedule
<1> HIDE DEF p
<1>3. k \in 1..(Len(s) + 1) /\ Len(s) \in Nat
  BY <1>1, PositionLemma, EntryTypes
<1>4. /\ r \in Seq(Entries) /\ Len(r) = Len(s) + 1 /\ r[k] = p
      /\ \A i \in 1..Len(s) : r[IF i < k THEN i ELSE i + 1] = s[i]
      /\ \A i \in 1..(Len(s) + 1) :
           r[i] = IF i < k THEN s[i] ELSE IF i = k THEN p ELSE s[i - 1]
  BY <1>1, InsertedLemma
<1> HIDE DEF r, k
<1>5. \A i \in 1..Len(r) : i # k =>
        LET j == IF i < k THEN i ELSE i - 1
        IN  j \in 1..Len(s) /\ r[i] = s[j]
  BY <1>3, <1>4, SMTT(20)
<1>6. ASSUME None(s, type) PROVE One(r, type)
  <2>1. k \in 1..Len(r) /\ r[k].type = type
    BY <1>1, <1>3, <1>4
  <2>2. \A i \in 1..Len(r) : i # k => r[i].type # type
    BY <1>5, <1>6 DEF None, Of
  <2>3. Of(r, type) = {k}
    BY <2>1, <2>2 DEF Of
  <2> QED
    BY <2>1, <2>3 DEF One
<1>7. ASSUME NEW u \in Types \ {type}, None(s, u) PROVE None(r, u)
  <2>1. \A i \in 1..Len(r) : r[i].type # u
    BY <1>1, <1>4, <1>5, <1>7 DEF None, Of
  <2> QED
    BY <2>1 DEF None, Of
<1>8. ASSUME NEW u \in Types \ {type}, One(s, u) PROVE One(r, u)
  <2>1. PICK j \in 1..Len(s) : Of(s, u) = {j}
    BY <1>8 DEF One
  <2>2. PICK m : m = IF j < k THEN j ELSE j + 1
    OBVIOUS
  <2>3. m \in 1..Len(r) /\ r[m] = s[j]
    BY <1>3, <1>4, <2>2, SMTT(20)
  <2>4. s[j].type = u /\ \A i \in 1..Len(s) : i # j => s[i].type # u
    BY <2>1 DEF Of
  <2>5. ASSUME NEW i \in 1..Len(r), i # m PROVE r[i].type # u
    <3>1. CASE i = k
      BY <1>1, <1>4, <1>8, <3>1
    <3>2. CASE i # k
      <4>1. PICK l \in 1..Len(s) : l = (IF i < k THEN i ELSE i - 1) /\ r[i] = s[l]
        BY <1>5, <3>2
      <4>2. l # j
        BY <1>3, <1>4, <2>2, <2>5, <3>2, <4>1, SMTT(20)
      <4> QED
        BY <2>4, <4>1, <4>2
    <3> QED
      BY <3>1, <3>2
  <2>6. Of(r, u) = {m}
    BY <2>3, <2>4, <2>5 DEF Of
  <2> QED
    BY <2>3, <2>6 DEF One
<1> QED
  BY <1>2, <1>4, <1>6, <1>7, <1>8

(* Taking the first interrupt off removes the one of its type and no       *)
(* other.                                                                  *)
LEMMA TailCount ==
  ASSUME NEW s \in Seq(Entries), s # <<>>, NEW type, Head(s).type = type
  PROVE  /\ Tail(s) \in Seq(Entries)
         /\ ~ None(s, type)
         /\ One(s, type) => None(Tail(s), type)
         /\ \A u \in Types \ {type} : /\ None(s, u) => None(Tail(s), u)
                                      /\ One(s, u) => One(Tail(s), u)
<1> DEFINE r == Tail(s)
<1>1. /\ r \in Seq(Entries) /\ Len(s) \in Nat \ {0} /\ Len(r) = Len(s) - 1
      /\ \A i \in 1..Len(r) : r[i] = s[i + 1]
      /\ s[1].type = type
  BY TailLemma
<1> HIDE DEF r
<1>2. \A i \in 1..Len(r) : i + 1 \in 1..Len(s) /\ i + 1 # 1
  BY <1>1, SMTT(20)
<1>3. ASSUME One(s, type) PROVE None(r, type)
  <2>1. PICK j \in 1..Len(s) : Of(s, type) = {j}
    BY <1>3 DEF One
  <2>2. 1 \in Of(s, type)
    BY <1>1, SMTT(20) DEF Of
  <2>3. \A i \in 1..Len(s) : i # 1 => s[i].type # type
    BY <2>1, <2>2, SMTT(20) DEF Of
  <2>4. \A i \in 1..Len(r) : r[i].type # type
    BY <1>1, <1>2, <2>3
  <2> QED
    BY <2>4 DEF None, Of
<1>4. ASSUME NEW u \in Types \ {type}, None(s, u) PROVE None(r, u)
  <2>1. \A i \in 1..Len(r) : r[i].type # u
    BY <1>1, <1>2, <1>4 DEF None, Of
  <2> QED
    BY <2>1 DEF None, Of
<1>5. ASSUME NEW u \in Types \ {type}, One(s, u) PROVE One(r, u)
  <2>1. PICK j \in 1..Len(s) : Of(s, u) = {j}
    BY <1>5 DEF One
  <2>2. s[j].type = u /\ \A i \in 1..Len(s) : i # j => s[i].type # u
    BY <2>1 DEF Of
  <2>3. j # 1
    BY <1>1, <1>5, <2>2
  <2>4. PICK m \in 1..Len(r) : m = j - 1
    BY <1>1, <2>3, SMTT(20)
  <2>5. m + 1 = j
    BY <1>1, <2>4, SMTT(20)
  <2>6. r[m].type = u
    BY <1>1, <2>2, <2>4, <2>5
  <2>7. \A i \in 1..Len(r) : i # m => r[i].type # u
    BY <1>1, <1>2, <2>2, <2>4, <2>5, SMTT(20)
  <2>8. Of(r, u) = {m}
    BY <2>6, <2>7 DEF Of
  <2> QED
    BY <2>8 DEF One
<1>6. ~ None(s, type)
  BY <1>1, SMTT(20) DEF None, Of
<1> QED
  BY <1>1, <1>3, <1>4, <1>5, <1>6 DEF r

(* OneEach, in these terms.                                                *)
Counts(s, disk, display) ==
  /\ One(s, "TimerInt") /\ One(s, "NetworkRecvInt")
  /\ disk => One(s, "DiskInt")
  /\ ~disk => None(s, "DiskInt")
  /\ display => One(s, "ConsoleWriteInt")
  /\ ~display => None(s, "ConsoleWriteInt")

EInv == OInv /\ Counts(pending, active, putBusy) /\ ~halted

LEMMA OneEachInit == InterruptInit => EInv
<1> SUFFICES ASSUME InterruptInit PROVE EInv
  OBVIOUS
<1>1. PICK delay \in Delays :
        pending = Schedule(Schedule(<<>>, delay, "TimerInt"), NetworkTime, "NetworkRecvInt")
  BY DEF InterruptInit
<1>2. delay \in Nat \ {0} /\ NetworkTime \in Nat \ {0} /\ totalTicks \in Nat
  BY TimesAssumption, SMTT(20) DEF Delays, InterruptInit
<1>3. <<>> \in Seq(Entries) /\ \A u \in Types : None(<<>>, u)
  BY EmptySeq, SMTT(20) DEF None, Of
<1> DEFINE first == Schedule(<<>>, delay, "TimerInt")
<1>4. /\ first \in Seq(Entries) /\ One(first, "TimerInt")
      /\ \A u \in Types \ {"TimerInt"} : None(first, u)
  BY <1>2, <1>3, ScheduleCount DEF Types
<1> HIDE DEF first
<1>5. /\ One(pending, "NetworkRecvInt") /\ One(pending, "TimerInt")
      /\ None(pending, "DiskInt") /\ None(pending, "ConsoleWriteInt")
  BY <1>1, <1>2, <1>4, ScheduleCount, SMTT(20) DEF Types, first
<1> QED
  BY <1>5, OnTimeInit DEF EInv, Counts, InterruptInit, DiskInit

LEMMA OneEachStep == EInv /\ [InterruptNext]_interruptVars => EInv'
<1> SUFFICES ASSUME EInv, [InterruptNext]_interruptVars PROVE EInv'
  OBVIOUS
<1> USE DEF diskVars
<1>1. OInv /\ OInv' /\ totalTicks \in Nat /\ pending \in Seq(Entries) /\ ~ halted
  BY OnTimeStep DEF EInv, OInv, TimesOK
<1>2. ASSUME NEW tick, OneTick(tick) PROVE EInv'
  BY <1>1, <1>2 DEF OneTick, EInv
<1>3. CASE Idle
  <2>1. pending # <<>>
    BY <1>1, EmptySeq, SMTT(20) DEF EInv, Counts, One
  <2> QED
    BY <1>1, <1>3, <2>1 DEF Idle, EInv
<1>4. ASSUME inHandler
      PROVE  /\ pending # <<>> /\ Tail(pending) \in Seq(Entries)
             /\ \A type \in Types : Head(pending).type = type =>
                  /\ ~ None(pending, type)
                  /\ One(pending, type) => None(Tail(pending), type)
                  /\ \A u \in Types \ {type} :
                       /\ None(pending, u) => None(Tail(pending), u)
                       /\ One(pending, u) => One(Tail(pending), u)
  BY <1>1, <1>4, RestOnTime, TailCount
<1>5. CASE TimerCallBack
  <2>1. PICK delay \in Delays : pending' = Schedule(Tail(pending), delay, "TimerInt")
    BY <1>5 DEF TimerCallBack
  <2>2. delay \in Nat \ {0}
    BY TimesAssumption, SMTT(20) DEF Delays
  <2>3. /\ inHandler /\ Head(pending).type = "TimerInt"
        /\ UNCHANGED <<halted, diskVars, putBusy>>
    BY <1>5 DEF TimerCallBack, Handle
  <2>4. Counts(pending', active, putBusy)
    BY <1>1, <1>4, <2>1, <2>2, <2>3, ScheduleCount DEF EInv, Counts, Types
  <2> QED
    BY <1>1, <2>3, <2>4 DEF EInv
<1>6. CASE NetworkCallBack
  <2>1. /\ inHandler /\ Head(pending).type = "NetworkRecvInt"
        /\ pending' = Schedule(Tail(pending), NetworkTime, "NetworkRecvInt")
        /\ UNCHANGED <<halted, diskVars, putBusy>>
    BY <1>6 DEF NetworkCallBack, Handle
  <2>2. Counts(pending', active, putBusy)
    BY <1>1, <1>4, <2>1, ScheduleCount, TimesAssumption DEF EInv, Counts, Types
  <2> QED
    BY <1>1, <2>1, <2>2 DEF EInv
<1>7. CASE DiskCallBack
  <2>1. /\ inHandler /\ Head(pending).type = "DiskInt" /\ pending' = Tail(pending)
        /\ active' = FALSE /\ UNCHANGED <<halted, putBusy>>
    BY <1>7 DEF DiskCallBack, Handle
  <2>2. None(pending', "DiskInt")
    BY <1>4, <2>1 DEF EInv, Counts, Types
  <2> QED
    BY <1>1, <1>4, <2>1, <2>2 DEF EInv, Counts, Types
<1>8. CASE DisplayCallBack
  <2>1. /\ inHandler /\ Head(pending).type = "ConsoleWriteInt" /\ pending' = Tail(pending)
        /\ putBusy' = FALSE /\ UNCHANGED <<halted, active>>
    BY <1>8 DEF DisplayCallBack, Handle
  <2> QED
    BY <1>1, <1>4, <2>1 DEF EInv, Counts, Types
<1>9. ASSUME NEW sector \in Sectors, NEW writing \in BOOLEAN, Request(sector, writing)
      PROVE  EInv'
  <2>1. ComputeLatency(sector, writing) \in Nat \ {0}
    BY <1>1, LatencyPositive DEF OInv, Sectors
  <2>2. /\ ~ active /\ active' = TRUE /\ UNCHANGED <<halted, putBusy>>
        /\ pending' = Schedule(pending, ComputeLatency(sector, writing), "DiskInt")
    BY <1>9 DEF Request
  <2>3. Counts(pending', TRUE, putBusy)
    BY <1>1, <2>1, <2>2, ScheduleCount DEF EInv, Counts, Types
  <2> QED
    BY <1>1, <2>2, <2>3 DEF EInv
<1>10. CASE PutChar
  <2>1. /\ ~ putBusy /\ putBusy' = TRUE /\ UNCHANGED <<halted, active>>
        /\ pending' = Schedule(pending, ConsoleTime, "ConsoleWriteInt")
    BY <1>10 DEF PutChar
  <2>2. Counts(pending', active, TRUE)
    BY <1>1, <2>1, ScheduleCount, TimesAssumption DEF EInv, Counts, Types
  <2> QED
    BY <1>1, <2>1, <2>2 DEF EInv
<1>11. CASE UNCHANGED interruptVars
  BY <1>1, <1>11 DEF interruptVars, EInv
<1> QED
  BY <1>2, <1>3, <1>5, <1>6, <1>7, <1>8, <1>9, <1>10, <1>11 DEF InterruptNext

(* Every busy device has exactly one interrupt pending and an idle one     *)
(* none, and the timer and the network input always have one, so that      *)
(* Interrupt::Idle never halts the machine.                                *)
THEOREM OneEachCorrect == InterruptSpec => []OneEach
<1>1. EInv => OneEach
  BY SMTT(20) DEF EInv, Counts, One, None, Of, OneEach, Outstanding
<1> QED
  BY <1>1, OneEachInit, OneEachStep, PTL DEF InterruptSpec

-----------------------------------------------------------------------------
(***************************************************************************)
(* The disk takes the time that a rotating disk takes.  Times are counted  *)
(* in sector times: at R * k, R being RotationTime, the sectors k % N pass *)
(* under the head, N being SectorsPerTrack.                                *)
(***************************************************************************)
(* A multiple of n grows by n at least when the factor grows.              *)
LEMMA ProductGrows ==
  ASSUME NEW n \in Nat, NEW a \in Nat, NEW b \in Nat, a < b
  PROVE  n * a + n <= n * b /\ n * a \in Nat /\ n * b \in Nat
<1> DEFINE c == b - a - 1
<1>1. c \in Nat /\ b = a + 1 + c
  BY SMTT(20)
<1> HIDE DEF c
<1>2. n * c \in Nat /\ n * a \in Nat
  BY <1>1, SMTT(20)
<1>3. n * b = n * a + n + n * c
  BY <1>1, SMTT(20)
<1> QED
  BY <1>2, <1>3, SMTT(20)

(* Quotient and remainder are the only ones.                               *)
LEMMA DivModUnique ==
  ASSUME NEW n \in Nat \ {0}, NEW q \in Nat, NEW r \in 0..(n - 1)
  PROVE  (n * q + r) \div n = q /\ (n * q + r) % n = r
<1> DEFINE a == n * q + r
           k == a \div n
           s == a % n
<1>1. a \in Nat /\ n * q \in Nat
  BY SMTT(20)
<1>2. k \in Nat /\ s \in Nat /\ a = n * k + s /\ s < n
  BY <1>1, DivMod, SMTT(20)
<1>3. a = n * q + r
  BY SMTT(20)
<1> HIDE DEF a, k, s
<1>4. ~ (q < k)
  <2>1. q < k => n * q + n <= n * k
    BY <1>2, ProductGrows, SMTT(20)
  <2> QED
    BY <1>1, <1>2, <1>3, <2>1, SMTT(20)
<1>5. ~ (k < q)
  <2>1. k < q => n * k + n <= n * q
    BY <1>2, ProductGrows, SMTT(20)
  <2> QED
    BY <1>1, <1>2, <1>3, <2>1, SMTT(20)
<1>6. k = q
  BY <1>2, <1>4, <1>5, SMTT(20)
<1>7. s = r
  BY <1>1, <1>2, <1>3, <1>6, SMTT(20)
<1> QED
  BY <1>6, <1>7, SMTT(20) DEF a, k, s

(* The multiples of n.                                                     *)
LEMMA Multiples ==
  ASSUME NEW n \in Nat \ {0}, NEW q \in Nat
  PROVE  (n * q) \div n = q /\ (n * q) % n = 0 /\ n * q \in Nat
<1>1. n * q + 0 = n * q /\ n * q \in Nat /\ 0 \in 0..(n - 1)
  BY SMTT(20)
<1> QED
  BY <1>1, DivModUnique, SMTT(20)

(* Two numbers that leave the same remainder are equal or n apart.         *)
LEMMA SameRemainder ==
  ASSUME NEW n \in Nat \ {0}, NEW a \in Nat, NEW b \in Nat, a % n = b % n, a < b
  PROVE  a + n <= b
<1> DEFINE k == a \div n
           l == b \div n
           r == a % n
<1>1. k \in Nat /\ l \in Nat /\ r \in Nat /\ a = n * k + r /\ b = n * l + r
  BY DivMod, SMTT(20)
<1> HIDE DEF k, l, r
<1>2. n * k \in Nat /\ n * l \in Nat
  BY <1>1, SMTT(20)
<1>3. k < l
  <2>1. l < k => n * l + n <= n * k
    BY <1>1, ProductGrows, SMTT(20)
  <2> QED
    BY <1>1, <1>2, <2>1, SMTT(20)
<1>4. n * k + n <= n * l
  BY <1>1, <1>3, ProductGrows, SMTT(20)
<1> QED
  BY <1>1, <1>2, <1>4, SMTT(20)

(* Disk::ModuloDiff: how many sectors behind "from" the sector "to" comes. *)
LEMMA ModuloDiffLemma ==
  ASSUME NEW to \in Nat, NEW from \in Nat
  PROVE  /\ ModuloDiff(to, from) \in 0..(SectorsPerTrack - 1)
         /\ (from + ModuloDiff(to, from)) % SectorsPerTrack = to % SectorsPerTrack
<1> DEFINE n == SectorsPerTrack
           x == to % n
           y == from % n
           q == from \div n
<1>1. n \in Nat \ {0}
  BY TimesAssumption, SMTT(20)
<1>2. x \in 0..(n - 1) /\ y \in 0..(n - 1) /\ q \in Nat /\ from = n * q + y
  BY <1>1, DivMod, SMTT(20)
<1>3. ModuloDiff(to, from) = ((x - y) + n) % n
  BY SMTT(20) DEF ModuloDiff
<1> HIDE DEF n, x, y, q
<1>4. CASE x < y
  <2>1. (x - y) + n \in 0..(n - 1) /\ n * 0 = 0
    BY <1>1, <1>2, <1>4, SMTT(20)
  <2>2. ((x - y) + n) % n = (x - y) + n
    BY <1>1, <2>1, DivModUnique, SMTT(20)
  <2>3. from + ((x - y) + n) = n * (q + 1) + x
    BY <1>1, <1>2, SMTT(20)
  <2>4. (n * (q + 1) + x) % n = x
    BY <1>1, <1>2, DivModUnique, SMTT(20)
  <2> QED
    BY <1>3, <2>1, <2>2, <2>3, <2>4, SMTT(20) DEF n, x
<1>5. CASE ~ (x < y)
  <2>1. x - y \in 0..(n - 1) /\ (x - y) + n = n * 1 + (x - y)
    BY <1>1, <1>2, <1>5, SMTT(20)
  <2>2. ((x - y) + n) % n = x - y
    <3>1. ASSUME NEW d \in 0..(n - 1) PROVE (n * 1 + d) % n = d
      <4>1. 1 \in Nat
        BY SMTT(20)
      <4> QED
        BY <1>1, <4>1, DivModUnique
    <3> QED
      BY <2>1, <3>1
  <2>3. from + (x - y) = n * q + x
    BY <1>1, <1>2, SMTT(20)
  <2>4. (n * q + x) % n = x
    BY <1>1, <1>2, DivModUnique, SMTT(20)
  <2> QED
    BY <1>3, <2>1, <2>2, <2>3, <2>4, SMTT(20) DEF n, x
<1> QED
  BY <1>4, <1>5, SMTT(20)

(* The next time, from sector time c on, at which a sector passes.         *)
LEMMA NextPass ==
  ASSUME NEW sector \in Nat, NEW c \in Nat
  PROVE  LET k == c + ModuloDiff(sector, c)
         IN  /\ k \in c..(c + SectorsPerTrack - 1)
             /\ RotationTime * k \in Nat /\ Passes(sector, RotationTime * k)
             /\ \A u \in Nat : Passes(sector, u) /\ RotationTime * c < u + RotationTime
                  => RotationTime * k <= u
<1> DEFINE n == SectorsPerTrack
           R == RotationTime
           k == c + ModuloDiff(sector, c)
<1>1. n \in Nat \ {0} /\ R \in Nat \ {0}
  BY TimesAssumption, SMTT(20)
<1>2. k \in c..(c + n - 1) /\ k % n = sector % n
  <2>1. ModuloDiff(sector, c) \in 0..(n - 1) /\ k % n = sector % n
    BY ModuloDiffLemma
  <2> HIDE DEF n
  <2> QED
    BY <1>1, <2>1, SMTT(20)
<1> HIDE DEF k
<1>3. R * k \in Nat /\ Passes(sector, R * k)
  <2>1. k \in Nat
    BY <1>1, <1>2, SMTT(20)
  <2> QED
    BY <1>1, <1>2, <2>1, Multiples, SMTT(20) DEF Passes
<1>4. ASSUME NEW u \in Nat, Passes(sector, u), R * c < u + R
      PROVE  R * k <= u
  <2> DEFINE j == u \div R
  <2>1. j \in Nat /\ u = R * j + 0 /\ j % n = sector % n
    BY <1>1, <1>4, DivMod, SMTT(20) DEF Passes
  <2> HIDE DEF j
  <2>2. R * j \in Nat /\ R * c \in Nat /\ R * k \in Nat /\ u = R * j /\ k \in Nat
    BY <1>1, <1>2, <2>1, SMTT(20)
  <2>3. ~ (j < c)
    <3>1. j < c => R * j + R <= R * c
      BY <1>1, <2>1, ProductGrows, SMTT(20)
    <3> QED
      BY <1>1, <1>4, <2>2, <3>1, SMTT(20)
  <2>4. ~ (j < k)
    <3>1. j < k => j + n <= k
      BY <1>1, <1>2, <2>1, <2>2, SameRemainder
    <3> QED
      BY <1>1, <1>2, <2>1, <2>3, <3>1, SMTT(20)
  <2>5. k < j => R * k + R <= R * j
    BY <1>1, <2>1, <2>2, ProductGrows, SMTT(20)
  <2> QED
    BY <1>1, <2>1, <2>2, <2>4, <2>5, SMTT(20)
<1> QED
  BY <1>1, <1>2, <1>3, <1>4, SMTT(20) DEF k

(* Disk::TimeToSeek: the head has settled at the first sector boundary     *)
(* after the seek, and there is no seek exactly on the same track.         *)
LEMMA HeadSettles ==
  ASSUME TimesOK, NEW sector \in Sectors
  PROVE  /\ sector \in Nat /\ totalTicks \in Nat
         /\ SeekOf(sector) \in Nat /\ RotationOf(sector) \in Nat
         /\ TimeAfter(sector) \in Nat /\ TimeAfter(sector) \div RotationTime \in Nat
         /\ TimeAfter(sector) = totalTicks + SeekOf(sector) + RotationOf(sector)
         /\ RotationOf(sector) < RotationTime
         /\ TimeAfter(sector) = RotationTime * (TimeAfter(sector) \div RotationTime)
         /\ TimeAfter(sector) % RotationTime = 0
         /\ SeekOf(sector) = 0 <=> Track(sector) = Track(lastSector)
<1> DEFINE R == RotationTime
           d == Distance(Track(sector), Track(lastSector))
           A == totalTicks + SeekOf(sector)
<1>1. /\ R \in Nat \ {0} /\ SeekTime \in Nat \ {0} /\ SectorsPerTrack \in Nat \ {0}
      /\ sector \in Nat /\ totalTicks \in Nat /\ lastSector \in Nat
  BY TimesAssumption, SMTT(20) DEF Sectors, TimesOK
<1>2. d \in Nat /\ (d = 0 <=> Track(sector) = Track(lastSector))
  <2>1. Track(sector) \in Nat /\ Track(lastSector) \in Nat
    BY <1>1, DivMod DEF Track
  <2> QED
    BY <2>1, SMTT(20) DEF Distance
<1>3. SeekOf(sector) = d * SeekTime
  BY DEF SeekOf
<1> HIDE DEF d
<1>4. SeekOf(sector) \in Nat /\ (SeekOf(sector) = 0 <=> d = 0)
  <2>1. 0 < d => SeekTime * 0 + SeekTime <= SeekTime * d
    BY <1>1, <1>2, ProductGrows, SMTT(20)
  <2>2. SeekTime * d = d * SeekTime /\ SeekTime * 0 = 0 /\ d * SeekTime \in Nat
    BY <1>1, <1>2, SMTT(20)
  <2> QED
    BY <1>1, <1>2, <1>3, <2>1, <2>2, SMTT(20)
<1>5. A \in Nat
  BY <1>1, <1>4, SMTT(20)
<1>6. RotationOf(sector) = (IF A % R > 0 THEN R - (A % R) ELSE 0)
  BY DEF RotationOf
<1>7. TimeAfter(sector) = A + RotationOf(sector)
  BY DEF TimeAfter
<1> HIDE DEF A, R
<1>8. PICK q \in Nat, over \in Nat : /\ q = A \div R /\ over = A % R
                                    /\ A = R * q + over /\ over < R
  BY <1>1, <1>5, DivMod
<1>9. RotationOf(sector) \in Nat /\ RotationOf(sector) < R
  BY <1>1, <1>6, <1>8, SMTT(20)
<1>10. PICK c \in Nat : A + RotationOf(sector) = R * c
  <2>1. CASE over > 0
    <3>1. q + 1 \in Nat /\ R * (q + 1) = R * q + R /\ R * q \in Nat
      BY <1>1, <1>8, SMTT(20)
    <3>2. RotationOf(sector) = R - over
      BY <1>6, <1>8, <2>1
    <3>3. A + RotationOf(sector) = R * (q + 1)
      BY <1>1, <1>8, <3>1, <3>2, SMTT(20)
    <3> QED
      BY <3>1, <3>3
  <2>2. CASE ~ (over > 0)
    <3>1. RotationOf(sector) = 0
      BY <1>6, <1>8, <2>2
    <3>2. A + RotationOf(sector) = R * q
      BY <1>1, <1>5, <1>8, <2>2, <3>1, SMTT(20)
    <3> QED
      BY <3>2
  <2> QED
    BY <2>1, <2>2
<1>11. /\ TimeAfter(sector) = R * c /\ TimeAfter(sector) \in Nat
       /\ TimeAfter(sector) \div R = c /\ TimeAfter(sector) % R = 0
  <2>1. TimeAfter(sector) = R * c
    BY <1>7, <1>10
  <2>2. (R * c) \div R = c /\ (R * c) % R = 0 /\ R * c \in Nat
    BY <1>1, Multiples
  <2> QED
    BY <2>1, <2>2
<1> QED
  BY <1>1, <1>2, <1>4, <1>7, <1>9, <1>11 DEF A, R

(* Where the head settles, ModuloDiff counts the sectors to the first pass *)
(* of the wanted one since the end of the seek.                            *)
LEMMA FirstPassLemma ==
  ASSUME TimesOK, NEW sector \in Sectors
  PROVE  LET c == TimeAfter(sector) \div RotationTime
         IN  FirstPass(sector, totalTicks + SeekOf(sector))
               = TimeAfter(sector) + ModuloDiff(sector, c) * RotationTime
<1> DEFINE R == RotationTime
           n == SectorsPerTrack
           A == totalTicks + SeekOf(sector)
           T == TimeAfter(sector)
           c == T \div R
           m == ModuloDiff(sector, c)
           P(t) == Passes(sector, t) /\ \A u \in A..(t - 1) : ~Passes(sector, u)
<1>1. R \in Nat \ {0} /\ n \in Nat \ {0}
  BY TimesAssumption, SMTT(20)
<1>2. /\ sector \in Nat /\ A \in Nat /\ T \in Nat /\ c \in Nat
      /\ T = R * c /\ A <= T /\ T < A + R
  <2>1. /\ T = A + RotationOf(sector) /\ A \in Nat
        /\ RotationOf(sector) \in Nat /\ RotationOf(sector) < R
    BY HeadSettles, SMTT(20)
  <2>2. sector \in Nat /\ T \in Nat /\ c \in Nat /\ T = R * c
    BY HeadSettles
  <2> HIDE DEF T, A, R, c
  <2> QED
    BY <1>1, <2>1, <2>2, SMTT(20)
<1>3. /\ m \in 0..(n - 1) /\ R * (c + m) \in Nat /\ Passes(sector, R * (c + m))
      /\ \A u \in Nat : Passes(sector, u) /\ R * c < u + R => R * (c + m) <= u
  BY <1>2, ModuloDiffLemma, NextPass
<1>4. FirstPass(sector, A) = CHOOSE t \in A..(A + R * n) : P(t)
  BY DEF FirstPass
<1> HIDE DEF R, n, A, T, c, m
<1>5. R * (c + m) = T + m * R /\ R * (c + m) >= T
  <2>1. R * (c + m) = R * c + m * R /\ m * R \in Nat
    BY <1>1, <1>2, <1>3, SMTT(20)
  <2> QED
    BY <1>2, <2>1, SMTT(20)
<1>6. R * (c + m) \in A..(A + R * n)
  <2>1. R * m + R <= R * n /\ R * m = m * R /\ R * n \in Nat /\ R * m \in Nat
    BY <1>1, <1>3, ProductGrows, SMTT(20)
  <2> QED
    BY <1>1, <1>2, <1>3, <1>5, <2>1, SMTT(30)
<1>7. P(R * (c + m))
  BY <1>1, <1>2, <1>3, SMTT(20)
<1>8. ASSUME NEW t \in A..(A + R * n), P(t)
      PROVE  t = R * (c + m)
  <2>1. t \in Nat /\ R * n \in Nat
    BY <1>1, <1>2, SMTT(20)
  <2>2. R * (c + m) <= t
    BY <1>1, <1>2, <1>3, <1>8, <2>1, SMTT(20)
  <2>3. ~ (R * (c + m) < t)
    BY <1>3, <1>6, <1>8, <2>1, SMTT(20)
  <2> QED
    BY <1>3, <2>1, <2>2, <2>3, SMTT(20)
<1> DEFINE f == CHOOSE t \in A..(A + R * n) : P(t)
<1>9. f \in A..(A + R * n) /\ P(f)
  BY <1>6, <1>7
<1>10. FirstPass(sector, A) = R * (c + m)
  BY <1>4, <1>8, <1>9
<1> QED
  BY <1>5, <1>10 DEF R, A, T, c, m

(* The track buffer holds exactly the sectors that have passed since the   *)
(* head arrived on the track.                                              *)
LEMMA TrackLemma ==
  ASSUME TimesOK, NEW sector \in Sectors,
         bufferInit % RotationTime = 0, bufferInit <= totalTicks
  PROVE  InTrackBuffer(sector) <=>
           /\ Track(sector) = Track(lastSector)
           /\ \E t \in bufferInit..(TimeAfter(sector) - RotationTime) :
                Passes(sector, t)
<1> DEFINE R == RotationTime
           T == TimeAfter(sector)
           c == T \div R
           b == bufferInit \div R
           m == ModuloDiff(sector, b)
<1>1. R \in Nat \ {0} /\ bufferInit \in Nat /\ totalTicks \in Nat
  BY TimesAssumption DEF TimesOK
<1>2. b \in Nat /\ bufferInit = R * b
  BY <1>1, DivMod, SMTT(20)
<1>3. sector \in Nat /\ T \in Nat /\ c \in Nat /\ T = R * c
  BY HeadSettles
<1>4. totalTicks <= T
  <2>1. /\ T = totalTicks + SeekOf(sector) + RotationOf(sector)
        /\ SeekOf(sector) \in Nat /\ RotationOf(sector) \in Nat
    BY HeadSettles
  <2> HIDE DEF T
  <2> QED
    BY <1>1, <2>1, SMTT(20)
<1>5. /\ m \in Nat /\ R * (b + m) \in Nat /\ Passes(sector, R * (b + m))
      /\ \A u \in Nat : Passes(sector, u) /\ R * b < u + R => R * (b + m) <= u
  <2>1. m \in 0..(SectorsPerTrack - 1)
    BY <1>2, <1>3, ModuloDiffLemma
  <2>2. m \in Nat
    BY <2>1, TimesAssumption, SMTT(20)
  <2> QED
    BY <1>2, <1>3, <2>2, NextPass
<1>6. InTrackBuffer(sector) <=> SeekOf(sector) = 0 /\ (T - bufferInit) \div R > m
  BY DEF InTrackBuffer
<1>7. SeekOf(sector) = 0 <=> Track(sector) = Track(lastSector)
  BY HeadSettles
<1> HIDE DEF R, T, c, b, m
<1>8. c - b \in Nat /\ T - bufferInit = R * (c - b)
  <2>1. c < b => R * c + R <= R * b
    BY <1>1, <1>2, <1>3, ProductGrows, SMTT(20)
  <2>2. ~ (c < b)
    BY <1>1, <1>2, <1>3, <1>4, <2>1, SMTT(20)
  <2>3. R * (c - b) = R * c - R * b
    BY <1>1, <1>2, <1>3, SMTT(20)
  <2> QED
    BY <1>2, <1>3, <2>2, <2>3, SMTT(20)
<1>9. (T - bufferInit) \div R = c - b
  BY <1>1, <1>8, Multiples
<1>10. ASSUME c - b > m
       PROVE  \E t \in bufferInit..(T - R) : Passes(sector, t)
  <2>1. R * (b + m) + R <= R * c
    <3>1. b + m < c /\ b + m \in Nat
      BY <1>2, <1>3, <1>5, <1>10, SMTT(20)
    <3> QED
      BY <1>1, <1>3, <3>1, ProductGrows, SMTT(20)
  <2>2. R * (b + m) >= R * b
    <3>1. R * (b + m) = R * b + R * m /\ R * m \in Nat /\ R * b \in Nat
      BY <1>1, <1>2, <1>5, SMTT(20)
    <3> QED
      BY <1>5, <3>1, SMTT(20)
  <2>3. R * (b + m) \in bufferInit..(T - R)
    BY <1>1, <1>2, <1>3, <1>5, <2>1, <2>2, SMTT(20)
  <2> QED
    BY <1>5, <2>3
<1>11. ASSUME NEW t \in bufferInit..(T - R), Passes(sector, t)
       PROVE  c - b > m
  <2>1. R * (b + m) <= t /\ t \in Nat
    BY <1>1, <1>2, <1>5, <1>11, SMTT(20)
  <2>2. R * (b + m) + R <= R * c
    BY <1>1, <1>3, <1>5, <2>1, SMTT(20)
  <2>3. c < b + m => R * c + R <= R * (b + m)
    BY <1>1, <1>2, <1>3, <1>5, ProductGrows, SMTT(20)
  <2>4. ~ (c < b + m) /\ c # b + m
    BY <1>1, <1>3, <1>5, <2>2, <2>3, SMTT(20)
  <2> QED
    BY <1>2, <1>3, <1>5, <2>4, SMTT(20)
<1> QED
  BY <1>6, <1>7, <1>9, <1>10, <1>11 DEF R, T

-----------------------------------------------------------------------------
(* The head arrived on its track at a sector boundary: in the past when    *)
(* the disk is idle, and otherwise before the interrupt of the request     *)
(* that moved it.                                                          *)
Settled ==
  /\ bufferInit % RotationTime = 0
  /\ ~active => bufferInit <= totalTicks
  /\ \A i \in 1..Len(pending) :
       pending[i].type = "DiskInt" => bufferInit <= pending[i].when

TInv == EInv /\ Settled

(* Interrupt::Schedule leaves the interrupts that are pending as they are. *)
LEMMA ScheduleEntries ==
  ASSUME totalTicks \in Nat, NEW s \in Seq(Entries), NEW delay \in Nat \ {0},
         NEW type \in Types
  PROVE  \A i \in 1..Len(Schedule(s, delay, type)) :
           LET e == Schedule(s, delay, type)[i]
           IN  \/ e.type = type /\ e.when = totalTicks + delay
               \/ \E j \in 1..Len(s) : e = s[j]
<1> DEFINE p == [when |-> totalTicks + delay, type |-> type]
           r == Inserted(s, p)
           k == Position(s, p.when)
<1>1. p \in Entries /\ p.type = type /\ p.when = totalTicks + delay /\ p.when \in Nat
  BY SMTT(20) DEF Entries
<1>2. Schedule(s, delay, type) = r
  BY DEF Schedule
<1> HIDE DEF p
<1>3. k \in 1..(Len(s) + 1) /\ Len(s) \in Nat
  BY <1>1, PositionLemma, EntryTypes
<1>4. /\ Len(r) = Len(s) + 1
      /\ \A i \in 1..(Len(s) + 1) :
           r[i] = IF i < k THEN s[i] ELSE IF i = k THEN p ELSE s[i - 1]
  BY <1>1, InsertedLemma
<1> HIDE DEF r, k
<1>5. \A i \in 1..Len(r) : i # k =>
        LET j == IF i < k THEN i ELSE i - 1
        IN  j \in 1..Len(s) /\ r[i] = s[j]
  BY <1>3, <1>4, SMTT(20)
<1>6. r[k] = p
  BY <1>3, <1>4, SMTT(20)
<1> QED
  BY <1>1, <1>2, <1>5, <1>6

(* A step that leaves the disk alone, and only takes interrupts of the     *)
(* disk off the list, keeps Settled.                                       *)
LEMMA SettledKept ==
  ASSUME TimesOK, totalTicks' \in Nat, Settled,
         UNCHANGED bufferInit, totalTicks <= totalTicks', UNCHANGED active,
         \A i \in 1..Len(pending') : pending'[i].type = "DiskInt" =>
           \E j \in 1..Len(pending) : pending'[i] = pending[j]
  PROVE  Settled'
<1>1. bufferInit \in Nat /\ totalTicks \in Nat
  BY DEF TimesOK
<1>2. ~active' => bufferInit' <= totalTicks'
  BY <1>1, SMTT(20) DEF Settled
<1> QED
  BY <1>2 DEF Settled

(* The list when a handler is called: its first interrupt is due, and what *)
(* the handler finds is the rest of it.                                    *)
LEMMA RestEntries ==
  ASSUME OInv, inHandler
  PROVE  /\ 1 \in 1..Len(pending) /\ Head(pending) = pending[1]
         /\ pending[1].when <= totalTicks
         /\ \A i \in 1..Len(Tail(pending)) :
              \E j \in 1..Len(pending) : Tail(pending)[i] = pending[j]
<1>1. pending \in Seq(Entries) /\ pending # <<>> /\ Head(pending).when <= totalTicks
  BY DEF OInv, TimesOK, OnTime, Due
<1>2. /\ Len(pending) \in Nat \ {0} /\ Len(Tail(pending)) = Len(pending) - 1
      /\ \A i \in 1..Len(Tail(pending)) : Tail(pending)[i] = pending[i + 1]
      /\ Head(pending) = pending[1]
  BY <1>1, TailLemma
<1>3. \A i \in 1..Len(Tail(pending)) : i + 1 \in 1..Len(pending)
  BY <1>2, SMTT(20)
<1>4. 1 \in 1..Len(pending)
  BY <1>2, SMTT(20)
<1> QED
  BY <1>1, <1>2, <1>3, <1>4

(* Disk::ReadRequest and WriteRequest: a head that moves settles before    *)
(* the interrupt comes.                                                    *)
LEMMA RequestSettles ==
  ASSUME TInv, NEW sector \in Sectors, NEW writing \in BOOLEAN, Request(sector, writing)
  PROVE  Settled'
<1> DEFINE latency == ComputeLatency(sector, writing)
<1>1. /\ TimesOK /\ totalTicks \in Nat /\ pending \in Seq(Entries)
      /\ bufferInit \in Nat /\ ~active /\ active' = TRUE
      /\ pending' = Schedule(pending, latency, "DiskInt")
      /\ UpdateLast(sector)
  BY DEF TInv, EInv, OInv, TimesOK, Request
<1>2. None(pending, "DiskInt") /\ bufferInit % RotationTime = 0 /\ bufferInit <= totalTicks
  BY <1>1 DEF TInv, EInv, Counts, Settled
<1>3. latency \in Nat \ {0}
  BY <1>1, LatencyPositive
<1>4. bufferInit' \in Nat /\ bufferInit' % RotationTime = 0 /\ bufferInit' <= totalTicks + latency
  <2>1. CASE SeekOf(sector) = 0
    <3>1. bufferInit' = bufferInit
      BY <1>1, <2>1 DEF UpdateLast
    <3> HIDE DEF latency
    <3> QED
      BY <1>1, <1>2, <1>3, <3>1, SMTT(20)
  <2>2. CASE SeekOf(sector) # 0
    <3> DEFINE wait == ModuloDiff(sector, TimeAfter(sector) \div RotationTime)
    <3>1. bufferInit' = TimeAfter(sector)
      BY <1>1, <2>2 DEF UpdateLast
    <3>2. /\ sector \in Nat /\ TimeAfter(sector) \in Nat /\ TimeAfter(sector) % RotationTime = 0
          /\ TimeAfter(sector) \div RotationTime \in Nat
          /\ SeekOf(sector) \in Nat /\ RotationOf(sector) \in Nat
          /\ TimeAfter(sector) = totalTicks + SeekOf(sector) + RotationOf(sector)
      BY <1>1, HeadSettles
    <3>3. latency = SeekOf(sector) + RotationOf(sector) + wait * RotationTime + RotationTime
      BY <2>2 DEF ComputeLatency, InTrackBuffer
    <3>4. wait \in 0..(SectorsPerTrack - 1)
      BY <3>2, ModuloDiffLemma
    <3> HIDE DEF latency, wait
    <3>5. RotationTime \in Nat /\ wait * RotationTime \in Nat
      BY <3>4, TimesAssumption, SMTT(20)
    <3>6. TimeAfter(sector) <= totalTicks + latency
      <4>1. /\ totalTicks \in Nat /\ SeekOf(sector) \in Nat /\ RotationOf(sector) \in Nat
            /\ TimeAfter(sector) = totalTicks + SeekOf(sector) + RotationOf(sector)
        BY <1>1, <3>2
      <4> QED
        BY <3>3, <3>5, <4>1, SMTT(20)
    <3> QED
      BY <3>1, <3>2, <3>6
  <2> QED
    BY <2>1, <2>2
<1>5. ASSUME NEW i \in 1..Len(pending'), pending'[i].type = "DiskInt"
      PROVE  bufferInit' <= pending'[i].when
  <2>1. \A j \in 1..Len(pending) : pending[j].type # "DiskInt"
    BY <1>2 DEF None, Of
  <2>2. "DiskInt" \in Types
    BY DEF Types
  <2>3. \/ pending'[i].when = totalTicks + latency
        \/ \E j \in 1..Len(pending) : pending'[i] = pending[j]
    BY <1>1, <1>3, <2>2, ScheduleEntries
  <2> QED
    BY <1>4, <1>5, <2>1, <2>3
<1> QED
  BY <1>1, <1>4, <1>5 DEF Settled

(* The disk starts with its head on a boundary and no request.            *)
LEMMA SettledInit == InterruptInit => TInv
<1> SUFFICES ASSUME InterruptInit PROVE TInv
  OBVIOUS
<1>1. EInv
  BY OneEachInit
<1>2. bufferInit = 0 /\ totalTicks = 0 /\ active = FALSE
  BY DEF InterruptInit, DiskInit
<1>3. 0 % RotationTime = 0 /\ 0 <= 0
  BY TimesAssumption, SMTT(20)
<1>4. \A i \in 1..Len(pending) : pending[i].type # "DiskInt"
  BY <1>1, <1>2 DEF EInv, Counts, None, Of
<1> QED
  BY <1>1, <1>2, <1>3, <1>4 DEF TInv, Settled

(* Only a request moves the head, and only Disk::CallBack makes the disk   *)
(* idle again, when the time of the interrupt has come.                    *)
LEMMA SettledStep == TInv /\ [InterruptNext]_interruptVars => TInv'
<1> SUFFICES ASSUME TInv, [InterruptNext]_interruptVars PROVE Settled'
  BY OneEachStep DEF TInv
<1> USE DEF diskVars
<1>1. /\ EInv /\ EInv' /\ OInv /\ TimesOK /\ Settled
      /\ totalTicks \in Nat /\ totalTicks' \in Nat /\ pending \in Seq(Entries)
  BY OneEachStep DEF TInv, EInv, OInv, TimesOK
<1>2. totalTicks <= totalTicks
  BY <1>1, SMTT(20)
<1>3. ASSUME pending' = pending, UNCHANGED diskVars, totalTicks <= totalTicks'
      PROVE  Settled'
  BY <1>1, <1>3, SettledKept
<1>4. ASSUME NEW tick \in Nat, OneTick(tick) PROVE Settled'
  <2>1. totalTicks <= totalTicks + tick
    BY <1>1, SMTT(20)
  <2> QED
    BY <1>3, <1>4, <2>1 DEF OneTick
<1>5. CASE Idle
  <2>1. totalTicks' = totalTicks \/ (totalTicks' = Head(pending).when
                                     /\ Head(pending).when > totalTicks)
    BY <1>5 DEF Idle
  <2>2. totalTicks <= totalTicks'
    BY <1>1, <2>1, SMTT(20)
  <2> QED
    BY <1>3, <1>5, <2>2 DEF Idle
<1>6. ASSUME inHandler, NEW delay \in Nat \ {0}, NEW type \in Types \ {"DiskInt"},
             pending' = Schedule(Tail(pending), delay, type),
             UNCHANGED <<totalTicks, diskVars>>
      PROVE  Settled'
  <2>1. Tail(pending) \in Seq(Entries)
    BY <1>1, <1>6, RestOnTime
  <2>2. ASSUME NEW i \in 1..Len(pending'), pending'[i].type = "DiskInt"
        PROVE  \E j \in 1..Len(pending) : pending'[i] = pending[j]
    <3>1. delay \in Nat \ {0} /\ type \in Types /\ type # "DiskInt"
      BY <1>6
    <3>2. \/ pending'[i].type = type
          \/ \E j \in 1..Len(Tail(pending)) : pending'[i] = Tail(pending)[j]
      <4>1. totalTicks \in Nat /\ pending' = Schedule(Tail(pending), delay, type)
        BY <1>1, <1>6
      <4>2. \A k \in 1..Len(Schedule(Tail(pending), delay, type)) :
              LET e == Schedule(Tail(pending), delay, type)[k]
              IN  \/ e.type = type /\ e.when = totalTicks + delay
                  \/ \E j \in 1..Len(Tail(pending)) : e = Tail(pending)[j]
        BY <2>1, <3>1, <4>1, ScheduleEntries
      <4> QED
        BY <4>1, <4>2
    <3>3. \A j \in 1..Len(Tail(pending)) :
            \E k \in 1..Len(pending) : Tail(pending)[j] = pending[k]
      BY <1>1, <1>6, RestEntries
    <3> QED
      BY <2>2, <3>1, <3>2, <3>3
  <2> QED
    BY <1>1, <1>2, <1>6, <2>2, SettledKept
<1>7. CASE TimerCallBack
  <2>1. PICK delay \in Delays : pending' = Schedule(Tail(pending), delay, "TimerInt")
    BY <1>7 DEF TimerCallBack
  <2>2. delay \in Nat \ {0} /\ "TimerInt" \in Types \ {"DiskInt"}
    BY TimesAssumption, SMTT(20) DEF Delays, Types
  <2> QED
    BY <1>6, <1>7, <2>1, <2>2 DEF TimerCallBack, Handle
<1>8. CASE NetworkCallBack
  <2>1. NetworkTime \in Nat \ {0} /\ "NetworkRecvInt" \in Types \ {"DiskInt"}
    BY TimesAssumption, SMTT(20) DEF Types
  <2> QED
    BY <1>6, <1>8, <2>1 DEF NetworkCallBack, Handle
<1>9. CASE DiskCallBack
  <2>1. /\ inHandler /\ Head(pending).type = "DiskInt" /\ pending' = Tail(pending)
        /\ active' = FALSE /\ UNCHANGED <<totalTicks, bufferInit>>
    BY <1>9 DEF DiskCallBack, Handle
  <2>2. /\ 1 \in 1..Len(pending) /\ pending[1].type = "DiskInt"
        /\ pending[1].when <= totalTicks
        /\ \A i \in 1..Len(pending') : \E j \in 1..Len(pending) : pending'[i] = pending[j]
    BY <1>1, <2>1, RestEntries
  <2>3. bufferInit <= pending[1].when
    BY <1>1, <2>2 DEF Settled
  <2>4. bufferInit <= totalTicks
    <3>1. pending[1].when \in Nat
      BY <1>1, <2>2, EntryTypes
    <3>2. bufferInit \in Nat
      BY <1>1 DEF TimesOK
    <3> QED
      BY <1>1, <2>2, <2>3, <3>1, <3>2, SMTT(20)
  <2>5. bufferInit' % RotationTime = 0 /\ (~active' => bufferInit' <= totalTicks')
    BY <1>1, <2>1, <2>4 DEF Settled
  <2>6. ASSUME NEW i \in 1..Len(pending'), pending'[i].type = "DiskInt"
        PROVE  bufferInit' <= pending'[i].when
    <3>1. PICK j \in 1..Len(pending) : pending'[i] = pending[j]
      BY <2>2
    <3> QED
      BY <1>1, <2>1, <2>6, <3>1 DEF Settled
  <2> QED
    BY <2>5, <2>6 DEF Settled
<1>10. CASE DisplayCallBack
  <2>1. inHandler /\ pending' = Tail(pending) /\ UNCHANGED <<totalTicks, diskVars>>
    BY <1>10 DEF DisplayCallBack, Handle
  <2> QED
    BY <1>1, <1>2, <2>1, RestEntries, SettledKept
<1>11. ASSUME NEW sector \in Sectors, NEW writing \in BOOLEAN, Request(sector, writing)
       PROVE  Settled'
  BY <1>11, RequestSettles
<1>12. CASE PutChar
  <2>1. /\ pending' = Schedule(pending, ConsoleTime, "ConsoleWriteInt")
        /\ UNCHANGED <<totalTicks, diskVars>>
    BY <1>12 DEF PutChar
  <2>2. /\ ConsoleTime \in Nat \ {0} /\ "ConsoleWriteInt" \in Types
        /\ "ConsoleWriteInt" # "DiskInt"
    BY TimesAssumption, SMTT(20) DEF Types
  <2>3. ASSUME NEW i \in 1..Len(pending'), pending'[i].type = "DiskInt"
        PROVE  \E j \in 1..Len(pending) : pending'[i] = pending[j]
    <3>1. \/ pending'[i].type = "ConsoleWriteInt"
          \/ \E j \in 1..Len(pending) : pending'[i] = pending[j]
      BY <1>1, <2>1, <2>2, ScheduleEntries
    <3> QED
      BY <2>2, <2>3, <3>1
  <2> QED
    BY <1>1, <1>2, <2>1, <2>3, SettledKept
<1>13. CASE UNCHANGED interruptVars
  BY <1>2, <1>3, <1>13 DEF interruptVars
<1>14. UserTick \in Nat /\ SystemTick \in Nat
  BY TimesAssumption, SMTT(20)
<1> QED
  BY <1>4, <1>5, <1>7, <1>8, <1>9, <1>10, <1>11, <1>12, <1>13, <1>14 DEF InterruptNext

(* Disk::ComputeLatency is what a rotating disk takes, for all rotation    *)
(* and seek times and geometries: the first pass of the sector after the   *)
(* seek, or one transfer for a read of a sector that has gone by since the *)
(* head arrived on the track, which is never in the future.                *)
THEOREM TimingCorrect == InterruptSpec => []DiskTiming
<1>1. TInv => DiskTiming
  <2> SUFFICES ASSUME TInv, ~active PROVE DiskTiming
    BY DEF DiskTiming
  <2>1. TimesOK /\ bufferInit % RotationTime = 0 /\ bufferInit <= totalTicks
    BY DEF TInv, EInv, OInv, Settled
  <2>2. ASSUME NEW sector \in Sectors, NEW writing \in BOOLEAN
        PROVE  LET buffered ==
                     /\ ~writing /\ Track(sector) = Track(lastSector)
                     /\ \E t \in bufferInit..(TimeAfter(sector) - RotationTime) :
                          Passes(sector, t)
                   arrives == totalTicks + SeekOf(sector)
               IN  totalTicks + ComputeLatency(sector, writing) =
                     RotationTime + (IF buffered THEN totalTicks
                                     ELSE FirstPass(sector, arrives))
    <3> DEFINE wait == ModuloDiff(sector, TimeAfter(sector) \div RotationTime)
               first == FirstPass(sector, totalTicks + SeekOf(sector))
               found == ~writing /\ InTrackBuffer(sector)
    <3>1. found <=> /\ ~writing /\ Track(sector) = Track(lastSector)
                    /\ \E t \in bufferInit..(TimeAfter(sector) - RotationTime) :
                         Passes(sector, t)
      BY <2>1, TrackLemma
    <3>2. first = TimeAfter(sector) + wait * RotationTime
      BY <2>1, FirstPassLemma
    <3>3. /\ totalTicks \in Nat /\ SeekOf(sector) \in Nat /\ RotationOf(sector) \in Nat
          /\ TimeAfter(sector) = totalTicks + SeekOf(sector) + RotationOf(sector)
          /\ sector \in Nat /\ TimeAfter(sector) \div RotationTime \in Nat
      BY <2>1, HeadSettles
    <3>4. wait \in 0..(SectorsPerTrack - 1)
      BY <3>3, ModuloDiffLemma
    <3>5. found => ComputeLatency(sector, writing) = RotationTime
      BY DEF ComputeLatency
    <3>6. ~found => ComputeLatency(sector, writing)
                      = SeekOf(sector) + RotationOf(sector) + wait * RotationTime + RotationTime
      BY DEF ComputeLatency
    <3> HIDE DEF wait, first
    <3>7. RotationTime \in Nat /\ wait * RotationTime \in Nat
      BY <3>4, TimesAssumption, SMTT(20)
    <3>8. /\ totalTicks + RotationTime = RotationTime + totalTicks
          /\ totalTicks
                 + (SeekOf(sector) + RotationOf(sector) + wait * RotationTime + RotationTime)
               = RotationTime + first
      <4>1. /\ totalTicks \in Nat /\ SeekOf(sector) \in Nat /\ RotationOf(sector) \in Nat
            /\ TimeAfter(sector) = totalTicks + SeekOf(sector) + RotationOf(sector)
        BY <3>3
      <4> QED
        BY <3>2, <3>7, <4>1, SMTT(20)
    <3>9. totalTicks + ComputeLatency(sector, writing)
            = RotationTime + (IF found THEN totalTicks ELSE first)
      <4>1. CASE found
        BY <3>5, <3>8, <4>1
      <4>2. CASE ~found
        BY <3>6, <3>8, <4>2
      <4> QED
        BY <4>1, <4>2
    <3> HIDE DEF found
    <3> QED
      BY <3>1, <3>9 DEF first
  <2> QED
    BY <2>1, <2>2 DEF DiskTiming
<1> QED
  BY <1>1, SettledInit, SettledStep, PTL DEF InterruptSpec
=============================================================================

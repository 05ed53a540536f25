----------------------------- MODULE FileSystem -----------------------------
(***************************************************************************)
(* The Nachos file system (filesys/filesys.cc, directory.cc, filehdr.cc,   *)
(* openfile.cc, pbitmap.cc and lib/bitmap.cc, built without FILESYS_STUB)  *)
(* on the sectors of its disk, as main() uses it: boot, with or without    *)
(* formatting the disk, then remove files, copy files from UNIX and print  *)
(* them.                                                                   *)
(*                                                                         *)
(* An operation reads what it needs, works on copies in memory and then    *)
(* writes sectors, one at a time and none twice; the machine may stop      *)
(* between any two of them.                                                *)
(***************************************************************************)
EXTENDS Integers, Sequences, FiniteSets, FiniteSetsExt, Functions

CONSTANTS
  NumSectors, SectorSize,     \* the disk; a sector is SectorSize bytes
  NumDirEntries,              \* entries of the directory
  SectorWords,                \* words of a directory entry in one sector
  NumDirect,                  \* data sectors that a header has room for
  TransferSize,               \* the bytes that Copy moves at a time
  Names,
  JunkNames, Junk,            \* names and a byte that uninitialized memory may hold
  Unix,                       \* the UNIX files to copy: the bytes, by Nachos name
  Stdin, Stdout,              \* the names the constructor creates
  Missing

VARIABLES
  disk,     \* the contents of each sector
  image,    \* what they are once the operation in progress has written them
  todo,     \* the sectors it has yet to write, in this order
  op,       \* the operation in progress
  crossed   \* a stop left the map and the directory in contradiction

fsVars == <<disk, image, todo, op, crossed>>

Sectors == 0 .. NumSectors - 1
Entries == 0 .. NumDirEntries - 1

divRoundUp(n, s) == (n + s - 1) \div s

-----------------------------------------------------------------------------
(* A Bitmap is the set of its bits that are set. *)
Test(map, which) == which \in map
Clear(map) == {s \in Sectors : ~ Test(map, s)}
Mark(map, which) == map \cup {which}
Unmark(map, which) == map \ {which}
NumClear(map) == Cardinality(Clear(map))
FindAndSet(map) == IF Clear(map) = {} THEN -1 ELSE Min(Clear(map))

(* The sectors that n calls of FindAndSet return, in that order. *)
FirstFit(map, n) ==
  [i \in 1 .. n |->
     CHOOSE s \in Clear(map) : Cardinality({t \in Clear(map) : t < s}) = i - 1]

(* What a sector holds: a header, the bitmap, a piece of the directory or  *)
(* bytes of a file.  The bytes of the other kinds, when a file is given a  *)
(* sector that held one, are taken to be 0.                                *)
Header(size, secs) == [kind |-> "header", numBytes |-> size, dataSectors |-> secs]
Map(map) == [kind |-> "map", map |-> map]
Piece(words) == [kind |-> "directory", words |-> words]
Block(bytes) == [kind |-> "bytes", bytes |-> bytes]
ByteOf(d, s, i) == IF d[s].kind = "bytes" THEN d[s].bytes[i] ELSE 0

(* FileHeader *)
SectorsOf(hdr) == Range(hdr.dataSectors)
Deallocate(map, hdr) == map \ SectorsOf(hdr)
ByteToSector(hdr, offset) == hdr.dataSectors[offset \div SectorSize + 1]

(* The directory: an entry is three words, so that one entry may lie in    *)
(* two sectors, as entries 6, 12 and 19 of the 20 do.                      *)
DirSectors == divRoundUp(3 * NumDirEntries, SectorWords)
Slice(table, k) ==
  [w \in 0 .. SectorWords - 1 |->
     LET at == k * SectorWords + w
         entry == table[at \div 3]
     IN IF at >= 3 * NumDirEntries THEN 0
        ELSE IF at % 3 = 0 THEN entry.inUse
        ELSE IF at % 3 = 1 THEN entry.sector ELSE entry.name]

(* The headers of the two system files, at FreeMapSector and               *)
(* DirectorySector; format lays them out on an empty bitmap.               *)
mapHdr == Header(SectorSize, <<2>>)
dirHdr == Header(DirSectors * SectorSize, [k \in 1 .. DirSectors |-> 2 + k])
System == Mark(Mark({}, 0), 1) \cup SectorsOf(mapHdr) \cup SectorsOf(dirHdr)

(* The sizes are positive, and the disk and a header have room for the     *)
(* system files (the assertions of the constructor); main() copies files   *)
(* of bytes; the names are those of the files that are created, and        *)
(* Missing is none of them.                                                *)
ASSUME FileSystemAssumption ==
  /\ {NumSectors, SectorSize, NumDirEntries, SectorWords, NumDirect, TransferSize}
       \subseteq Nat \ {0}
  /\ 3 + DirSectors <= NumSectors /\ DirSectors <= NumDirect
  /\ \A n \in DOMAIN Unix : Unix[n] \in Seq(0 .. 255)
  /\ DOMAIN Unix \cup {Stdin, Stdout} \subseteq Names /\ Missing \notin Names

(* PersistentBitmap(file), Directory::FetchFrom, FileHeader::FetchFrom *)
freeMap(d) == d[mapHdr.dataSectors[1]].map
directory(d) ==
  LET word(at) == d[dirHdr.dataSectors[at \div SectorWords + 1]].words[at % SectorWords] IN
  [i \in Entries |->
     [inUse |-> word(3 * i), sector |-> word(3 * i + 1), name |-> word(3 * i + 2)]]
header(d, s) == d[s]

(* PersistentBitmap::WriteBack, Directory::WriteBack, FileHeader::WriteBack *)
WriteMap(map) == <<[sector |-> mapHdr.dataSectors[1], data |-> Map(map)]>>
WriteDirectory(table) ==
  [k \in 1 .. DirSectors |->
     [sector |-> dirHdr.dataSectors[k], data |-> Piece(Slice(table, k - 1))]]
WriteHeader(s, hdr) == <<[sector |-> s, data |-> hdr]>>

(* Directory::FindIndex, Find *)
Found(table, n) == {i \in Entries : table[i].inUse /\ table[i].name = n}
Find(table, n) == IF Found(table, n) = {} THEN -1 ELSE table[Min(Found(table, n))].sector
Unused(table) == {i \in Entries : ~ table[i].inUse}

(* Directory::Add to a directory that has room, Directory::Remove *)
Add(table, n, s) ==
  [table EXCEPT ![Min(Unused(table))] = [inUse |-> TRUE, sector |-> s, name |-> n]]
RemoveEntry(table, n) == [table EXCEPT ![Min(Found(table, n))].inUse = FALSE]

-----------------------------------------------------------------------------
(* Mutant: ReadAt copies from the start of the first sector. *)
ReadAtFromSector(d, hdr, numBytes, position) ==
  LET n == Min({numBytes, hdr.numBytes - position})
      at(i) == (position \div SectorSize) * SectorSize + i
  IN IF numBytes <= 0 \/ position >= hdr.numBytes THEN <<>>
     ELSE [i \in 1 .. n |-> ByteOf(d, ByteToSector(hdr, at(i - 1)), ((i - 1) % SectorSize) + 1)]

(* OpenFile::ReadAt: the bytes it copies out. *)
ReadAt(d, hdr, numBytes, position) ==
  LET n == Min({numBytes, hdr.numBytes - position})
      firstSector == position \div SectorSize
      buf(i) == ByteOf(d, ByteToSector(hdr, firstSector * SectorSize + i), (i % SectorSize) + 1)
  IN IF numBytes <= 0 \/ position >= hdr.numBytes THEN <<>>
     ELSE [i \in 1 .. n |-> buf(position - firstSector * SectorSize + i - 1)]

(* Mutant: WriteAt reads no sector that it is to modify. *)
WriteAtUnread(d, hdr, from, position) ==
  LET n == Min({Len(from), hdr.numBytes - position})
      firstSector == position \div SectorSize
      lastSector == (position + n - 1) \div SectorSize
      buf(s, i) == LET at == s * SectorSize + i - position IN
                   IF at \in 1 .. n THEN from[at] ELSE Junk
  IN [k \in 1 .. lastSector - firstSector + 1 |->
        [sector |-> ByteToSector(hdr, (firstSector + k - 1) * SectorSize),
         data |-> Block([i \in 1 .. SectorSize |-> buf(firstSector + k - 1, i)])]]

(* OpenFile::WriteAt: the sectors it writes.  The buffer is not            *)
(* initialized (Junk); what is read into it ends with the file.          *)
WriteAt(d, hdr, from, position) ==
  LET n == Min({Len(from), hdr.numBytes - position})
      firstSector == position \div SectorSize
      lastSector == (position + n - 1) \div SectorSize
      firstAligned == position = firstSector * SectorSize
      lastAligned == position + n = (lastSector + 1) * SectorSize
      old(s) == ReadAt(d, hdr, SectorSize, s * SectorSize)
      isRead(s) ==
        \/ s = firstSector /\ ~ firstAligned
        \/ s = lastSector /\ ~ lastAligned /\ (firstSector # lastSector \/ firstAligned)
      buf(s, i) ==
        LET at == s * SectorSize + i - position IN
        IF at \in 1 .. n THEN from[at]
        ELSE IF isRead(s) /\ i \in DOMAIN old(s) THEN old(s)[i] ELSE Junk
  IN IF Len(from) = 0 \/ position >= hdr.numBytes THEN <<>>
     ELSE [k \in 1 .. lastSector - firstSector + 1 |->
             [sector |-> ByteToSector(hdr, (firstSector + k - 1) * SectorSize),
              data |-> Block([i \in 1 .. SectorSize |-> buf(firstSector + k - 1, i)])]]

-----------------------------------------------------------------------------
(* The names of free entries are whatever was in memory. *)
EmptyTable(junk) ==
  [i \in Entries |-> [inUse |-> FALSE, sector |-> 0, name |-> junk]]

FormatWrites(junk) ==
  WriteHeader(0, mapHdr) \o WriteHeader(1, dirHdr)
    \o WriteMap(System) \o WriteDirectory(EmptyTable(junk))

Apply(d, writes) ==
  [s \in Sectors |->
     LET ks == {k \in DOMAIN writes : writes[k].sector = s} IN
     IF ks = {} THEN d[s] ELSE writes[Max(ks)].data]

Start(writes) ==
  /\ image' = Apply(disk, writes)
  /\ todo' = [k \in DOMAIN writes |-> writes[k].sector]

Idle == [kind |-> "idle"]
Off == [kind |-> "off"]
Busy(kind, n) == [kind |-> kind, name |-> n]

(* The disk has been formatted, and the machine is off. *)
Init ==
  /\ \E junk \in JunkNames :
       disk = Apply([s \in Sectors |-> Block([i \in 1 .. SectorSize |-> 0])],
                    FormatWrites(junk))
  /\ image = disk
  /\ todo = <<>>
  /\ op = Off
  /\ crossed = FALSE

(* SynchDisk::WriteSector, for the next sector of the operation. *)
WriteSector ==
  /\ todo # <<>>
  /\ disk' = [disk EXCEPT ![Head(todo)] = image[Head(todo)]]
  /\ todo' = Tail(todo)
  /\ UNCHANGED <<image, op, crossed>>

(* Mutant: Create does not look for the name in the directory. *)
CreateFailsNot(n, size) ==
  \/ Unused(directory(disk)) = {}
  \/ NumClear(freeMap(disk)) - 1 < divRoundUp(size, SectorSize)

(* FileSystem::Create.  It returns FALSE if the name is in the directory,  *)
(* or if there is no room for the header, the entry or the data.           *)
CreateFails(n, size) ==
  LET table == directory(disk) IN
  \/ Find(table, n) # -1
  \/ FindAndSet(freeMap(disk)) = -1
  \/ Unused(table) = {}
  \/ NumClear(freeMap(disk)) - 1 < divRoundUp(size, SectorSize)

Create(n, size) ==
  LET map == freeMap(disk)
      sector == FindAndSet(map)
      secs == FirstFit(Mark(map, sector), divRoundUp(size, SectorSize))
  IN Start(WriteHeader(sector, Header(size, secs))
             \o WriteDirectory(Add(directory(disk), n, sector))
             \o WriteMap(Mark(map, sector) \cup Range(secs)))

-----------------------------------------------------------------------------
(* FileSystem::FileSystem(format).  What becomes of a disk whose map and   *)
(* directory contradict each other is not followed, unless it is formatted *)
(* again.                                                                  *)
Boot ==
  /\ op = Off /\ ~ crossed
  /\ op' = [kind |-> "boot"]
  /\ UNCHANGED <<disk, image, todo, crossed>>

Format ==
  /\ op = Off
  /\ \E junk \in JunkNames : Start(FormatWrites(junk))
  /\ op' = [kind |-> "format"]
  /\ crossed' = FALSE
  /\ UNCHANGED disk

(* ... and then it creates stdin and stdout, unless they are there. *)
CreateStd(n, kinds, kind) ==
  /\ todo = <<>> /\ op.kind \in kinds
  /\ IF CreateFails(n, 0)
       THEN op' = Busy(kind, Missing) /\ UNCHANGED <<image, todo>>
       ELSE op' = Busy(kind, n) /\ Create(n, 0)
  /\ UNCHANGED <<disk, crossed>>

Ready == todo = <<>> /\ op.kind = "idle"
Return ==
  /\ todo = <<>> /\ op.kind \in {"remove", "stdout"}
  /\ op' = Idle
  /\ UNCHANGED <<disk, image, todo, crossed>>

(* Mutant: Remove does not give back the sectors of the data. *)
RemoveHeaderOnly(n) ==
  LET table == directory(disk) IN
  /\ Ready /\ Find(table, n) # -1
  /\ Start(WriteMap(freeMap(disk) \ {Find(table, n)})
             \o WriteDirectory(RemoveEntry(table, n)))
  /\ op' = Busy("remove", n)
  /\ UNCHANGED <<disk, crossed>>

(* FileSystem::Remove.  Deallocate asserts that the sectors are marked. *)
Remove(n) ==
  LET table == directory(disk)
      sector == Find(table, n)
      hdr == header(disk, sector)
  IN
  /\ Ready /\ sector # -1
  /\ IF SectorsOf(hdr) \subseteq freeMap(disk)
       THEN /\ Start(WriteMap(Unmark(Deallocate(freeMap(disk), hdr), sector))
                       \o WriteDirectory(RemoveEntry(table, n)))
            /\ op' = Busy("remove", n)
       ELSE op' = [kind |-> "aborted"] /\ UNCHANGED <<image, todo>>
  /\ UNCHANGED <<disk, crossed>>

(* Copy: create the file, open it, and write the data in chunks of what    *)
(* one read of the UNIX file returns.  FileHeader::Allocate does not check *)
(* that the header has room for the sectors: with more than NumDirect it   *)
(* writes beyond the header in memory ("overrun"), and what becomes of the *)
(* kernel and of the disk is not followed.                                 *)
Copy(n) ==
  LET size == Len(Unix[n]) IN
  /\ Ready /\ ~ CreateFails(n, size)
  /\ IF divRoundUp(size, SectorSize) <= NumDirect
       THEN Create(n, size) /\ op' = Busy("create", n)
       ELSE op' = [kind |-> "overrun"] /\ UNCHANGED <<image, todo>>
  /\ UNCHANGED <<disk, crossed>>

OpenFile(n, sector) ==
  [kind |-> "copy", name |-> n, seekPosition |-> 0, hdr |-> header(disk, sector)]

CopyOpen ==
  /\ todo = <<>> /\ op.kind = "create"
  /\ op' = OpenFile(op.name, Find(directory(disk), op.name))
  /\ UNCHANGED <<disk, image, todo, crossed>>

(* OpenFile::Write of one chunk; ReadPartial may return less than it could *)
CopyWrite ==
  /\ todo = <<>> /\ op.kind = "copy" /\ op.seekPosition < Len(Unix[op.name])
  /\ \E n \in 1 .. Min({TransferSize, Len(Unix[op.name]) - op.seekPosition}) :
       LET chunk == SubSeq(Unix[op.name], op.seekPosition + 1, op.seekPosition + n) IN
       /\ Start(WriteAt(disk, op.hdr, chunk, op.seekPosition))
       /\ op' = [op EXCEPT !.seekPosition = @ + n]
  /\ UNCHANGED <<disk, crossed>>

CopyClose ==
  /\ todo = <<>> /\ op.kind = "copy" /\ op.seekPosition = Len(Unix[op.name])
  /\ op' = Idle
  /\ UNCHANGED <<disk, image, todo, crossed>>

-----------------------------------------------------------------------------
(* The bitmap marks the sectors of the system and of the files, and no     *)
(* other; a sector belongs to one file, which has no more than its header  *)
(* has room for; a name is that of one file.                               *)
Agrees(d) ==
  LET table == directory(d)
      live == Entries \ Unused(table)
      hdr(i) == header(d, table[i].sector)
      uses(i) == {table[i].sector} \cup SectorsOf(hdr(i))
  IN
  /\ \A i \in live : table[i].sector \notin System /\ hdr(i).kind = "header"
  /\ freeMap(d) = System \cup UNION {uses(i) : i \in live}
  /\ \A i \in live :
       /\ uses(i) \cap System = {}
       /\ Cardinality(uses(i)) = 1 + Len(hdr(i).dataSectors)
       /\ Len(hdr(i).dataSectors) <= NumDirect
  /\ \A i, j \in live : i # j =>
       uses(i) \cap uses(j) = {} /\ table[i].name # table[j].name

(* The process ends, or is killed, with the operation unfinished. *)
Stop ==
  /\ op.kind \notin {"off", "aborted", "overrun"}
  /\ op' = Off
  /\ image' = disk
  /\ todo' = <<>>
  /\ crossed' = ~ Agrees(disk)
  /\ UNCHANGED disk

Next ==
  \/ Boot \/ Format
  \/ CreateStd(Stdin, {"boot", "format"}, "stdin")
  \/ CreateStd(Stdout, {"stdin"}, "stdout")
  \/ \E n \in DOMAIN Unix : Remove(n)
  \/ \E n \in DOMAIN Unix : Copy(n)
  \/ CopyOpen \/ CopyWrite \/ CopyClose
  \/ WriteSector \/ Return \/ Stop

Spec == Init /\ [][Next]_fsVars

-----------------------------------------------------------------------------
(* Whenever no operation is under way the bitmap, the directory and the    *)
(* headers agree, and the assertions of Deallocate hold, whatever was      *)
(* created, removed, formatted or interrupted before, as long as no stop   *)
(* left the disk with only some of the writes of an operation (crossed).   *)
DiskAgrees ==
  /\ op.kind # "aborted"
  /\ todo = <<>> /\ ~ crossed => Agrees(disk)

(* The bytes under a name. *)
FileOf(d, n) ==
  LET sector == Find(directory(d), n)
      hdr == header(d, sector)
  IN IF sector = -1 THEN Missing
     ELSE IF hdr.kind # "header" THEN <<>>
     ELSE [i \in 1 .. hdr.numBytes |->
             ByteOf(d, ByteToSector(hdr, i - 1), ((i - 1) % SectorSize) + 1)]

Present(d) == {n \in Names : Find(directory(d), n) # -1}

FileMap ==
  INSTANCE FileMap WITH
    files <- [n \in Present(image) |-> FileOf(image, n)],
    busy <- IF op.kind = "format" THEN Names
            ELSE IF op.kind \in {"off", "boot", "idle", "aborted", "overrun"} THEN {}
            ELSE {op.name} \ {Missing},
    damaged <- crossed

(* The file system is a map from names to bytes: Create, Remove and every  *)
(* Write take effect as a whole, on their file only, and a stop harms no   *)
(* file but the one in progress.                                           *)
FileMapSpec == FileMap!Spec

(* Reading a file shows its bytes, and no byte beyond its end, wherever    *)
(* the read starts and ends (OpenFile::ReadAt, as Print uses it).          *)
ReadsFile ==
  Ready => \A n \in Names : FileOf(disk, n) # Missing =>
    LET hdr == header(disk, Find(directory(disk), n))
        file == FileOf(disk, n)
    IN \A numBytes, position \in 0 .. Len(file) + 1 :
         ReadAt(disk, hdr, numBytes, position) =
           SubSeq(file, position + 1, Min({Len(file), position + numBytes}))

(* A copy has arrived, byte by byte, as far as it has been written         *)
(* (OpenFile::WriteAt, whatever the sectors and the chunks).               *)
CopyArrives ==
  op.kind = "copy" /\ todo = <<>> =>
    LET file == FileOf(disk, op.name) IN
    /\ Len(file) = Len(Unix[op.name])
    /\ \A i \in 1 .. op.seekPosition : file[i] = Unix[op.name][i]
=============================================================================

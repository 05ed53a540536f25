-------------------------- MODULE FileSystemTerms ---------------------------
(***************************************************************************)
(* What the proofs about FileSystem.tla say of a disk, of what an          *)
(* operation makes of it and of a stop in the middle, and the inductive    *)
(* invariants IInv and RInv.                                               *)
(***************************************************************************)
EXTENDS FileSystem

-----------------------------------------------------------------------------
(* Word number at of the directory on a disk.                              *)
Word(d, at) == d[2 + (at \div SectorWords + 1)].words[at % SectorWords]

(* What Directory::WriteBack writes, FetchFrom reads.                      *)
HasDirectory(d, table) ==
  \A k \in 1 .. DirSectors : d[2 + k] = Piece(Slice(table, k - 1))

-----------------------------------------------------------------------------
(***************************************************************************)
(* What a list of writes makes of a disk.                                  *)
(***************************************************************************)
(* A list of n elements.                                                   *)
IsList(w, n) == n \in Nat /\ w = [k \in 1 .. n |-> w[k]]

(* None of the writes is to sector s; write k is the last one to it.       *)
Untouched(w, n, s) ==
  IsList(w, n) /\ \A k \in 1 .. n : w[k].sector # s
IsLast(w, n, s, k) ==
  /\ IsList(w, n)
  /\ k \in 1 .. n /\ w[k].sector = s
  /\ \A j \in 1 .. n : w[j].sector = s => j <= k

(* A list of writes to sectors of the disk.                                *)
WriteList(w) ==
  \E n : /\ IsList(w, n) /\ \A k \in 1 .. n : w[k].sector \in Sectors
         /\ \A s \in Sectors : Untouched(w, n, s) \/ \E k : IsLast(w, n, s, k)

(* FileSystem::Create writes the header, the directory and the map, ...    *)
CreateWrites(s, hdr, table, map) ==
  WriteHeader(s, hdr) \o WriteDirectory(table) \o WriteMap(map)

CreateWrote(d, f, s, hdr, table, map) ==
  /\ f[s] = hdr /\ f[2] = Map(map) /\ HasDirectory(f, table)
  /\ \A t \in Sectors : t \notin System \ {0, 1} /\ t # s => f[t] = d[t]

(* ... Remove writes the map and the directory, ...                        *)
RemoveWrites(table, map) == WriteMap(map) \o WriteDirectory(table)

RemoveWrote(d, f, table, map) ==
  /\ f[2] = Map(map) /\ HasDirectory(f, table)
  /\ \A t \in Sectors : t \notin System \ {0, 1} => f[t] = d[t]

(* ... and format writes the two headers besides.                          *)
FormatWrote(d, f, junk) ==
  /\ f[0] = mapHdr /\ f[1] = dirHdr /\ f[2] = Map(System)
  /\ HasDirectory(f, EmptyTable(junk))
  /\ \A t \in Sectors \ System : f[t] = d[t]

-----------------------------------------------------------------------------
(***************************************************************************)
(* What a sector may hold: the type invariant of the disk.  A sector is    *)
(* written as a whole, so that this holds whenever the machine stops.      *)
(***************************************************************************)
(* A header has a sector for each SectorSize bytes, each only once, and no *)
(* more than it has room for.                                              *)
Whole(hdr) ==
  /\ hdr.numBytes \in Nat
  /\ hdr.dataSectors \in Seq(Sectors)
  /\ IsInjective(hdr.dataSectors)
  /\ Len(hdr.dataSectors) = divRoundUp(hdr.numBytes, SectorSize)
  /\ Len(hdr.dataSectors) <= NumDirect

WordTyped(at, word) ==
  at < 3 * NumDirEntries =>
    /\ at % 3 = 0 => word \in BOOLEAN
    /\ at % 3 = 1 => word \in Sectors

TypedSector(s, c) ==
  /\ c.kind = "header" => Whole(c)
  /\ s = 2 => c.map \subseteq Sectors
  /\ \A k \in 1 .. DirSectors : s = 2 + k =>
       \A w \in 0 .. SectorWords - 1 :
         WordTyped((k - 1) * SectorWords + w, c.words[w])

TypedDisk(d) ==
  /\ d = [s \in Sectors |-> d[s]]
  /\ \A s \in Sectors : TypedSector(s, d[s])

-----------------------------------------------------------------------------
(***************************************************************************)
(* The agreement of map, directory and headers.  On a disk that has its    *)
(* type, Agrees says what Sound does: the sector of a header is not one of *)
(* the sectors of its data.                                                *)
(***************************************************************************)
LiveIn(d) == {i \in Entries : directory(d)[i].inUse}
HdrOf(d, i) == header(d, directory(d)[i].sector)
Uses(d, i) == {directory(d)[i].sector} \cup SectorsOf(HdrOf(d, i))

Sound(d) ==
  /\ \A i \in LiveIn(d) :
       /\ HdrOf(d, i).kind = "header"
       /\ directory(d)[i].sector \notin SectorsOf(HdrOf(d, i))
       /\ Uses(d, i) \cap System = {}
  /\ freeMap(d) = System \cup UNION {Uses(d, i) : i \in LiveIn(d)}
  /\ \A i, j \in LiveIn(d) : i # j =>
       /\ Uses(d, i) \cap Uses(d, j) = {}
       /\ directory(d)[i].name # directory(d)[j].name

-----------------------------------------------------------------------------
(* The agreement goes from one disk to another ...                         *)
SameFile(d, e, i) ==
  /\ directory(e)[i].sector = directory(d)[i].sector
  /\ directory(e)[i].name = directory(d)[i].name
  /\ HdrOf(e, i) = HdrOf(d, i)

(* ... with one more file, on sectors that were free, ...                  *)
Grown(d, e, j) ==
  /\ j \notin LiveIn(d) /\ LiveIn(e) = LiveIn(d) \cup {j}
  /\ \A i \in LiveIn(d) : SameFile(d, e, i)
  /\ freeMap(e) = freeMap(d) \cup Uses(e, j)
NewFile(d, e, j) ==
  /\ HdrOf(e, j).kind = "header"
  /\ directory(e)[j].sector \notin SectorsOf(HdrOf(e, j))
  /\ Uses(e, j) \cap freeMap(d) = {}
  /\ \A i \in LiveIn(d) : directory(d)[i].name # directory(e)[j].name

-----------------------------------------------------------------------------
FileAt(d, n, j) ==
  /\ j \in LiveIn(d) /\ directory(d)[j].name = n
  /\ directory(d)[j].sector = Find(directory(d), n)

(* Create makes a file of size bytes at the entry j, the first one that is *)
(* not in use, with its header at sector s.                                *)
SameEntry(d, e, i) ==
  /\ directory(e)[i].inUse = directory(d)[i].inUse
  /\ directory(e)[i].sector = directory(d)[i].sector
  /\ directory(e)[i].name = directory(d)[i].name

Fresh(d, n) == \A i \in LiveIn(d) : directory(d)[i].name # n

Made(d, e, n, size, j, s) ==
  /\ j \in Entries \ LiveIn(d) /\ s \in Sectors \ freeMap(d)
  /\ \A i \in Entries : i < j => i \in LiveIn(d)
  /\ e[s].kind = "header" /\ e[s].numBytes = size /\ Whole(e[s])
  /\ SectorsOf(e[s]) \subseteq Sectors \ (freeMap(d) \cup {s})
  /\ freeMap(e) = freeMap(d) \cup ({s} \cup SectorsOf(e[s]))
  /\ directory(e)[j].inUse /\ directory(e)[j].sector = s /\ directory(e)[j].name = n
  /\ \A i \in Entries \ {j} : SameEntry(d, e, i)
  /\ \A t \in Sectors \ System : t # s => e[t] = d[t]
  /\ e[0] = d[0] /\ e[1] = d[1]

(* A table with one entry changed.                                         *)
Added(d, table, j, n, s) ==
  /\ table[j].inUse = TRUE /\ table[j].sector = s /\ table[j].name = n
  /\ \A i \in Entries \ {j} : table[i] = directory(d)[i]

CreateList(n, size) ==
  LET map == freeMap(disk)
      sector == FindAndSet(map)
      secs == FirstFit(Mark(map, sector), divRoundUp(size, SectorSize))
  IN CreateWrites(sector, Header(size, secs), Add(directory(disk), n, sector),
                  Mark(map, sector) \cup Range(secs))

(* Remove gives back the sectors of the file at entry j, and the entry.    *)
Removed(d, e, j) ==
  /\ j \in LiveIn(d)
  /\ freeMap(e) = freeMap(d) \ Uses(d, j)
  /\ directory(e)[j].inUse = FALSE
  /\ directory(e)[j].sector = directory(d)[j].sector
  /\ directory(e)[j].name = directory(d)[j].name
  /\ \A i \in Entries \ {j} : SameEntry(d, e, i)
  /\ \A t \in Sectors : t \notin System \ {0, 1} => e[t] = d[t]

RemoveList(n) ==
  LET table == directory(disk)
      sector == Find(table, n)
  IN RemoveWrites(RemoveEntry(table, n),
                  Unmark(Deallocate(freeMap(disk), header(disk, sector)), sector))

-----------------------------------------------------------------------------
(***************************************************************************)
(* OpenFile::ReadAt and OpenFile::WriteAt, byte by byte.                   *)
(***************************************************************************)
(* The byte at an offset of a file.                                        *)
DataByte(d, hdr, o) == ByteOf(d, ByteToSector(hdr, o), (o % SectorSize) + 1)

ReadsBytes(d, hdr, numBytes, position) ==
  ReadAt(d, hdr, numBytes, position) =
    [i \in 1 .. Min({numBytes, hdr.numBytes - position}) |->
       DataByte(d, hdr, position + i - 1)]

(* The parts of WriteAt.                                                   *)
WriteCount(hdr, from, position) == Min({Len(from), hdr.numBytes - position})
FirstSector(position) == position \div SectorSize
LastSector(position, n) == (position + n - 1) \div SectorSize
IsRead(position, n, s) ==
  \/ s = FirstSector(position) /\ ~ (position = FirstSector(position) * SectorSize)
  \/ /\ s = LastSector(position, n)
     /\ ~ (position + n = (LastSector(position, n) + 1) * SectorSize)
     /\ \/ FirstSector(position) # LastSector(position, n)
        \/ position = FirstSector(position) * SectorSize
NewByte(d, hdr, from, position, n, s, i) ==
  IF s * SectorSize + i - position \in 1 .. n
    THEN from[s * SectorSize + i - position]
  ELSE IF IsRead(position, n, s) /\ i \in DOMAIN ReadAt(d, hdr, SectorSize, s * SectorSize)
    THEN ReadAt(d, hdr, SectorSize, s * SectorSize)[i]
  ELSE Junk
NewBlock(d, hdr, from, position, n, s) ==
  Block([i \in 1 .. SectorSize |-> NewByte(d, hdr, from, position, n, s, i)])
WriteSeq(d, hdr, from, position, n) ==
  [k \in 1 .. LastSector(position, n) - FirstSector(position) + 1 |->
     [sector |-> ByteToSector(hdr, (FirstSector(position) + k - 1) * SectorSize),
      data |-> NewBlock(d, hdr, from, position, n, FirstSector(position) + k - 1)]]

(* n bytes fit into the file at position.                                  *)
Fits(hdr, position, n) ==
  /\ Whole(hdr) /\ position \in Nat /\ n \in Nat \ {0}
  /\ position + n <= hdr.numBytes

(* The disk after WriteAt.                                                 *)
WriteWrote(d, e, hdr, from, position, n) ==
  /\ \A q \in FirstSector(position) .. LastSector(position, n) :
       e[hdr.dataSectors[q + 1]] = NewBlock(d, hdr, from, position, n, q)
  /\ \A q \in 0 .. Len(hdr.dataSectors) - 1 :
       q \notin FirstSector(position) .. LastSector(position, n) =>
         e[hdr.dataSectors[q + 1]] = d[hdr.dataSectors[q + 1]]
  /\ \A t \in Sectors \ SectorsOf(hdr) : e[t] = d[t]

(* The bytes of the file after WriteAt.                                    *)
ByteWritten(d, e, hdr, from, position, n, o) ==
  DataByte(e, hdr, o) =
    IF o \in position .. position + n - 1 THEN from[o - position + 1]
    ELSE DataByte(d, hdr, o)

(* A write to one file leaves the map, the directory and every header.     *)
IsDisk(e) == e = [s \in Sectors |-> e[s]]
SameFiles(d, e) ==
  /\ TypedDisk(e) /\ Sound(e) /\ directory(e) = directory(d)
  /\ LiveIn(e) = LiveIn(d) /\ freeMap(e) = freeMap(d)
  /\ \A i \in LiveIn(d) : HdrOf(e, i) = HdrOf(d, i)

(***************************************************************************)
(* The sectors that an operation has yet to write.                         *)
(***************************************************************************)
(* The disk and the image differ in those sectors only.                    *)
Pending(d, e, list) ==
  /\ list \in Seq(Sectors)
  /\ \A s \in Sectors : s \in Range(list) \/ d[s] = e[s]

-----------------------------------------------------------------------------
(***************************************************************************)
(* The inductive invariant.  The sectors keep their types; the disk is the *)
(* image but for what is yet to be written; and the image, the disk as the *)
(* operation in progress will leave it, always agrees unless a stop left   *)
(* the map and the directory in contradiction (DiskInv).  While main()     *)
(* copies a file, the header that OpenFile has in memory is the one on the *)
(* disk, and the bytes up to seekPosition have arrived (CopyInv).          *)
(***************************************************************************)
Kinds ==
  {"off", "boot", "format", "stdin", "stdout", "idle", "remove", "overrun", "create", "copy"}

DiskInv ==
  /\ TypedDisk(disk) /\ TypedDisk(image) /\ Pending(disk, image, todo)
  /\ op.kind \in Kinds
  /\ crossed \in BOOLEAN /\ (crossed => op.kind = "off")
  /\ ~ crossed => Sound(image)

Target(d, n) ==
  /\ n \in DOMAIN Unix /\ Find(directory(d), n) # -1
  /\ header(d, Find(directory(d), n)).numBytes = Len(Unix[n])
Arrived(d, hdr, n, position) ==
  \A i \in 0 .. position - 1 : DataByte(d, hdr, i) = Unix[n][i + 1]

CopyInv ==
  /\ op.kind \in {"create", "copy"} => Target(image, op.name)
  /\ op.kind = "copy" =>
       /\ op = [kind |-> "copy", name |-> op.name, seekPosition |-> op.seekPosition,
                hdr |-> header(image, Find(directory(image), op.name))]
       /\ op.seekPosition \in 0 .. Len(Unix[op.name])
       /\ Arrived(image, op.hdr, op.name, op.seekPosition)

IInv == DiskInv /\ CopyInv

-----------------------------------------------------------------------------
(* The file that main() copies to.                                         *)
CopyAt(d, n, j, hdr) ==
  /\ j \in LiveIn(d) /\ directory(d)[j].name = n
  /\ hdr = HdrOf(d, j) /\ Whole(hdr) /\ hdr.numBytes = Len(Unix[n])

(* OpenFile::Write of one chunk puts its bytes at the place.               *)
UpTo(d, e, hdr, n, p) ==
  /\ SameFiles(d, e) /\ Arrived(e, hdr, n, p)
  /\ \A t \in Sectors \ SectorsOf(hdr) : e[t] = d[t]

(* OpenFile::Write of the next m bytes to the file of entry j.             *)
Chunk(m, j) ==
  LET p == op.seekPosition + m IN
  /\ disk = image /\ disk' = disk /\ ~ crossed /\ crossed' = crossed
  /\ CopyAt(image, op.name, j, op.hdr) /\ Target(image, op.name)
  /\ p \in 0 .. Len(Unix[op.name])
  /\ op' = [kind |-> "copy", name |-> op.name, seekPosition |-> p, hdr |-> op.hdr]
  /\ Pending(disk, image', todo') /\ UpTo(image, image', op.hdr, op.name, p)

(* One read, from any position, of any length.                             *)
ReadsSlice(d, n, numBytes, position) ==
  ReadAt(d, header(d, Find(directory(d), n)), numBytes, position) =
    SubSeq(FileOf(d, n), position + 1, Min({Len(FileOf(d, n)), position + numBytes}))

-----------------------------------------------------------------------------
(* What makes a file the same on two disks: its entry, which is the first  *)
(* of its name, and the contents of its sectors.                           *)
Kept(d, e, i) ==
  /\ i \in LiveIn(e) /\ SameEntry(d, e, i)
  /\ \A t \in Uses(d, i) : e[t] = d[t]
  /\ \A k \in LiveIn(e) : k < i => directory(e)[k].name # directory(d)[i].name

SameBytes(d, e, n) ==
  Find(directory(d), n) # -1 /\ Find(directory(e), n) # -1 /\ FileOf(e, n) = FileOf(d, n)

(* Of the other names, every file stays and none is new.                   *)
Stays(d, e, n) ==
  \A m : m # n /\ Find(directory(d), m) # -1 => SameBytes(d, e, m)
NoneNew(d, e, n) ==
  \A m : m # n /\ Find(directory(e), m) # -1 => Find(directory(d), m) # -1

AllKept(d, e, n) ==
  \A i \in LiveIn(d) : directory(d)[i].name # n => Kept(d, e, i)
AllOld(d, e, n) ==
  \A k \in LiveIn(e) : directory(e)[k].name # n =>
    \E i \in LiveIn(d) : directory(d)[i].name = directory(e)[k].name

-----------------------------------------------------------------------------
(* The disk in the middle of an operation: each sector is old or new, and  *)
(* so is each word of an entry, of which half may be old and half new.     *)
Mixed(d, e, x) == \A t \in Sectors : x[t] = d[t] \/ x[t] = e[t]

(* Remove clears only inUse, so that a free entry keeps the name of the    *)
(* file it once was; but it is not the name of a file further on, as Add   *)
(* takes the first free entry.                                             *)
StaleNames(d) ==
  \A i \in LiveIn(d), k \in Entries \ LiveIn(d) :
    k < i => directory(d)[k].name # directory(d)[i].name

(* A stop in the middle of Create, before the bitmap is written: if the    *)
(* new entry is in use, its sector is one that the bitmap has as free or   *)
(* as another file's.                                                      *)
Creating(d, e, n, j, x) ==
  /\ TypedDisk(d) /\ Sound(d) /\ StaleNames(d) /\ Fresh(d, n)
  /\ \E size, s : Made(d, e, n, size, j, s)
  /\ Mixed(d, e, x)

HalfMade(d, e, n, j, x) ==
  /\ j \in Entries \ LiveIn(d) /\ LiveIn(e) = LiveIn(d) \cup {j}
  /\ LiveIn(x) \ {j} = LiveIn(d)
  /\ directory(e)[j].name = n
  /\ directory(x)[j].name \in {directory(d)[j].name, n}
  /\ \A i \in Entries \ {j} : SameEntry(d, x, i) /\ SameEntry(e, x, i)
  /\ \A i \in LiveIn(d) : SameFile(d, x, i) /\ \A t \in Uses(e, i) : x[t] = e[t]

(* A stop in the middle of Remove, wherever it comes.                      *)
Removing(d, e, j, x) ==
  /\ TypedDisk(d) /\ Sound(d) /\ StaleNames(d)
  /\ Removed(d, e, j) /\ Mixed(d, e, x)

-----------------------------------------------------------------------------
(* The order of the writes: Create writes the bitmap last, and format the  *)
(* sectors of the system in ascending order.                               *)
MapLast(list) == \A p \in DOMAIN list : p < Len(list) => list[p] # 2
Ascending(list) == \A p, q \in DOMAIN list : p < q => list[p] < list[q]

IsJoin(c, a, m, b, n) ==
  /\ IsList(c, m + n)
  /\ \A k \in 1 .. m : c[k] = a[k]
  /\ \A k \in 1 .. n : c[m + k] = b[k]

-----------------------------------------------------------------------------
(***************************************************************************)
(* The invariant of the refinement.  The names of free entries are no file *)
(* further on (StaleNames); and in the middle of an operation the disk is  *)
(* as the operation found it but for what it has written.                  *)
(***************************************************************************)
FormatMid ==
  /\ op.kind = "format" /\ Ascending(todo) /\ freeMap(image) = System
  /\ 2 \in Range(todo) /\ Sound(disk) => StaleNames(disk)
CreateMid ==
  /\ op.kind \in {"stdin", "stdout", "create"} /\ op.name \in Names /\ MapLast(todo)
  /\ \E d, j : Creating(d, image, op.name, j, disk) /\ disk[2] = d[2]
RemoveMid ==
  /\ op.kind = "remove" /\ op.name \in Names
  /\ \E d, j : Removing(d, image, j, disk) /\ op.name = directory(d)[j].name
CopyMid ==
  /\ op.kind = "copy"
  /\ \A t \in Sectors \ SectorsOf(op.hdr) : disk[t] = image[t]

RInv ==
  /\ ~ crossed => StaleNames(image)
  /\ crossed => ~ Sound(image)
  /\ todo = <<>> \/ FormatMid \/ CreateMid \/ RemoveMid \/ CopyMid

(* How an operation changes the files: the names that appear.              *)
Appears(d, e, n) ==
  /\ Find(directory(d), n) = -1 /\ Find(directory(e), n) # -1
  /\ Stays(d, e, n) /\ NoneNew(d, e, n)
Vanishes(d, e, n) ==
  /\ Find(directory(d), n) # -1 /\ Find(directory(e), n) = -1
  /\ Stays(d, e, n) /\ NoneNew(d, e, n)

Rewritten(d, e, n) ==
  /\ Find(directory(d), n) # -1 /\ Find(directory(e), n) # -1
  /\ Len(FileOf(e, n)) = Len(FileOf(d, n))
  /\ Stays(d, e, n) /\ NoneNew(d, e, n)

-----------------------------------------------------------------------------
(* A stop.                                                                 *)
BusyWith(o) ==
  IF o.kind = "format" THEN Names
  ELSE IF o.kind \in {"off", "boot", "idle", "aborted", "overrun"} THEN {}
  ELSE {o.name} \ {Missing}

Harmless(d, e, B) ==
  /\ \A m \in Names \ B : Find(directory(d), m) # -1 => SameBytes(d, e, m)
  /\ Sound(e) =>
       \A m \in Names \ B : Find(directory(e), m) # -1 => Find(directory(d), m) # -1

OneStopped ==
  /\ op.kind \in {"stdin", "stdout", "create", "remove", "copy"} /\ op.name \in Names
  /\ AllKept(image, disk, op.name)
  /\ Sound(disk) => AllOld(image, disk, op.name) /\ StaleNames(disk)

-----------------------------------------------------------------------------
FilesOn(d) == [n \in Present(d) |-> FileOf(d, n)]

MapOrNot == FileMap!Next \/ UNCHANGED FileMap!fileMapVars
=============================================================================

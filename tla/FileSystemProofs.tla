-------------------------- MODULE FileSystemProofs --------------------------
(***************************************************************************)
(* Proofs about the file system of FileSystem.tla, for every size of the   *)
(* disk, of its sectors and of the directory, and all the files copied:    *)
(* the invariant of the operations, of their sector writes and of the      *)
(* stops between them, and that the file system implements the map of      *)
(* FileMap.tla whenever the machine stops.                                 *)
(***************************************************************************)
EXTENDS FileSystemLemmas

(* A step that names no prover is for Zenon.                               *)
USE ZenonT(40)

(* FileSystem::Create, when it does not fail.                              *)
LEMMA CreateStep ==
  ASSUME TypedDisk(disk), Sound(disk), NEW n, NEW size \in Nat,
         divRoundUp(size, SectorSize) <= NumDirect, ~ CreateFails(n, size), Create(n, size)
  PROVE  /\ TypedDisk(image') /\ Sound(image') /\ Pending(disk, image', todo')
         /\ \E j, s : Made(disk, image', n, size, j, s)
         /\ Find(directory(image'), n) # -1
         /\ header(image', Find(directory(image'), n)).numBytes = size
<1> DEFINE w == CreateList(n, size)
           e == Apply(disk, w)
<1>1. Start(w)
  BY DEF Create, CreateList, CreateWrites
<1>2. /\ WriteList(w) /\ TypedDisk(e)
      /\ \E j, s : Made(disk, e, n, size, j, s)
      /\ Fresh(disk, n)
  BY CreateMakes
<1> HIDE DEF w
<1>3. Pending(disk, image', todo') /\ image' = e
  BY <1>1, <1>2, StartPending
<1> HIDE DEF e
<1>4. PICK j, s : Made(disk, e, n, size, j, s)
  BY <1>2
<1>5. Sound(e) /\ Grown(disk, e, j) /\ HdrOf(e, j) = e[s]
  BY <1>2, <1>4, MadeSound
<1>6. j \in LiveIn(e) /\ directory(e)[j].name = n /\ directory(e)[j].sector = s /\ e[s].numBytes = size
  BY <1>4, <1>5 DEF Made, Grown
<1>7. Find(directory(e), n) = s /\ Find(directory(e), n) # -1
  BY <1>2, <1>5, <1>6, FindIs
<1>8. header(e, Find(directory(e), n)).numBytes = size
  BY <1>6, <1>7 DEF header
<1> QED
  BY <1>2, <1>3, <1>5, <1>7, <1>8

-----------------------------------------------------------------------------
(* FileSystem::Create keeps the invariant, ...                             *)
LEMMA CreateStdKeeps ==
  ASSUME IInv, NEW n, NEW kinds, "off" \notin kinds, NEW kind \in {"stdin", "stdout"},
         CreateStd(n, kinds, kind)
  PROVE  IInv'
<1>1. /\ todo = <<>> /\ op.kind # "off" /\ disk' = disk /\ crossed' = crossed
      /\ \/ op' = Busy(kind, Missing) /\ UNCHANGED <<image, todo>>
         \/ ~ CreateFails(n, 0) /\ op' = Busy(kind, n) /\ Create(n, 0)
  BY SMTT(20) DEF CreateStd
<1>2. ~ crossed /\ op'.kind = kind
  BY <1>1, OpFields DEF IInv, DiskInv
<1>3. op'.kind \in {"off", "boot", "format", "stdin", "stdout", "idle", "remove", "overrun"}
  BY <1>2, SMTT(20)
<1>4. CASE UNCHANGED <<image, todo>>
  <2>1. UNCHANGED <<disk, image, todo, crossed>>
    BY <1>1, <1>4, SMTT(20)
  <2> QED
    BY <1>2, <1>3, <2>1, QuietStep
<1>5. CASE ~ CreateFails(n, 0) /\ Create(n, 0)
  <2>1. TypedDisk(disk) /\ Sound(disk)
    BY <1>1, <1>2, Settled DEF IInv
  <2>2. 0 \in Nat /\ divRoundUp(0, SectorSize) <= NumDirect
    BY NoSectors, SMTT(20)
  <2>3. TypedDisk(image') /\ Sound(image') /\ Pending(disk, image', todo')
    <3> DEFINE size == 0
    <3> HIDE DEF size
    <3>1. /\ size \in Nat /\ divRoundUp(size, SectorSize) <= NumDirect
          /\ ~ CreateFails(n, size) /\ Create(n, size)
      BY <1>5, <2>2 DEF size
    <3> QED
      BY <2>1, <3>1, CreateStep
  <2>4. CopyInv' /\ op'.kind \in Kinds
    BY <1>3, NotCopying
  <2>5. DiskInv'
    BY <1>1, <1>2, <2>1, <2>3, <2>4 DEF DiskInv, IInv
  <2> QED
    BY <2>4, <2>5 DEF IInv
<1> QED
  BY <1>1, <1>4, <1>5

(* ... FileSystem::Remove, ...                                             *)
LEMMA RemoveKeeps ==
  ASSUME IInv, NEW n, Remove(n)
  PROVE  IInv'
<1> DEFINE s == Find(directory(disk), n)
<1>1. /\ todo = <<>> /\ op.kind = "idle" /\ s # -1 /\ disk' = disk /\ crossed' = crossed
      /\ IF SectorsOf(header(disk, s)) \subseteq freeMap(disk)
           THEN Start(RemoveList(n)) /\ op' = Busy("remove", n)
           ELSE op' = [kind |-> "aborted"] /\ UNCHANGED <<image, todo>>
  <2>1. /\ Ready /\ s # -1 /\ UNCHANGED <<disk, crossed>>
        /\ IF SectorsOf(header(disk, s)) \subseteq freeMap(disk)
             THEN Start(RemoveList(n)) /\ op' = Busy("remove", n)
             ELSE op' = [kind |-> "aborted"] /\ UNCHANGED <<image, todo>>
    BY DEF Remove, RemoveList, RemoveWrites
  <2>2. disk' = disk /\ crossed' = crossed
    BY <2>1, SMTT(20)
  <2> QED
    BY <2>1, <2>2 DEF Ready
<1>2. ~ crossed
  <2>1. "idle" # "off"
    BY SMTT(20)
  <2> QED
    BY <1>1, <2>1 DEF IInv, DiskInv
<1>3. TypedDisk(disk) /\ Sound(disk) /\ DiskInv
  BY <1>1, <1>2, Settled DEF IInv
<1> DEFINE e == Apply(disk, RemoveList(n))
<1>4. /\ WriteList(RemoveList(n)) /\ TypedDisk(e)
      /\ SectorsOf(header(disk, s)) \subseteq freeMap(disk)
      /\ \E j : Removed(disk, e, j) /\ directory(disk)[j].name = n
  BY <1>1, <1>3, RemoveRemoves
<1>5. Start(RemoveList(n)) /\ op' = Busy("remove", n)
  BY <1>1, <1>4
<1>6. Pending(disk, image', todo') /\ image' = e
  BY <1>4, <1>5, StartPending
<1> HIDE DEF e, s
<1>7. PICK j : Removed(disk, e, j)
  BY <1>4
<1>8. Sound(e)
  BY <1>3, <1>7, RemovedSound
<1>9. CopyInv' /\ op'.kind \in Kinds
  <2>1. op'.kind = "remove"
    BY <1>5, OpFields
  <2>2. op'.kind \in {"off", "boot", "format", "stdin", "stdout", "idle", "remove", "overrun"}
    BY <2>1
  <2> QED
    BY <2>2, NotCopying
<1>10. DiskInv'
  BY <1>1, <1>2, <1>3, <1>4, <1>6, <1>8, <1>9 DEF DiskInv
<1> QED
  BY <1>9, <1>10 DEF IInv

(* ... the Create of a copy, which the header has room for or not, ...     *)
LEMMA CopyKeeps ==
  ASSUME IInv, NEW n \in DOMAIN Unix, Copy(n), op' # [kind |-> "overrun"]
  PROVE  IInv'
<1> DEFINE size == Len(Unix[n])
<1>1. /\ todo = <<>> /\ op.kind = "idle" /\ disk' = disk /\ crossed' = crossed
      /\ divRoundUp(size, SectorSize) <= NumDirect
      /\ ~ CreateFails(n, size) /\ Create(n, size) /\ op' = Busy("create", n)
  <2>1. /\ Ready /\ UNCHANGED <<disk, crossed>>
        /\ divRoundUp(size, SectorSize) <= NumDirect
        /\ ~ CreateFails(n, size) /\ Create(n, size) /\ op' = Busy("create", n)
    BY DEF Copy
  <2>2. disk' = disk /\ crossed' = crossed
    BY <2>1, SMTT(20)
  <2> QED
    BY <2>1, <2>2 DEF Ready
<1>2. size \in Nat
  <2>1. Unix[n] \in Seq(0 .. 255)
    BY FileSystemAssumption
  <2> QED
    BY <2>1, SMTT(20)
<1>3. ~ crossed
  <2>1. "idle" # "off"
    BY SMTT(20)
  <2> QED
    BY <1>1, <2>1 DEF IInv, DiskInv
<1>4. TypedDisk(disk) /\ Sound(disk) /\ DiskInv
  BY <1>1, <1>3, Settled DEF IInv
<1> HIDE DEF size
<1>5. /\ TypedDisk(image') /\ Sound(image') /\ Pending(disk, image', todo')
      /\ Find(directory(image'), n) # -1
      /\ header(image', Find(directory(image'), n)).numBytes = size
  BY <1>1, <1>2, <1>4, CreateStep
<1>6. op'.kind = "create" /\ op'.name = n
  BY <1>1, OpFields
<1>7. DiskInv'
  BY <1>1, <1>3, <1>4, <1>5, <1>6, KindsApart DEF DiskInv
<1>8. Target(image', n)
  BY <1>5 DEF Target, size
<1>9. CopyInv'
  BY <1>6, <1>8, KindsApart DEF CopyInv
<1> QED
  BY <1>7, <1>9 DEF IInv

(* A Copy whose file has more sectors than a header holds leaves the disk  *)
(* as it is.                                                               *)
LEMMA OverrunKeeps ==
  ASSUME IInv, NEW n, Copy(n), op' = [kind |-> "overrun"]
  PROVE  /\ IInv' /\ todo = <<>> /\ op.kind = "idle"
         /\ UNCHANGED <<disk, image, todo, crossed>>
<1>1. todo = <<>> /\ op.kind = "idle" /\ UNCHANGED <<disk, crossed>>
  BY DEF Copy, Ready
<1>2. op' # Busy("create", n) /\ op'.kind = "overrun" /\ op.kind # "off"
  BY <1>1, SMTT(20) DEF Busy
<1>3. UNCHANGED <<image, todo>>
  BY <1>2 DEF Copy
<1>4. UNCHANGED <<disk, image, todo, crossed>>
  BY <1>1, <1>3, SMTT(20)
<1>5. ~ crossed
  BY <1>2 DEF IInv, DiskInv
<1>6. op'.kind \in {"off", "boot", "format", "stdin", "stdout", "idle", "remove", "overrun"}
  BY <1>2
<1> QED
  BY <1>1, <1>4, <1>5, <1>6, QuietStep

(* A round of the copying loop, ...                                        *)
LEMMA CopyWriteStep ==
  ASSUME IInv, CopyWrite
  PROVE  \E m, j : Chunk(m, j)
<1> DEFINE n == op.name
           p == op.seekPosition
           hdr == header(image, Find(directory(image), n))
           size == Len(Unix[n])
<1>1. /\ todo = <<>> /\ op.kind = "copy" /\ p < size /\ disk' = disk /\ crossed' = crossed
      /\ \E m \in 1 .. Min({TransferSize, size - p}) :
           /\ Start(WriteAt(disk, op.hdr, SubSeq(Unix[n], p + 1, p + m), p))
           /\ op' = [op EXCEPT !.seekPosition = @ + m]
  <2>1. /\ todo = <<>> /\ op.kind = "copy" /\ p < size /\ UNCHANGED <<disk, crossed>>
        /\ \E m \in 1 .. Min({TransferSize, size - p}) :
             /\ Start(WriteAt(disk, op.hdr, SubSeq(Unix[n], p + 1, p + m), p))
             /\ op' = [op EXCEPT !.seekPosition = @ + m]
    BY DEF CopyWrite
  <2>2. disk' = disk /\ crossed' = crossed
    BY <2>1, SMTT(20)
  <2> QED
    BY <2>1, <2>2
<1>2. ~ crossed
  <2>1. "copy" # "off"
    BY SMTT(20)
  <2> QED
    BY <1>1, <2>1 DEF IInv, DiskInv
<1>3. disk = image /\ TypedDisk(image) /\ Sound(image) /\ DiskInv
  BY <1>1, <1>2, Settled DEF IInv
<1>4. /\ Target(image, n)
      /\ op = [kind |-> "copy", name |-> n, seekPosition |-> p, hdr |-> hdr]
      /\ p \in 0 .. size /\ Arrived(image, op.hdr, n, p)
  BY <1>1 DEF IInv, CopyInv
<1>5. /\ \E j : CopyAt(image, n, j, hdr)
      /\ Unix[n] \in Seq(0 .. 255) /\ size \in Nat
  BY <1>3, <1>4, TargetLemma
<1>6. PICK j : CopyAt(image, n, j, hdr)
  BY <1>5
<1>7. PICK m \in 1 .. Min({TransferSize, size - p}) :
        /\ Start(WriteAt(disk, op.hdr, SubSeq(Unix[n], p + 1, p + m), p))
        /\ op' = [op EXCEPT !.seekPosition = @ + m]
  BY <1>1
<1> HIDE DEF n, p, hdr, size
<1>8. op.hdr = hdr
  BY <1>4, SMTT(20)
<1>9. p \in Nat /\ m \in Nat \ {0} /\ p + m <= size /\ p + m \in 0 .. size
  <2>1. p \in Nat /\ size - p \in Int /\ TransferSize \in Int
    BY <1>4, <1>5, Sizes, SMTT(20)
  <2>2. Min({TransferSize, size - p}) = IF TransferSize <= size - p THEN TransferSize ELSE size - p
    BY <2>1, MinPair, SMTT(20)
  <2> QED
    BY <1>5, <2>1, <2>2, SMTT(20)
<1>10. op' = [kind |-> "copy", name |-> n, seekPosition |-> p + m, hdr |-> hdr]
  BY <1>4, <1>7, SMTT(20)
<1> DEFINE w == WriteAt(image, hdr, SubSeq(Unix[n], p + 1, p + m), p)
           e == Apply(image, w)
<1>11. Start(w)
  BY <1>3, <1>7, <1>8
<1>12. WriteList(w) /\ UpTo(image, e, hdr, n, p + m)
  <2>1. Arrived(image, hdr, n, p) /\ p + m <= Len(Unix[n])
    BY <1>4, <1>8, <1>9 DEF size
  <2> QED
    BY <1>3, <1>5, <1>6, <1>9, <2>1, ChunkArrives
<1> HIDE DEF w
<1>13. Pending(disk, image', todo') /\ image' = e
  BY <1>3, <1>11, <1>12, StartPending
<1> HIDE DEF e
<1>14. Chunk(m, j)
  <2>1. CopyAt(image, n, j, op.hdr) /\ Target(image, n) /\ disk = image /\ ~ crossed
    BY <1>2, <1>3, <1>4, <1>6, <1>8
  <2>2. p + m \in 0 .. size /\ disk' = disk /\ crossed' = crossed
    BY <1>1, <1>9
  <2>4. op' = [kind |-> "copy", name |-> n, seekPosition |-> p + m, hdr |-> op.hdr]
    BY <1>8, <1>10, SMTT(20)
  <2>3. Pending(disk, image', todo') /\ UpTo(image, image', op.hdr, n, p + m)
    BY <1>8, <1>12, <1>13
  <2> QED
    BY <2>1, <2>2, <2>3, <2>4 DEF Chunk, n, p, size
<1> QED
  BY <1>14

(* ... which keeps the invariant, ...                                      *)
LEMMA CopyWriteKeeps ==
  ASSUME IInv, CopyWrite
  PROVE  IInv'
<1> DEFINE n == op.name
           hdr == op.hdr
           size == Len(Unix[n])
<1>1. PICK m, j : Chunk(m, j)
  BY CopyWriteStep
<1> DEFINE p == op.seekPosition + m
<1>2. /\ disk = image /\ disk' = disk /\ ~ crossed /\ crossed' = crossed
      /\ CopyAt(image, n, j, hdr) /\ Target(image, n) /\ p \in 0 .. size
      /\ op' = [kind |-> "copy", name |-> n, seekPosition |-> p, hdr |-> hdr]
      /\ Pending(disk, image', todo') /\ SameFiles(image, image')
      /\ Arrived(image', hdr, n, p)
  BY <1>1 DEF Chunk, UpTo
<1> HIDE DEF n, p, hdr, size
<1>3. /\ op'.kind = "copy" /\ op'.name = n /\ op'.seekPosition = p /\ op'.hdr = hdr
      /\ op' = [kind |-> "copy", name |-> op'.name, seekPosition |-> op'.seekPosition, hdr |-> hdr]
  BY <1>2, SMTT(20)
<1>4. /\ TypedDisk(image') /\ Sound(image') /\ directory(image') = directory(image)
      /\ \A i \in LiveIn(image) : HdrOf(image', i) = HdrOf(image, i)
  BY <1>2 DEF SameFiles
<1>5. TypedDisk(disk) /\ TypedDisk(image) /\ Sound(image) /\ crossed \in BOOLEAN
  BY <1>2 DEF IInv, DiskInv
<1>6. hdr = header(image', Find(directory(image'), n)) /\ hdr.numBytes = size
  <2> DEFINE s == Find(directory(image), n)
  <2>1. /\ j \in LiveIn(image) /\ directory(image)[j].name = n /\ hdr = HdrOf(image, j)
        /\ hdr.numBytes = size
    BY <1>2 DEF CopyAt, size
  <2>2. s = directory(image)[j].sector
    BY <1>5, <2>1, FindIs
  <2> QED
    BY <1>4, <2>1, <2>2 DEF HdrOf
<1>7. Target(image', n)
  BY <1>2, <1>4, <1>6 DEF Target, size
<1>8. CopyInv'
  BY <1>2, <1>3, <1>6, <1>7 DEF CopyInv, size
<1>9. DiskInv'
  BY <1>2, <1>3, <1>4, <1>5, KindsApart DEF DiskInv
<1> QED
  BY <1>8, <1>9 DEF IInv

(* ... and a stop between two writes.                                      *)
LEMMA StopKeeps ==
  ASSUME IInv, Stop
  PROVE  IInv'
<1>1. disk' = disk /\ image' = disk /\ todo' = <<>> /\ op' = Off /\ crossed' = ~ Agrees(disk)
  BY DEF Stop
<1>2. TypedDisk(disk)
  BY DEF IInv, DiskInv
<1>3. Agrees(disk) <=> Sound(disk)
  BY <1>2, AgreesIsSound
<1>4. crossed' \in BOOLEAN
  BY <1>1
<1>5. Pending(disk', image', todo')
  BY <1>1, EmptyPending
<1>6. op'.kind = "off" /\ CopyInv' /\ op'.kind \in Kinds
  <2>1. op'.kind = "off"
    BY <1>1, OpFields
  <2>2. op'.kind \in {"off", "boot", "format", "stdin", "stdout", "idle", "remove", "overrun"}
    BY <2>1
  <2> QED
    BY <2>1, <2>2, NotCopying
<1>7. DiskInv'
  BY <1>1, <1>2, <1>3, <1>4, <1>5, <1>6 DEF DiskInv
<1> QED
  BY <1>6, <1>7 DEF IInv

(* Every step keeps the invariant.                                         *)
LEMMA NextKeeps == IInv /\ [Next]_fsVars => IInv'
<1> SUFFICES ASSUME IInv, [Next]_fsVars PROVE IInv'
  OBVIOUS
<1> DEFINE quiet == {"off", "boot", "format", "stdin", "stdout", "idle", "remove", "overrun"}
<1>1. CASE Boot
  <2>1. ~ crossed /\ UNCHANGED <<disk, image, todo, crossed>> /\ op' = [kind |-> "boot"]
    BY <1>1 DEF Boot
  <2>2. op'.kind \in quiet
    BY <2>1, SMTT(20)
  <2> QED
    BY <2>1, <2>2, QuietStep
<1>2. CASE Format
  BY <1>2, FormatKeeps
<1>3. CASE CreateStd(Stdin, {"boot", "format"}, "stdin")
  <2> DEFINE kinds == {"boot", "format"}
             kind == "stdin"
  <2>1. "off" \notin kinds /\ kind \in {"stdin", "stdout"}
    BY SMTT(20)
  <2> HIDE DEF kinds, kind
  <2>2. CreateStd(Stdin, kinds, kind)
    BY <1>3 DEF kinds, kind
  <2> QED
    BY <2>1, <2>2, CreateStdKeeps
<1>4. CASE CreateStd(Stdout, {"stdin"}, "stdout")
  <2> DEFINE kinds == {"stdin"}
             kind == "stdout"
  <2>1. "off" \notin kinds /\ kind \in {"stdin", "stdout"}
    BY SMTT(20)
  <2> HIDE DEF kinds, kind
  <2>2. CreateStd(Stdout, kinds, kind)
    BY <1>4 DEF kinds, kind
  <2> QED
    BY <2>1, <2>2, CreateStdKeeps
<1>5. ASSUME NEW n \in DOMAIN Unix, Remove(n) PROVE IInv'
  BY <1>5, RemoveKeeps
<1>6. ASSUME NEW n \in DOMAIN Unix, Copy(n) PROVE IInv'
  BY <1>6, CopyKeeps, OverrunKeeps
<1>7. CASE CopyOpen
  BY <1>7, CopyOpenKeeps
<1>8. CASE CopyWrite
  BY <1>8, CopyWriteKeeps
<1>9. CASE CopyClose \/ Return
  <2>1. /\ op.kind \in {"copy", "remove", "stdout"} /\ op' = Idle
        /\ UNCHANGED <<disk, image, todo, crossed>>
    BY <1>9 DEF CopyClose, Return
  <2>2. op'.kind = "idle"
    BY <2>1, OpFields
  <2>3. op.kind # "off" /\ op'.kind \in quiet
    BY <2>1, <2>2, SMTT(20)
  <2>4. ~ crossed
    BY <2>3 DEF IInv, DiskInv
  <2> QED
    BY <2>1, <2>3, <2>4, QuietStep
<1>10. CASE WriteSector
  BY <1>10, WriteSectorKeeps
<1>11. CASE Stop
  BY <1>11, StopKeeps
<1>12. CASE UNCHANGED fsVars
  <2>1. disk' = disk /\ image' = image /\ todo' = todo /\ op' = op /\ crossed' = crossed
    BY <1>12, SMTT(20) DEF fsVars
  <2> QED
    BY <2>1 DEF IInv, DiskInv, CopyInv
<1> QED
  BY <1>1, <1>2, <1>3, <1>4, <1>5, <1>6, <1>7, <1>8, <1>9, <1>10, <1>11, <1>12 DEF Next

(* The invariant holds always.                                             *)
LEMMA IInvAlways == Spec => []IInv
  BY InitIInv, NextKeeps, PTL DEF Spec

(* For every disk, directory and set of files, and however operations and  *)
(* stops interleave: when no operation is under way the bitmap, the        *)
(* directory and the headers agree, and FileSystem::Remove never fails the *)
(* assertions of Deallocate, as long as no stop came between the writes of *)
(* the directory and of the bitmap.  (Up to a copy that its header has no  *)
(* room for, which overruns the header and is not followed.)               *)
THEOREM DiskCorrect == Spec => []DiskAgrees
<1>1. IInv => DiskAgrees
  <2> SUFFICES ASSUME IInv PROVE DiskAgrees
    OBVIOUS
  <2>1. op.kind # "aborted"
    BY SMTT(20) DEF IInv, DiskInv, Kinds
  <2>2. ASSUME todo = <<>>, ~ crossed PROVE Agrees(disk)
    <3>1. TypedDisk(disk) /\ Sound(disk)
      BY <2>2, Settled DEF IInv
    <3> QED
      BY <3>1, AgreesIsSound
  <2> QED
    BY <2>1, <2>2 DEF DiskAgrees
<1> QED
  BY <1>1, IInvAlways, PTL

(* For every file that a header has room for and every chunk that main()   *)
(* moves at a time: what has been copied is in the file, byte by byte, and *)
(* the file has the length of the original, whatever sectors it was given  *)
(* and whatever was in them (OpenFile::WriteAt).                           *)
THEOREM CopyCorrect == Spec => []CopyArrives
<1>1. IInv => CopyArrives
  <2> SUFFICES ASSUME IInv, op.kind = "copy", todo = <<>>
               PROVE  /\ Len(FileOf(disk, op.name)) = Len(Unix[op.name])
                      /\ \A i \in 1 .. op.seekPosition :
                           FileOf(disk, op.name)[i] = Unix[op.name][i]
    BY DEF CopyArrives
  <2> DEFINE n == op.name
             p == op.seekPosition
             hdr == header(image, Find(directory(image), n))
             file == FileOf(image, n)
  <2>1. ~ crossed
    BY SMTT(20) DEF IInv, DiskInv
  <2>2. disk = image /\ TypedDisk(image) /\ Sound(image)
    BY <2>1, Settled DEF IInv
  <2>3. /\ Target(image, n)
        /\ op = [kind |-> "copy", name |-> n, seekPosition |-> p, hdr |-> hdr]
        /\ p \in 0 .. Len(Unix[n]) /\ Arrived(image, op.hdr, n, p)
    BY DEF IInv, CopyInv
  <2>4. Find(directory(image), n) # -1 /\ hdr.numBytes = Len(Unix[n])
    BY <2>3 DEF Target
  <2>5. /\ Len(file) = hdr.numBytes /\ Whole(hdr)
        /\ \A i \in 1 .. hdr.numBytes : file[i] = DataByte(image, hdr, i - 1)
    BY <2>2, <2>4, FileBytes, SMTT(20)
  <2> HIDE DEF n, p, hdr, file
  <2>6. op.hdr = hdr
    BY <2>3, SMTT(20)
  <2>7. ASSUME NEW i \in 1 .. p PROVE file[i] = Unix[n][i]
    <3>1. hdr.numBytes \in Nat
      BY <2>5 DEF Whole
    <3>2. i \in 1 .. hdr.numBytes /\ i - 1 \in 0 .. p - 1 /\ (i - 1) + 1 = i
      BY <2>3, <2>4, <2>7, <3>1, SMTT(20)
    <3>3. file[i] = DataByte(image, hdr, i - 1)
      BY <2>5, <3>2
    <3>4. DataByte(image, hdr, i - 1) = Unix[n][(i - 1) + 1]
      BY <2>3, <2>6, <3>2 DEF Arrived
    <3> QED
      BY <3>2, <3>3, <3>4
  <2> QED
    BY <2>2, <2>4, <2>5, <2>7 DEF n, p, file
<1> QED
  BY <1>1, IInvAlways, PTL

(* For every file on the disk, none of which is longer than a header has   *)
(* room for, and every position and length: OpenFile::ReadAt shows the     *)
(* bytes of the file and none beyond its end.                              *)
THEOREM ReadCorrect == Spec => []ReadsFile
<1>1. IInv => ReadsFile
  <2> SUFFICES ASSUME IInv, Ready, NEW n \in Names, FileOf(disk, n) # Missing,
                      NEW numBytes \in 0 .. Len(FileOf(disk, n)) + 1,
                      NEW position \in 0 .. Len(FileOf(disk, n)) + 1
               PROVE  ReadsSlice(disk, n, numBytes, position)
    BY DEF ReadsFile, ReadsSlice
  <2>1. todo = <<>> /\ ~ crossed
    BY SMTT(20) DEF IInv, DiskInv, Ready
  <2>2. TypedDisk(disk) /\ Sound(disk)
    BY <2>1, Settled DEF IInv
  <2>3. Find(directory(disk), n) # -1
    BY DEF FileOf
  <2>4. Len(FileOf(disk, n)) \in Nat
    <3> DEFINE hdr == header(disk, Find(directory(disk), n))
    <3>1. Whole(hdr) /\ Len(FileOf(disk, n)) = hdr.numBytes
      BY <2>2, <2>3, FileBytes, SMTT(20)
    <3> QED
      BY <3>1 DEF Whole
  <2>5. numBytes \in Nat /\ position \in Nat
    BY <2>4, SMTT(20)
  <2> QED
    BY <2>2, <2>3, <2>5, ReadIsSlice
<1> QED
  BY <1>1, IInvAlways, PTL

-----------------------------------------------------------------------------
(***************************************************************************)
(* The file system implements FileMap.                                     *)
(***************************************************************************)
(* Between two operations the disk is the image.                           *)
LEMMA Between ==
  ASSUME IInv, RInv, todo = <<>> \/ op = Off
  PROVE  /\ todo = <<>> /\ disk = image /\ TypedDisk(image)
         /\ Sound(image) => StaleNames(image)
         /\ op.kind # "off" => ~ crossed /\ Sound(image) /\ StaleNames(image)
<1>1. todo = <<>>
  <2>1. CASE op = Off
    <3>1. op.kind = "off"
      BY <2>1, OpFields
    <3>2. op.kind \notin {"format", "stdin", "stdout", "create", "remove", "copy"}
      BY <3>1, SMTT(20)
    <3> QED
      BY <3>2 DEF RInv, FormatMid, CreateMid, RemoveMid, CopyMid
  <2> QED
    BY <2>1
<1>2. disk = image /\ TypedDisk(disk)
  BY <1>1, Settled DEF IInv
<1>3. /\ crossed => op.kind = "off"
      /\ ~ crossed => Sound(image)
      /\ crossed \/ ~ crossed
  BY DEF IInv, DiskInv
<1> QED
  BY <1>1, <1>2, <1>3 DEF RInv

(* A step that starts no writes.                                           *)
LEMMA QuietRInv ==
  ASSUME RInv, todo = <<>>, UNCHANGED <<image, todo, crossed>>
  PROVE  RInv'
<1>1. image' = image /\ todo' = todo /\ crossed' = crossed
  BY SMTT(20)
<1> QED
  BY <1>1, SMTT(20) DEF RInv

(* The invariant of the refinement holds at the start, ...                 *)
LEMMA InitRInv == Init => RInv
<1> SUFFICES ASSUME Init PROVE RInv
  OBVIOUS
<1> DEFINE z == [s \in Sectors |-> Block([i \in 1 .. SectorSize |-> 0])]
<1>1. PICK junk \in JunkNames : disk = Apply(z, FormatWrites(junk))
  BY DEF Init
<1>2. \A t \in Sectors \ System : TypedSector(t, z[t])
  BY BlockTyped
<1> HIDE DEF z
<1>3. LiveIn(disk) = {}
  BY <1>1, <1>2, FormatFormats, SMTT(20)
<1> QED
  BY <1>3 DEF Init, RInv, StaleNames

(* ... format keeps it and leaves no file, ...                             *)
LEMMA FormatRInv ==
  ASSUME IInv, RInv, Format
  PROVE  RInv' /\ \A n : Find(directory(image'), n) = -1
<1>1. PICK junk \in JunkNames : Start(FormatWrites(junk))
  BY DEF Format
<1>2. op = Off /\ disk' = disk /\ crossed' = FALSE /\ op' = [kind |-> "format"]
  BY DEF Format
<1>3. TypedDisk(disk) /\ (Sound(disk) => StaleNames(disk))
  BY <1>2, Between
<1>4. \A t \in Sectors \ System : TypedSector(t, disk[t])
  BY <1>3 DEF TypedDisk
<1> DEFINE e == Apply(disk, FormatWrites(junk))
<1>5. TypedDisk(e) /\ Sound(e) /\ LiveIn(e) = {}
  BY <1>4, FormatFormats
<1>6. image' = e /\ todo' = [k \in DOMAIN FormatWrites(junk) |-> FormatWrites(junk)[k].sector]
  BY <1>1 DEF Start
<1>7. Ascending(todo')
  BY <1>6, FormatOrder
<1> HIDE DEF e
<1>8. freeMap(e) = System
  <2>1. freeMap(e) = System \cup UNION {Uses(e, i) : i \in LiveIn(e)}
    BY <1>5 DEF Sound
  <2>2. UNION {Uses(e, i) : i \in LiveIn(e)} = {}
    BY <1>5
  <2> QED
    BY <2>1, <2>2
<1>9. op'.kind = "format"
  BY <1>2, SMTT(20)
<1>10. FormatMid'
  BY <1>2, <1>3, <1>6, <1>7, <1>8, <1>9 DEF FormatMid
<1>11. StaleNames(image')
  BY <1>5, <1>6 DEF StaleNames
<1>12. ASSUME NEW n PROVE Find(directory(e), n) = -1
  BY <1>5, FindLemma DEF FileAt
<1> QED
  BY <1>2, <1>6, <1>10, <1>11, <1>12 DEF RInv

(* ... Create adds a file of its name, ...                                 *)
LEMMA CreateRInv ==
  ASSUME IInv, RInv, todo = <<>>, op.kind # "off", NEW n \in Names, NEW size \in Nat,
         divRoundUp(size, SectorSize) <= NumDirect, ~ CreateFails(n, size), Create(n, size),
         disk' = disk, crossed' = crossed,
         op'.kind \in {"stdin", "stdout", "create"}, op'.name = n
  PROVE  RInv' /\ Appears(image, image', n)
<1> DEFINE w == CreateList(n, size)
           e == Apply(disk, w)
           s == FindAndSet(freeMap(disk))
<1>1. disk = image /\ TypedDisk(disk) /\ ~ crossed /\ Sound(disk) /\ StaleNames(disk)
  BY Between
<1>2. Start(w)
  BY DEF Create, CreateList, CreateWrites
<1>3. /\ TypedDisk(e) /\ Fresh(disk, n)
      /\ \E j, t : Made(disk, e, n, size, j, t)
  BY <1>1, CreateMakes
<1>4. image' = e /\ todo' = [k \in DOMAIN w |-> w[k].sector]
  BY <1>2 DEF Start
<1>5. Find(directory(disk), n) = -1 /\ s # -1
  BY DEF CreateFails
<1>6. MapLast(todo')
  <2>1. s \notin freeMap(disk)
    BY <1>5, FindAndSetLemma DEF Clear, Test
  <2>2. 2 \in freeMap(disk)
    BY <1>1, SystemSectors DEF Sound
  <2> DEFINE secs == FirstFit(Mark(freeMap(disk), s), divRoundUp(size, SectorSize))
             hdr == Header(size, secs)
             table == Add(directory(disk), n, s)
             map == Mark(freeMap(disk), s) \cup Range(secs)
  <2>3. w = CreateWrites(s, hdr, table, map)
    BY DEF CreateList
  <2> HIDE DEF s, secs, hdr, table, map, w
  <2>4. s # 2 /\ todo' = [k \in DOMAIN CreateWrites(s, hdr, table, map) |->
                            CreateWrites(s, hdr, table, map)[k].sector]
    BY <1>4, <2>1, <2>2, <2>3
  <2> QED
    BY <2>4, CreateOrder
<1> HIDE DEF w, e, s
<1>7. PICK j, t : Made(disk, e, n, size, j, t)
  BY <1>3
<1>8. StaleNames(e)
  BY <1>1, <1>3, <1>7, MadeStale
<1>9. Creating(disk, e, n, j, disk)
  BY <1>1, <1>3, <1>7 DEF Creating, Mixed
<1>10. CreateMid'
  BY <1>4, <1>6, <1>9 DEF CreateMid
<1>11. RInv'
  BY <1>1, <1>4, <1>8, <1>10 DEF RInv
<1>12. AllKept(disk, e, n) /\ AllOld(disk, e, n)
  BY <1>1, <1>3, <1>7, MadeKeeps
<1>13. Stays(disk, e, n) /\ NoneNew(disk, e, n)
  BY <1>1, <1>3, <1>12, FilesStay, NoFileNew
<1>14. Find(directory(e), n) # -1
  <2>1. Sound(e) /\ Grown(disk, e, j)
    BY <1>1, <1>3, <1>7, MadeSound
  <2>2. j \in LiveIn(e) /\ directory(e)[j].name = n
    BY <1>7, <2>1 DEF Made, Grown
  <2> QED
    BY <1>3, <2>2, FindLemma
<1>15. Appears(disk, e, n)
  BY <1>5, <1>13, <1>14 DEF Appears
<1> QED
  BY <1>1, <1>4, <1>11, <1>15

(* ... Remove takes one away, ...                                          *)
LEMMA RemoveRInv ==
  ASSUME IInv, RInv, NEW n \in Names, Remove(n)
  PROVE  /\ RInv' /\ Vanishes(image, image', n)
         /\ op.kind = "idle" /\ op' = Busy("remove", n) /\ crossed' = crossed
<1> DEFINE s == Find(directory(disk), n)
           e == Apply(disk, RemoveList(n))
<1>1. /\ Ready /\ s # -1 /\ UNCHANGED <<disk, crossed>>
      /\ SectorsOf(header(disk, s)) \subseteq freeMap(disk) =>
           Start(RemoveList(n)) /\ op' = Busy("remove", n)
  BY DEF Remove, RemoveList, RemoveWrites
<1>2. disk' = disk /\ crossed' = crossed
  BY <1>1, SMTT(20)
<1>3. todo = <<>> /\ op.kind = "idle" /\ op.kind # "off"
  BY <1>1, SMTT(20) DEF Ready
<1>4. disk = image /\ TypedDisk(disk) /\ ~ crossed /\ Sound(disk) /\ StaleNames(disk)
  BY <1>3, Between
<1>5. /\ TypedDisk(e) /\ SectorsOf(header(disk, s)) \subseteq freeMap(disk)
      /\ \E j : Removed(disk, e, j) /\ directory(disk)[j].name = n
  BY <1>1, <1>4, RemoveRemoves
<1>6. Start(RemoveList(n)) /\ op' = Busy("remove", n)
  BY <1>1, <1>5
<1>7. image' = e /\ op'.kind = "remove" /\ op'.name = n
  BY <1>6, OpFields DEF Start
<1> HIDE DEF e, s
<1>8. PICK j : Removed(disk, e, j) /\ directory(disk)[j].name = n
  BY <1>5
<1>9. /\ AllKept(disk, e, directory(disk)[j].name) /\ AllOld(disk, e, directory(disk)[j].name)
      /\ Fresh(e, directory(disk)[j].name)
  BY <1>4, <1>8, RemovedKeeps
<1>10. Stays(disk, e, n) /\ NoneNew(disk, e, n)
  BY <1>4, <1>5, <1>8, <1>9, FilesStay, NoFileNew
<1>11. Find(directory(e), n) = -1
  BY <1>5, <1>8, <1>9, FindLemma DEF Fresh, FileAt
<1>12. Vanishes(disk, e, n)
  BY <1>1, <1>10, <1>11 DEF Vanishes, s
<1>13. Removing(disk, e, j, disk)
  BY <1>4, <1>8 DEF Removing, Mixed
<1>14. Removing(disk, e, j, e)
  BY <1>4, <1>8 DEF Removing, Mixed
<1>15. StaleNames(e)
  BY <1>14, RemoveStopped
<1>16. RemoveMid'
  BY <1>2, <1>7, <1>8, <1>13 DEF RemoveMid
<1>17. RInv'
  BY <1>2, <1>4, <1>7, <1>15, <1>16 DEF RInv
<1> QED
  BY <1>2, <1>3, <1>4, <1>6, <1>7, <1>12, <1>17

(* ... a chunk of a copy rewrites its file, ...                            *)
LEMMA CopyWriteRInv ==
  ASSUME IInv, RInv, CopyWrite
  PROVE  /\ RInv' /\ Rewritten(image, image', op.name)
         /\ op.name \in Names /\ op'.kind = "copy" /\ op'.name = op.name
         /\ op.kind = "copy" /\ ~ crossed /\ crossed' = FALSE
<1> DEFINE n == op.name
           hdr == op.hdr
<1>1. PICK m, j : Chunk(m, j)
  BY CopyWriteStep
<1> DEFINE p == op.seekPosition + m
<1>2. /\ disk = image /\ disk' = disk /\ ~ crossed /\ crossed' = crossed
      /\ CopyAt(image, n, j, hdr) /\ Target(image, n)
      /\ op' = [kind |-> "copy", name |-> n, seekPosition |-> p, hdr |-> hdr]
      /\ SameFiles(image, image')
      /\ \A t \in Sectors \ SectorsOf(hdr) : image'[t] = image[t]
  BY <1>1 DEF Chunk, UpTo
<1>3. IInv'
  BY CopyWriteKeeps
<1>4. op.kind = "copy"
  BY DEF CopyWrite
<1> HIDE DEF n, hdr, p
<1>5. op'.kind = "copy" /\ op'.name = n /\ op'.hdr = hdr
  BY <1>2, SMTT(20)
<1>6. n \in Names
  BY <1>2, FileSystemAssumption DEF Target
<1>7. crossed' = FALSE
  BY <1>2 DEF IInv, DiskInv
<1>8. TypedDisk(image) /\ Sound(image) /\ StaleNames(image)
  BY <1>2 DEF IInv, DiskInv, RInv
<1>9. TypedDisk(image') /\ Sound(image')
  BY <1>2 DEF SameFiles
<1>10. j \in LiveIn(image) /\ directory(image)[j].name = n /\ hdr = HdrOf(image, j)
  BY <1>2 DEF CopyAt
<1>11. /\ directory(image') = directory(image)
       /\ AllKept(image, image', n) /\ AllOld(image, image', n)
  <2>1. \A t \in Sectors \ SectorsOf(HdrOf(image, j)) : image'[t] = image[t]
    BY <1>2, <1>10
  <2>2. /\ directory(image') = directory(image)
        /\ AllKept(image, image', directory(image)[j].name)
        /\ AllOld(image, image', directory(image)[j].name)
    BY <1>8, <1>10, <2>1, WroteKeeps
  <2> QED
    BY <1>10, <2>2
<1>12. Stays(image, image', n) /\ NoneNew(image, image', n)
  BY <1>8, <1>9, <1>11, FilesStay, NoFileNew
<1>13. StaleNames(image')
  BY <1>8, <1>11 DEF StaleNames, LiveIn
<1>14. CopyMid'
  BY <1>2, <1>5 DEF CopyMid
<1>15. RInv'
  BY <1>7, <1>13, <1>14 DEF RInv
<1>16. Target(image', n)
  BY <1>3, <1>5 DEF IInv, CopyInv
<1>17. \A d : TypedDisk(d) /\ Sound(d) /\ Target(d, n) =>
         Find(directory(d), n) # -1 /\ Len(FileOf(d, n)) = Len(Unix[n])
  <2> SUFFICES ASSUME NEW d, TypedDisk(d), Sound(d), Target(d, n)
               PROVE  Find(directory(d), n) # -1 /\ Len(FileOf(d, n)) = Len(Unix[n])
    OBVIOUS
  <2>1. /\ Find(directory(d), n) # -1
        /\ header(d, Find(directory(d), n)).numBytes = Len(Unix[n])
    BY DEF Target
  <2>2. Len(FileOf(d, n)) = header(d, Find(directory(d), n)).numBytes
    BY <2>1, FileBytes, SMTT(20)
  <2> QED
    BY <2>1, <2>2
<1>18. Rewritten(image, image', n)
  BY <1>2, <1>8, <1>9, <1>12, <1>16, <1>17 DEF Rewritten
<1> QED
  BY <1>2, <1>4, <1>5, <1>6, <1>7, <1>15, <1>18 DEF n

(* ... and a sector written keeps it.                                      *)
LEMMA WriteSectorRInv ==
  ASSUME IInv, RInv, WriteSector
  PROVE  RInv'
<1>1. image' = image /\ op' = op /\ crossed' = crossed
  BY SMTT(20) DEF WriteSector
<1>2. /\ todo \in Seq(Sectors) /\ todo # <<>> /\ todo' = Tail(todo)
      /\ Range(Tail(todo)) \subseteq Range(todo)
      /\ \A t \in Sectors : /\ disk'[t] = disk[t] \/ disk'[t] = image[t]
                            /\ t # Head(todo) => disk'[t] = disk[t]
  BY HeadWritten
<1>3. TypedDisk(disk')
  BY WriteSectorKeeps DEF IInv, DiskInv
<1>4. ASSUME FormatMid PROVE FormatMid'
  <2>1. op.kind = "format" /\ Ascending(todo) /\ freeMap(image) = System
    BY <1>4 DEF FormatMid
  <2>2. Ascending(Tail(todo)) /\ (2 \in Range(Tail(todo)) => Head(todo) \in {0, 1})
    BY <1>2, <2>1, TailOrder
  <2>3. ASSUME 2 \in Range(Tail(todo)), Sound(disk') PROVE StaleNames(disk')
    <3>1. \A t \in Sectors \ {0, 1} : disk'[t] = disk[t]
      BY <1>2, <2>2, <2>3
    <3>2. directory(disk') = directory(disk) /\ Sound(disk)
      BY <1>3, <2>3, <3>1, SystemHeadersUnused
    <3>3. StaleNames(disk)
      BY <1>2, <1>4, <2>3, <3>2 DEF FormatMid
    <3> QED
      BY <3>2, <3>3 DEF StaleNames, LiveIn
  <2> QED
    BY <1>1, <1>2, <2>1, <2>2, <2>3 DEF FormatMid
<1>5. ASSUME CreateMid, Tail(todo) # <<>> PROVE CreateMid'
  <2>1. /\ op.kind \in {"stdin", "stdout", "create"} /\ op.name \in Names /\ MapLast(todo)
        /\ \E d, j : Creating(d, image, op.name, j, disk) /\ disk[2] = d[2]
    BY <1>5 DEF CreateMid
  <2>2. PICK d, j : Creating(d, image, op.name, j, disk) /\ disk[2] = d[2]
    BY <2>1
  <2>3. MapLast(Tail(todo)) /\ Head(todo) # 2
    BY <1>2, <1>5, <2>1, TailOrder
  <2>4. disk'[2] = d[2]
    BY <1>2, <2>2, <2>3, SystemSectors
  <2>5. Creating(d, image, op.name, j, disk')
    BY <1>2, <2>2 DEF Creating, Mixed
  <2> QED
    BY <1>1, <1>2, <2>1, <2>3, <2>4, <2>5 DEF CreateMid
<1>6. ASSUME RemoveMid PROVE RemoveMid'
  <2>1. PICK d, j : Removing(d, image, j, disk) /\ op.name = directory(d)[j].name
    BY <1>6 DEF RemoveMid
  <2>2. Removing(d, image, j, disk')
    BY <1>2, <2>1 DEF Removing, Mixed
  <2> QED
    BY <1>1, <1>6, <2>1, <2>2 DEF RemoveMid
<1>7. ASSUME CopyMid PROVE CopyMid'
  BY <1>1, <1>2, <1>7 DEF CopyMid
<1>8. todo' = <<>> \/ FormatMid' \/ CreateMid' \/ RemoveMid' \/ CopyMid'
  BY <1>2, <1>4, <1>5, <1>6, <1>7 DEF RInv
<1>9. (~ crossed => StaleNames(image)) /\ (crossed => ~ Sound(image))
  BY DEF RInv
<1>10. (~ crossed' => StaleNames(image')) /\ (crossed' => ~ Sound(image'))
  BY <1>1, <1>9, SMTT(20)
<1> QED
  BY <1>8, <1>10 DEF RInv

-----------------------------------------------------------------------------
(* A stop that spares all files but the one in work is harmless.           *)
LEMMA OneBusy ==
  ASSUME NEW d, TypedDisk(d), Sound(d), NEW e, TypedDisk(e), NEW n,
         AllKept(d, e, n), Sound(e) => AllOld(d, e, n)
  PROVE  Harmless(d, e, {n})
<1>1. Stays(d, e, n)
  BY FilesStay
<1>2. Sound(e) => NoneNew(d, e, n)
  BY NoFileNew
<1> QED
  BY <1>1, <1>2 DEF Harmless, Stays, NoneNew

(* A stop in the middle of Create, of Remove or of a copy is of that kind. *)
LEMMA MidStopped ==
  ASSUME IInv, RInv, ~ crossed, CreateMid \/ RemoveMid \/ CopyMid
  PROVE  OneStopped
<1> DEFINE n == op.name
<1>1. TypedDisk(image) /\ Sound(image) /\ StaleNames(image)
  BY DEF IInv, DiskInv, RInv
<1>2. CASE CreateMid
  <2>1. op.kind \in {"stdin", "stdout", "create"} /\ n \in Names
    BY <1>2 DEF CreateMid
  <2>2. PICK d, j : Creating(d, image, n, j, disk) /\ disk[2] = d[2]
    BY <1>2 DEF CreateMid
  <2>3. AllKept(image, disk, n) /\ (Sound(disk) => AllOld(image, disk, n) /\ StaleNames(disk))
    BY <2>2, CreateStopped
  <2> QED
    BY <2>1, <2>3 DEF OneStopped
<1>3. CASE RemoveMid
  <2>1. op.kind = "remove" /\ n \in Names
    BY <1>3 DEF RemoveMid
  <2>2. PICK d, j : Removing(d, image, j, disk) /\ n = directory(d)[j].name
    BY <1>3 DEF RemoveMid
  <2>3. /\ AllKept(image, disk, directory(d)[j].name)
        /\ AllOld(image, disk, directory(d)[j].name) /\ StaleNames(disk)
    BY <2>2, RemoveStopped
  <2> QED
    BY <2>1, <2>2, <2>3 DEF OneStopped
<1>4. CASE CopyMid
  <2>1. op.kind = "copy" /\ \A t \in Sectors \ SectorsOf(op.hdr) : disk[t] = image[t]
    BY <1>4 DEF CopyMid
  <2> DEFINE hdr == header(image, Find(directory(image), n))
  <2>2. /\ Target(image, n)
        /\ op = [kind |-> "copy", name |-> op.name, seekPosition |-> op.seekPosition, hdr |-> hdr]
    BY <2>1 DEF IInv, CopyInv
  <2>3. n \in Names
    BY <2>2, FileSystemAssumption DEF Target
  <2>4. PICK j : CopyAt(image, n, j, hdr)
    BY <1>1, <2>2, TargetLemma
  <2> HIDE DEF hdr
  <2>5. op.hdr = hdr
    BY <2>2, SMTT(20)
  <2>6. j \in LiveIn(image) /\ directory(image)[j].name = n /\ hdr = HdrOf(image, j)
    BY <2>4 DEF CopyAt
  <2>7. \A t \in Sectors \ SectorsOf(HdrOf(image, j)) : disk[t] = image[t]
    BY <2>1, <2>5, <2>6
  <2>8. /\ directory(disk) = directory(image)
        /\ AllKept(image, disk, directory(image)[j].name)
        /\ AllOld(image, disk, directory(image)[j].name)
    BY <1>1, <2>6, <2>7, WroteKeeps
  <2>9. StaleNames(disk)
    BY <1>1, <2>8 DEF StaleNames, LiveIn
  <2> QED
    BY <2>1, <2>3, <2>6, <2>8, <2>9 DEF OneStopped
<1> QED
  BY <1>2, <1>3, <1>4

(* A stop in format that leaves a disk that agrees leaves no stale names.  *)
LEMMA FormatStopped ==
  ASSUME IInv, FormatMid, Sound(disk)
  PROVE  StaleNames(disk)
<1>1. CASE 2 \in Range(todo)
  BY <1>1 DEF FormatMid
<1>2. CASE 2 \notin Range(todo)
  <2>1. disk[2] = image[2]
    BY <1>2, SystemSectors DEF IInv, DiskInv, Pending
  <2>2. freeMap(disk) = System
    BY <2>1, Layout DEF FormatMid, freeMap
  <2>3. \A i \in LiveIn(disk) : FALSE
    BY <2>2, SoundUses
  <2> QED
    BY <2>3 DEF StaleNames
<1> QED
  BY <1>1, <1>2

(* A stop keeps the invariant and harms only the files in work.            *)
LEMMA StopRInv ==
  ASSUME IInv, RInv, Stop
  PROVE  /\ RInv' /\ ~ crossed /\ op'.kind = "off"
         /\ Harmless(image, image', BusyWith(op))
         /\ crossed' => BusyWith(op) # {}
         /\ ~ crossed' => Sound(image')
<1>1. /\ image' = disk /\ todo' = <<>> /\ op' = Off /\ crossed' = ~ Agrees(disk)
      /\ op.kind \notin {"off", "aborted", "overrun"}
  BY DEF Stop
<1>2. op'.kind = "off" /\ op.kind # "off"
  BY <1>1, OpFields, SMTT(20)
<1>3. ~ crossed /\ TypedDisk(disk) /\ TypedDisk(image) /\ Sound(image)
  BY <1>2 DEF IInv, DiskInv
<1>4. crossed' <=> ~ Sound(disk)
  <2>1. Agrees(disk) <=> Sound(disk)
    BY <1>3, AgreesIsSound
  <2> QED
    BY <1>1, <2>1
<1> SUFFICES /\ Sound(disk) => StaleNames(disk)
             /\ Harmless(image, disk, BusyWith(op))
             /\ Sound(disk) \/ BusyWith(op) # {}
  BY <1>1, <1>2, <1>3, <1>4 DEF RInv
<1>5. CASE todo = <<>>
  <2>1. disk = image /\ Sound(disk) /\ StaleNames(disk)
    BY <1>2, <1>5, Between
  <2>2. Harmless(image, disk, BusyWith(op))
    BY <2>1 DEF Harmless, SameBytes
  <2> QED
    BY <2>1, <2>2
<1>6. CASE FormatMid
  <2>1. BusyWith(op) = Names
    BY <1>6 DEF FormatMid, BusyWith
  <2>2. Names # {}
    BY FileSystemAssumption
  <2>3. Harmless(image, disk, Names)
    BY DEF Harmless
  <2> QED
    BY <1>6, <2>1, <2>2, <2>3, FormatStopped
<1>7. CASE CreateMid \/ RemoveMid \/ CopyMid
  <2>1. OneStopped
    BY <1>3, <1>7, MidStopped
  <2>2. op.kind \notin {"format", "off", "boot", "idle", "aborted", "overrun"} /\ op.name # Missing
    BY <2>1, FileSystemAssumption, SMTT(20) DEF OneStopped
  <2>3. BusyWith(op) = {op.name}
    BY <2>2 DEF BusyWith
  <2>4. AllKept(image, disk, op.name) /\ (Sound(disk) => AllOld(image, disk, op.name))
    BY <2>1 DEF OneStopped
  <2>5. Harmless(image, disk, {op.name})
    BY <1>3, <2>4, OneBusy
  <2> QED
    BY <2>1, <2>3, <2>5 DEF OneStopped
<1> QED
  BY <1>5, <1>6, <1>7 DEF RInv

-----------------------------------------------------------------------------
(***************************************************************************)
(* The steps of the file system as steps of FileMap.                       *)
(***************************************************************************)
(* The names that an operation is at work on.                              *)
LEMMA BusyCases ==
  ASSUME NEW o
  PROVE  /\ o.kind = "format" => BusyWith(o) = Names
         /\ o.kind \in {"off", "boot", "idle", "overrun"} => BusyWith(o) = {}
         /\ o.kind \in {"stdin", "stdout", "create", "remove", "copy"} =>
              /\ o.name \in Names => BusyWith(o) = {o.name}
              /\ o.name = Missing => BusyWith(o) = {}
              /\ BusyWith(o) = {o.name} \ {Missing}
<1>1. o.kind = "format" => BusyWith(o) = Names
  BY DEF BusyWith
<1>2. o.kind \in {"off", "boot", "idle", "overrun"} => BusyWith(o) = {}
  BY SMTT(20) DEF BusyWith
<1>3. o.kind \in {"stdin", "stdout", "create", "remove", "copy"} =>
        BusyWith(o) = {o.name} \ {Missing}
  BY SMTT(20) DEF BusyWith
<1>4. o.name \in Names => {o.name} \ {Missing} = {o.name}
  BY FileSystemAssumption
<1>5. o.name = Missing => {o.name} \ {Missing} = {}
  OBVIOUS
<1> QED
  BY <1>1, <1>2, <1>3, <1>4, <1>5

(* The files of a disk as a function of their names.                       *)
LEMMA FilesLemma ==
  ASSUME NEW d
  PROVE  /\ DOMAIN FilesOn(d) = Present(d)
         /\ \A n \in Present(d) : FilesOn(d)[n] = FileOf(d, n)
         /\ \A n \in Names : n \in Present(d) <=> Find(directory(d), n) # -1
         /\ Present(d) \subseteq Names
BY DEF FilesOn, Present

(* An operation on one file.                                               *)
LEMMA OthersStay ==
  ASSUME NEW n, Stays(image, image', n), NoneNew(image, image', n)
  PROVE  FileMap!OnlyChanges(n)
<1> DEFINE P == Present(image)
           Q == Present(image')
<1>1. ASSUME NEW m \in P \ {n} PROVE m \in Q /\ FileOf(image', m) = FileOf(image, m)
  BY DEF Present, Stays, SameBytes
<1>2. ASSUME NEW m \in Q \ {n} PROVE m \in P
  BY DEF Present, NoneNew
<1> HIDE DEF P, Q
<1>3. Q \ {n} = P \ {n}
  BY <1>1, <1>2
<1>4. \A m \in P \ {n} : FilesOn(image')[m] = FilesOn(image)[m]
  BY <1>1, FilesLemma DEF P, Q
<1> QED
  BY <1>3, <1>4 DEF FileMap!OnlyChanges, FilesOn, P, Q

(* What each step of FileMap asks of a step of the file system: Create, ...*)
LEMMA MapCreate ==
  ASSUME NEW n \in Names, Appears(image, image', n), BusyWith(op') = {n}
  PROVE  FileMap!Create(n)
<1>1. FileMap!OnlyChanges(n)
  BY OthersStay DEF Appears
<1>2. n \notin Present(image) /\ n \in Present(image')
  BY DEF Appears, Present
<1> QED
  BY <1>1, <1>2 DEF FileMap!Create, BusyWith

(* ... Remove, ...                                                         *)
LEMMA MapRemove ==
  ASSUME NEW n \in Names, Vanishes(image, image', n), BusyWith(op') = {n}
  PROVE  FileMap!Remove(n)
<1>1. FileMap!OnlyChanges(n)
  BY OthersStay DEF Vanishes
<1>2. n \in Present(image) /\ n \notin Present(image')
  BY DEF Vanishes, Present
<1> QED
  BY <1>1, <1>2 DEF FileMap!Remove, BusyWith

(* ... Write, ...                                                          *)
LEMMA MapWrite ==
  ASSUME NEW n \in Names, Rewritten(image, image', n),
         BusyWith(op) = {n}, BusyWith(op') = {n}
  PROVE  FileMap!Write(n)
<1>1. FileMap!OnlyChanges(n)
  BY OthersStay DEF Rewritten
<1>2. n \in Present(image) /\ n \in Present(image')
  BY DEF Rewritten, Present
<1>3. Len(FilesOn(image')[n]) = Len(FilesOn(image)[n])
  BY <1>2, FilesLemma DEF Rewritten
<1> QED
  BY <1>1, <1>2, <1>3 DEF FileMap!Write, BusyWith, FilesOn

(* ... Return, ...                                                         *)
LEMMA MapReturn ==
  ASSUME image' = image, BusyWith(op') = {}
  PROVE  FileMap!Return
BY DEF FileMap!Return, BusyWith

(* ... Format, ...                                                         *)
LEMMA MapFormat ==
  ASSUME BusyWith(op') = Names, crossed' = FALSE, \A n : Find(directory(image'), n) = -1
  PROVE  FileMap!Format
<1>1. Present(image') = {}
  BY DEF Present
<1> QED
  BY <1>1 DEF FileMap!Format, BusyWith

(* ... Stop, ...                                                           *)
LEMMA MapStop ==
  ASSUME Harmless(image, image', BusyWith(op)), crossed' => BusyWith(op) # {},
         ~ crossed' => Sound(image'), BusyWith(op') = {}
  PROVE  FileMap!Stop
<1> DEFINE P == Present(image)
           Q == Present(image')
           B == BusyWith(op)
<1>1. ASSUME NEW m \in P \ B PROVE m \in Q /\ FileOf(image', m) = FileOf(image, m)
  BY DEF Present, Harmless, SameBytes
<1>2. crossed' \/ Q \subseteq P \cup B
  BY DEF Present, Harmless
<1> HIDE DEF P, Q, B
<1>3. \A m \in P \ B : m \in Q /\ FilesOn(image')[m] = FilesOn(image)[m]
  BY <1>1, FilesLemma DEF P, Q
<1> QED
  BY <1>2, <1>3 DEF FileMap!Stop, FilesOn, BusyWith, P, Q, B

(* ... and a stutter.                                                      *)
LEMMA MapStutter ==
  ASSUME image' = image, BusyWith(op') = BusyWith(op), crossed' = crossed
  PROVE  UNCHANGED FileMap!fileMapVars
BY SMTT(20) DEF FileMap!fileMapVars, BusyWith

(* The steps of FileMap on one name, or a return, while nothing is damaged.*)
LEMMA MapStep ==
  ASSUME crossed = FALSE, crossed' = FALSE,
         \/ \E n \in Names : FileMap!Create(n) \/ FileMap!Write(n) \/ FileMap!Remove(n)
         \/ FileMap!Return
  PROVE  FileMap!Next
BY DEF FileMap!Next

(* Create of a standard file is a step of FileMap or a stutter, ...        *)
LEMMA CreateStdMaps ==
  ASSUME IInv, RInv, NEW n \in Names, NEW kinds, "off" \notin kinds,
         NEW kind \in {"stdin", "stdout"}, CreateStd(n, kinds, kind)
  PROVE  RInv' /\ MapOrNot
<1>1. /\ todo = <<>> /\ op.kind # "off" /\ disk' = disk /\ crossed' = crossed
      /\ \/ op' = Busy(kind, Missing) /\ UNCHANGED <<image, todo>>
         \/ ~ CreateFails(n, 0) /\ op' = Busy(kind, n) /\ Create(n, 0)
  BY SMTT(20) DEF CreateStd
<1>2. crossed = FALSE /\ crossed' = FALSE
  <2>1. crossed \in BOOLEAN /\ ~ crossed
    BY <1>1 DEF IInv, DiskInv
  <2> QED
    BY <1>1, <2>1
<1>3. kind \in {"stdin", "stdout", "create"} /\ kind \in {"stdin", "stdout", "create", "remove", "copy"}
  OBVIOUS
<1>4. CASE op' = Busy(kind, Missing) /\ UNCHANGED <<image, todo>>
  <2>1. image' = image /\ todo' = todo
    BY <1>4, SMTT(20)
  <2>2. op'.kind = kind /\ op'.name = Missing
    BY <1>4, OpFields
  <2>3. BusyWith(op') = {}
    BY <1>3, <2>2, BusyCases
  <2>4. UNCHANGED <<image, todo, crossed>>
    BY <1>1, <2>1, SMTT(20)
  <2>5. RInv'
    BY <1>1, <2>4, QuietRInv
  <2>6. FileMap!Next
    BY <1>2, <2>1, <2>3, MapReturn, MapStep
  <2> QED
    BY <2>5, <2>6 DEF MapOrNot
<1>5. CASE ~ CreateFails(n, 0) /\ op' = Busy(kind, n) /\ Create(n, 0)
  <2>1. op'.kind = kind /\ op'.name = n
    BY <1>5, OpFields
  <2>2. BusyWith(op') = {n}
    BY <1>3, <2>1, BusyCases
  <2> DEFINE size == 0
  <2>3. size \in Nat /\ divRoundUp(size, SectorSize) <= NumDirect
    BY NoSectors, SMTT(20)
  <2> HIDE DEF size
  <2>4. ~ CreateFails(n, size) /\ Create(n, size) /\ op'.kind \in {"stdin", "stdout", "create"}
    BY <1>3, <1>5, <2>1 DEF size
  <2>5. RInv' /\ Appears(image, image', n)
    BY <1>1, <2>1, <2>3, <2>4, CreateRInv
  <2>6. FileMap!Create(n)
    BY <2>2, <2>5, MapCreate
  <2>7. FileMap!Next
    BY <1>2, <2>6, MapStep
  <2> QED
    BY <2>5, <2>7 DEF MapOrNot
<1> QED
  BY <1>1, <1>4, <1>5

(* ... as are Remove, ...                                                  *)
LEMMA RemoveMaps ==
  ASSUME IInv, RInv, NEW n \in Names, Remove(n)
  PROVE  RInv' /\ MapOrNot
<1>1. /\ RInv' /\ Vanishes(image, image', n)
      /\ op.kind = "idle" /\ op' = Busy("remove", n) /\ crossed' = crossed
  BY RemoveRInv
<1>2. op'.kind = "remove" /\ op'.name = n /\ op.kind # "off"
  BY <1>1, OpFields, SMTT(20)
<1>3. BusyWith(op') = {n}
  BY <1>2, BusyCases
<1>4. crossed = FALSE /\ crossed' = FALSE
  <2>1. crossed \in BOOLEAN /\ ~ crossed
    BY <1>2 DEF IInv, DiskInv
  <2> QED
    BY <1>1, <2>1
<1>5. FileMap!Remove(n)
  BY <1>1, <1>3, MapRemove
<1>6. FileMap!Next
  BY <1>4, <1>5, MapStep
<1> QED
  BY <1>1, <1>6 DEF MapOrNot

(* ... the start of a copy ...                                             *)
LEMMA CopyMaps ==
  ASSUME IInv, RInv, NEW n \in DOMAIN Unix, Copy(n), op' # [kind |-> "overrun"]
  PROVE  RInv' /\ MapOrNot
<1> DEFINE size == Len(Unix[n])
<1>1. /\ Ready /\ UNCHANGED <<disk, crossed>>
      /\ divRoundUp(size, SectorSize) <= NumDirect
      /\ ~ CreateFails(n, size) /\ Create(n, size) /\ op' = Busy("create", n)
  BY DEF Copy
<1>2. /\ disk' = disk /\ crossed' = crossed
      /\ todo = <<>> /\ op.kind = "idle" /\ op.kind # "off"
  BY <1>1, SMTT(20) DEF Ready
<1>3. n \in Names /\ size \in Nat
  <2>1. n \in Names /\ Unix[n] \in Seq(0 .. 255)
    BY FileSystemAssumption
  <2> QED
    BY <2>1, SMTT(20)
<1>4. op'.kind = "create" /\ op'.name = n
  BY <1>1, OpFields
<1>5. op'.kind \in {"stdin", "stdout", "create"}
  BY <1>4
<1> HIDE DEF size
<1>6. RInv' /\ Appears(image, image', n)
  BY <1>1, <1>2, <1>3, <1>4, <1>5, CreateRInv
<1>7. BusyWith(op') = {n}
  BY <1>3, <1>4, BusyCases
<1>8. crossed = FALSE /\ crossed' = FALSE
  <2>1. crossed \in BOOLEAN /\ ~ crossed
    BY <1>2 DEF IInv, DiskInv
  <2> QED
    BY <1>2, <2>1
<1>9. FileMap!Create(n)
  BY <1>3, <1>6, <1>7, MapCreate
<1>10. FileMap!Next
  BY <1>3, <1>8, <1>9, MapStep
<1> QED
  BY <1>6, <1>10 DEF MapOrNot

(* A copy that the header has no room for starts no write.                 *)
LEMMA OverrunMaps ==
  ASSUME IInv, RInv, NEW n, Copy(n), op' = [kind |-> "overrun"]
  PROVE  RInv' /\ MapOrNot
<1>1. todo = <<>> /\ op.kind = "idle" /\ UNCHANGED <<disk, image, todo, crossed>>
  BY OverrunKeeps
<1>2. image' = image /\ crossed' = crossed /\ UNCHANGED <<image, todo, crossed>>
  BY <1>1, SMTT(20)
<1>3. RInv'
  BY <1>1, <1>2, QuietRInv
<1>4. op'.kind = "overrun"
  BY SMTT(20)
<1>5. BusyWith(op) = {} /\ BusyWith(op') = {}
  BY <1>1, <1>4, BusyCases
<1>6. UNCHANGED FileMap!fileMapVars
  BY <1>2, <1>5, MapStutter
<1> QED
  BY <1>3, <1>6 DEF MapOrNot

(* ... and each of its chunks.                                             *)
LEMMA CopyWriteMaps ==
  ASSUME IInv, RInv, CopyWrite
  PROVE  RInv' /\ MapOrNot
<1>1. /\ RInv' /\ Rewritten(image, image', op.name)
      /\ op.name \in Names /\ op'.kind = "copy" /\ op'.name = op.name
      /\ op.kind = "copy" /\ ~ crossed /\ crossed' = FALSE
  BY CopyWriteRInv
<1>2. BusyWith(op) = {op.name} /\ BusyWith(op') = {op.name}
  BY <1>1, BusyCases
<1>3. crossed = FALSE
  BY <1>1 DEF IInv, DiskInv
<1>4. FileMap!Write(op.name)
  BY <1>1, <1>2, MapWrite
<1>5. FileMap!Next
  BY <1>1, <1>3, <1>4, MapStep
<1> QED
  BY <1>1, <1>5 DEF MapOrNot

(* Boot, CopyOpen, CopyClose and Return start no write.                    *)
LEMMA QuietMaps ==
  ASSUME IInv, RInv, Boot \/ CopyOpen \/ CopyClose \/ Return
  PROVE  RInv' /\ MapOrNot
<1>1. UNCHANGED <<disk, image, todo, crossed>>
  BY DEF Boot, CopyOpen, CopyClose, Return
<1>2. image' = image /\ todo' = todo /\ crossed' = crossed /\ UNCHANGED <<image, todo, crossed>>
  BY <1>1, SMTT(20)
<1>3. todo = <<>> \/ op = Off
  BY DEF Boot, CopyOpen, CopyClose, Return
<1>4. todo = <<>>
  BY <1>3, Between
<1>5. RInv'
  BY <1>2, <1>4, QuietRInv
<1>6. CASE Boot
  <2>1. op = Off /\ op' = [kind |-> "boot"]
    BY <1>6 DEF Boot
  <2>2. op.kind = "off" /\ op'.kind = "boot"
    BY <2>1, OpFields, SMTT(20)
  <2>3. BusyWith(op) = {} /\ BusyWith(op') = {}
    BY <2>2, BusyCases
  <2>4. UNCHANGED FileMap!fileMapVars
    BY <1>2, <2>3, MapStutter
  <2> QED
    BY <1>5, <2>4 DEF MapOrNot
<1>7. CASE CopyOpen
  <2>1. op.kind = "create" /\ op' = OpenFile(op.name, Find(directory(disk), op.name))
    BY <1>7 DEF CopyOpen
  <2>2. op'.kind = "copy" /\ op'.name = op.name
    BY <2>1, SMTT(20) DEF OpenFile
  <2>3. BusyWith(op) = {op.name} \ {Missing} /\ BusyWith(op') = {op'.name} \ {Missing}
    BY <2>1, <2>2, BusyCases
  <2>4. UNCHANGED FileMap!fileMapVars
    BY <1>2, <2>2, <2>3, MapStutter
  <2> QED
    BY <1>5, <2>4 DEF MapOrNot
<1>8. CASE CopyClose \/ Return
  <2>1. op.kind \in {"copy", "remove", "stdout"} /\ op' = Idle
    BY <1>8 DEF CopyClose, Return
  <2>2. op'.kind = "idle" /\ op.kind # "off"
    BY <2>1, OpFields, SMTT(20)
  <2>3. BusyWith(op') = {}
    BY <2>2, BusyCases
  <2>4. crossed = FALSE /\ crossed' = FALSE
    <3>1. crossed \in BOOLEAN /\ ~ crossed
      BY <2>2 DEF IInv, DiskInv
    <3> QED
      BY <1>2, <3>1
  <2>5. FileMap!Next
    BY <1>2, <2>3, <2>4, MapReturn, MapStep
  <2> QED
    BY <1>5, <2>5 DEF MapOrNot
<1> QED
  BY <1>6, <1>7, <1>8

(* Every step is a step of FileMap or changes none of its state.           *)
LEMMA StepMaps == IInv /\ RInv /\ [Next]_fsVars => RInv' /\ [FileMap!Next]_(FileMap!fileMapVars)
<1> SUFFICES ASSUME IInv, RInv, [Next]_fsVars PROVE RInv' /\ MapOrNot
  BY DEF MapOrNot
<1>1. CASE Boot \/ CopyOpen \/ CopyClose \/ Return
  BY <1>1, QuietMaps
<1>2. CASE Format
  <2>1. RInv' /\ \A n : Find(directory(image'), n) = -1
    BY <1>2, FormatRInv
  <2>2. crossed' = FALSE /\ op' = [kind |-> "format"]
    BY <1>2 DEF Format
  <2>3. op'.kind = "format"
    BY <2>2, SMTT(20)
  <2>4. BusyWith(op') = Names
    BY <2>3, BusyCases
  <2>5. FileMap!Format
    BY <2>1, <2>2, <2>4, MapFormat
  <2> QED
    BY <2>1, <2>5 DEF MapOrNot, FileMap!Next
<1>3. CASE CreateStd(Stdin, {"boot", "format"}, "stdin")
  <2> DEFINE kinds == {"boot", "format"}
             kind == "stdin"
  <2>1. "off" \notin kinds /\ kind \in {"stdin", "stdout"}
    BY SMTT(20)
  <2>2. Stdin \in Names
    BY FileSystemAssumption
  <2> HIDE DEF kinds, kind
  <2>3. CreateStd(Stdin, kinds, kind)
    BY <1>3 DEF kinds, kind
  <2> QED
    BY <2>1, <2>2, <2>3, CreateStdMaps
<1>4. CASE CreateStd(Stdout, {"stdin"}, "stdout")
  <2> DEFINE kinds == {"stdin"}
             kind == "stdout"
  <2>1. "off" \notin kinds /\ kind \in {"stdin", "stdout"}
    BY SMTT(20)
  <2>2. Stdout \in Names
    BY FileSystemAssumption
  <2> HIDE DEF kinds, kind
  <2>3. CreateStd(Stdout, kinds, kind)
    BY <1>4 DEF kinds, kind
  <2> QED
    BY <2>1, <2>2, <2>3, CreateStdMaps
<1>5. ASSUME NEW n \in DOMAIN Unix, Remove(n) PROVE RInv' /\ MapOrNot
  <2>1. n \in Names
    BY FileSystemAssumption
  <2> QED
    BY <1>5, <2>1, RemoveMaps
<1>6. ASSUME NEW n \in DOMAIN Unix, Copy(n) PROVE RInv' /\ MapOrNot
  BY <1>6, CopyMaps, OverrunMaps
<1>7. CASE CopyWrite
  BY <1>7, CopyWriteMaps
<1>8. CASE WriteSector
  <2>1. RInv'
    BY <1>8, WriteSectorRInv
  <2>2. image' = image /\ op' = op /\ crossed' = crossed
    BY <1>8, SMTT(20) DEF WriteSector
  <2> QED
    BY <2>1, <2>2, MapStutter DEF MapOrNot
<1>9. CASE Stop
  <2>1. /\ RInv' /\ ~ crossed /\ op'.kind = "off"
        /\ Harmless(image, image', BusyWith(op))
        /\ crossed' => BusyWith(op) # {}
        /\ ~ crossed' => Sound(image')
    BY <1>9, StopRInv
  <2>2. BusyWith(op') = {}
    BY <2>1, BusyCases
  <2>3. FileMap!Stop
    BY <2>1, <2>2, MapStop
  <2> QED
    BY <2>1, <2>3 DEF MapOrNot, FileMap!Next
<1>10. CASE UNCHANGED fsVars
  <2>1. disk' = disk /\ image' = image /\ todo' = todo /\ op' = op /\ crossed' = crossed
    BY <1>10, SMTT(30) DEF fsVars
  <2>2. RInv'
    BY <2>1, SMTT(20) DEF RInv, FormatMid, CreateMid, RemoveMid, CopyMid
  <2> QED
    BY <2>1, <2>2, MapStutter DEF MapOrNot
<1> QED
  BY <1>1, <1>2, <1>3, <1>4, <1>5, <1>6, <1>7, <1>8, <1>9, <1>10 DEF Next

(* The initial states are initial states of FileMap.                       *)
LEMMA InitMaps == Init => FileMap!Init
<1> SUFFICES ASSUME Init PROVE FileMap!Init
  OBVIOUS
<1> DEFINE z == [s \in Sectors |-> Block([i \in 1 .. SectorSize |-> 0])]
<1>1. PICK junk \in JunkNames : disk = Apply(z, FormatWrites(junk))
  BY DEF Init
<1>2. \A t \in Sectors \ System : TypedSector(t, z[t])
  BY BlockTyped
<1> HIDE DEF z
<1>3. TypedDisk(disk) /\ LiveIn(disk) = {}
  BY <1>1, <1>2, FormatFormats, SMTT(20)
<1>4. image = disk /\ op = Off /\ crossed = FALSE
  BY DEF Init
<1>5. \A n : Find(directory(image), n) = -1
  BY <1>3, <1>4, FindLemma DEF FileAt
<1>6. Present(image) = {}
  BY <1>5 DEF Present
<1>7. op.kind = "off"
  BY <1>4, OpFields
<1>8. BusyWith(op) = {}
  BY <1>7, BusyCases
<1> QED
  BY <1>4, <1>6, <1>8 DEF FileMap!Init, BusyWith

(* For every disk, directory and set of files: to its caller the file      *)
(* system is a map from names to bytes.  FileSystem::Create and Remove and *)
(* every OpenFile::Write take effect as a whole and on their file only,    *)
(* and a stop between any two of the sector writes leaves every file but   *)
(* the one in progress as it was.  (Up to a copy that its header has no    *)
(* room for, which overruns the header and is not followed.)               *)
THEOREM FileMapCorrect == Spec => FileMapSpec
<1>1. Spec => []IInv
  BY IInvAlways, SMTT(20)
<1>2. Init => RInv /\ FileMap!Init
  BY InitRInv, InitMaps
<1> QED
  BY <1>1, <1>2, StepMaps, PTL DEF Spec, FileMapSpec, FileMap!Spec
=============================================================================

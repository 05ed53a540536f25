-------------------------- MODULE FileSystemLemmas --------------------------
(***************************************************************************)
(* Lemmas about the disks of the file system of FileSystem.tla, for every  *)
(* size of the disk, of its sectors and of the directory: what the writes  *)
(* of an operation make of a disk and of the bytes of its files, and what  *)
(* a stop leaves of them when only some of the writes are done; and the    *)
(* steps of the file system that follow from these alone.                  *)
(***************************************************************************)
EXTENDS FileSystemTerms, TLAPS

(* A step that names no prover is for Zenon.                               *)
USE ZenonT(40)

(***************************************************************************)
(* Numbers: quotients and remainders.                                      *)
(***************************************************************************)
(* The sizes are positive.                                                 *)
LEMMA Sizes ==
  /\ NumSectors \in Nat \ {0} /\ SectorSize \in Nat \ {0}
  /\ NumDirEntries \in Nat \ {0} /\ SectorWords \in Nat \ {0}
  /\ TransferSize \in Nat \ {0} /\ NumDirect \in Nat \ {0}
  BY FileSystemAssumption, SMTT(20)

(* Division with remainder by a positive number.                           *)
LEMMA DivMod ==
  ASSUME NEW a \in Nat, NEW b \in Nat \ {0}
  PROVE  /\ a \div b \in Nat /\ a % b \in Nat
         /\ a = b * (a \div b) + (a % b) /\ a % b < b
  BY SMTT(20)

(* A multiple of n grows by n at least when the factor grows.              *)
LEMMA ProductGrows ==
  ASSUME NEW n \in Nat, NEW a \in Nat, NEW b \in Nat, a < b
  PROVE  n * a + n <= n * b /\ n * a \in Nat /\ n * b \in Nat
<1> DEFINE c == b - a - 1
<1>1. c \in Nat /\ b = a + 1 + c
  BY SMTT(20)
<1> HIDE DEF c
<1>2. n * c \in Nat /\ n * a \in Nat
  BY <1>1, SMTT(20)
<1>3. n * b = n * a + n + n * c
  BY <1>1, SMTT(20)
<1> QED
  BY <1>2, <1>3, SMTT(20)

(* Quotient and remainder are the only ones.                               *)
LEMMA DivModUnique ==
  ASSUME NEW n \in Nat \ {0}, NEW q \in Nat, NEW r \in 0..(n - 1)
  PROVE  (n * q + r) \div n = q /\ (n * q + r) % n = r
<1> DEFINE a == n * q + r
           k == a \div n
           s == a % n
<1>1. a \in Nat /\ n * q \in Nat
  BY SMTT(20)
<1>2. k \in Nat /\ s \in Nat /\ a = n * k + s /\ s < n
  BY <1>1, DivMod, SMTT(20)
<1>3. a = n * q + r
  BY SMTT(20)
<1> HIDE DEF a, k, s
<1>4. ~ (q < k)
  <2>1. q < k => n * q + n <= n * k
    BY <1>2, ProductGrows, SMTT(20)
  <2> QED
    BY <1>1, <1>2, <1>3, <2>1, SMTT(20)
<1>5. ~ (k < q)
  <2>1. k < q => n * k + n <= n * q
    BY <1>2, ProductGrows, SMTT(20)
  <2> QED
    BY <1>1, <1>2, <1>3, <2>1, SMTT(20)
<1>6. k = q
  BY <1>2, <1>4, <1>5, SMTT(20)
<1>7. s = r
  BY <1>1, <1>2, <1>3, <1>6, SMTT(20)
<1> QED
  BY <1>6, <1>7, SMTT(20) DEF a, k, s

(* divRoundUp counts enough units of s for n, and not one too many: n - 1  *)
(* lies in the last of them.                                               *)
LEMMA DivRoundUp ==
  ASSUME NEW n \in Nat, NEW s \in Nat \ {0}
  PROVE  /\ divRoundUp(n, s) \in Nat
         /\ \A a \in Nat : a < n => a \div s < divRoundUp(n, s)
         /\ n > 0 => divRoundUp(n, s) > 0
<1> DEFINE q == (n + s - 1) \div s
           r == (n + s - 1) % s
<1>1. n + s - 1 \in Nat
  BY SMTT(20)
<1>2. q \in Nat /\ r \in Nat /\ n + s - 1 = s * q + r /\ r < s
  BY <1>1, DivMod, SMTT(20)
<1>3. divRoundUp(n, s) = q
  BY SMTT(20) DEF divRoundUp
<1> HIDE DEF q, r
<1>4. ASSUME NEW a \in Nat, a < n PROVE a \div s < q
  <2>1. a \div s \in Nat /\ a % s \in Nat /\ a = s * (a \div s) + (a % s)
    BY DivMod, SMTT(20)
  <2>2. ASSUME q <= a \div s PROVE FALSE
    <3>1. s * q <= s * (a \div s) /\ s * q \in Nat /\ s * (a \div s) \in Nat
      <4>1. CASE q = a \div s
        BY <1>2, <4>1, SMTT(20)
      <4>2. CASE q < a \div s
        BY <1>2, <2>1, <4>2, ProductGrows, SMTT(20)
      <4> QED
        BY <1>2, <2>1, <2>2, <4>1, <4>2, SMTT(20)
    <3> QED
      BY <1>2, <1>4, <2>1, <3>1, SMTT(20)
  <2> QED
    BY <1>2, <2>1, <2>2, SMTT(20)
<1>5. n > 0 => q > 0
  <2>1. CASE q = 0
    BY <1>2, <2>1, SMTT(20)
  <2> QED
    BY <1>2, <2>1, SMTT(20)
<1> QED
  BY <1>2, <1>3, <1>4, <1>5, SMTT(20)

(* The least of two numbers, as ReadAt and WriteAt clip what they move.    *)
LEMMA MinPair ==
  ASSUME NEW a \in Int, NEW b \in Int
  PROVE  Min({a, b}) = IF a <= b THEN a ELSE b
  BY SMTT(20) DEF Min

-----------------------------------------------------------------------------
(* What the provers need to know of a sequence.                            *)
LEMMA OfSeq ==
  ASSUME NEW S, NEW s \in Seq(S)
  PROVE  /\ Len(s) \in Nat /\ DOMAIN s = 1 .. Len(s) /\ s \in [1 .. Len(s) -> S]
         /\ \A i \in 1 .. Len(s) : s[i] \in S
  BY SMTT(20)

-----------------------------------------------------------------------------
(***************************************************************************)
(* The layout of the disk: the system files, and the words of a directory  *)
(* in its sectors.                                                         *)
(***************************************************************************)
(* The sectors of the system are the first ones of the disk.               *)
LEMMA Layout ==
  /\ DirSectors \in Nat
  /\ mapHdr.dataSectors[1] = 2
  /\ \A k \in 1 .. DirSectors : dirHdr.dataSectors[k] = 2 + k
  /\ System = 0 .. 2 + DirSectors
  /\ System \subseteq Sectors
<1>1. DirSectors \in Nat
  BY Sizes, DivRoundUp, SMTT(20) DEF DirSectors
<1>2. mapHdr.dataSectors = <<2>> /\ dirHdr.dataSectors = [k \in 1 .. DirSectors |-> 2 + k]
  BY SMTT(20) DEF mapHdr, dirHdr, Header
<1>3. SectorsOf(mapHdr) = {2}
  <2>1. DOMAIN <<2>> = {1} /\ <<2>>[1] = 2
    BY SMTT(20)
  <2> QED
    BY <1>2, <2>1 DEF SectorsOf, Range
<1>4. SectorsOf(dirHdr) = {2 + k : k \in 1 .. DirSectors}
  BY <1>2 DEF SectorsOf, Range
<1>5. {2 + k : k \in 1 .. DirSectors} = 3 .. 2 + DirSectors
  <2>1. ASSUME NEW s \in 3 .. 2 + DirSectors
        PROVE  s - 2 \in 1 .. DirSectors /\ s = 2 + (s - 2)
    BY <1>1, SMTT(20)
  <2>2. \A k \in 1 .. DirSectors : 2 + k \in 3 .. 2 + DirSectors
    BY <1>1, SMTT(20)
  <2> QED
    BY <2>1, <2>2
<1>6. System = 0 .. 2 + DirSectors
  <2>1. System = {0, 1, 2} \cup (3 .. 2 + DirSectors)
    BY <1>3, <1>4, <1>5 DEF System, Mark
  <2>2. {0, 1, 2} \cup (3 .. 2 + DirSectors) = 0 .. 2 + DirSectors
    BY <1>1, SMTT(20)
  <2> QED
    BY <2>1, <2>2
<1>7. System \subseteq Sectors
  BY <1>1, <1>6, FileSystemAssumption, Sizes, SMTT(20) DEF Sectors
<1> QED
  BY <1>1, <1>2, <1>6, <1>7, SMTT(20)

(* The entries of the directory are numbered.                              *)
LEMMA EntriesNat == Entries \subseteq Nat
BY Sizes, SMTT(20) DEF Entries

(* A word of the directory lies in one of its sectors.                     *)
LEMMA WordPlace ==
  ASSUME NEW at \in Nat, at < 3 * NumDirEntries
  PROVE  \E k \in 1 .. DirSectors, w \in 0 .. SectorWords - 1 :
           /\ at \div SectorWords + 1 = k /\ at % SectorWords = w
           /\ (k - 1) * SectorWords + w = at
           /\ \A d : Word(d, at) = d[2 + k].words[w]
<1> DEFINE q == at \div SectorWords
           k == q + 1
           w == at % SectorWords
<1>1. q \in Nat /\ w \in Nat /\ at = SectorWords * q + w /\ w < SectorWords
  BY Sizes, DivMod, SMTT(20)
<1>2. q < DirSectors
  <2>1. 3 * NumDirEntries \in Nat
    BY Sizes, SMTT(20)
  <2> HIDE DEF q
  <2> QED
    BY <2>1, Sizes, DivRoundUp DEF DirSectors, q
<1>3. \A d : Word(d, at) = d[2 + k].words[w]
  BY DEF Word
<1> HIDE DEF q, w
<1>4. k - 1 = q /\ q * SectorWords = SectorWords * q
  BY <1>1, Sizes, SMTT(20)
<1>5. (k - 1) * SectorWords + w = at
  BY <1>1, <1>4, SMTT(20)
<1>6. k \in 1 .. DirSectors /\ w \in 0 .. SectorWords - 1
  BY <1>1, <1>2, Layout, Sizes, SMTT(20)
<1>7. at \div SectorWords + 1 = k /\ at % SectorWords = w
  BY DEF q, w
<1> HIDE DEF k
<1> QED
  BY <1>3, <1>5, <1>6, <1>7

(* The three words of an entry.                                            *)
LEMMA EntryWords ==
  ASSUME NEW i \in Entries
  PROVE  /\ i \in Nat
         /\ 3 * i \in Nat /\ 3 * i < 3 * NumDirEntries
         /\ 3 * i + 1 \in Nat /\ 3 * i + 1 < 3 * NumDirEntries
         /\ 3 * i + 2 \in Nat /\ 3 * i + 2 < 3 * NumDirEntries
         /\ (3 * i) \div 3 = i /\ (3 * i) % 3 = 0
         /\ (3 * i + 1) \div 3 = i /\ (3 * i + 1) % 3 = 1
         /\ (3 * i + 2) \div 3 = i /\ (3 * i + 2) % 3 = 2
  BY Sizes, SMTT(20) DEF Entries

(* Directory::FetchFrom in terms of words.                                 *)
LEMMA DirectoryWords ==
  ASSUME NEW d, NEW i \in Entries
  PROVE  /\ directory(d)[i] = [inUse |-> Word(d, 3 * i), sector |-> Word(d, 3 * i + 1),
                               name |-> Word(d, 3 * i + 2)]
         /\ directory(d)[i].inUse = Word(d, 3 * i)
         /\ directory(d)[i].sector = Word(d, 3 * i + 1)
         /\ directory(d)[i].name = Word(d, 3 * i + 2)
<1> DEFINE word(at) == d[dirHdr.dataSectors[at \div SectorWords + 1]].words[at % SectorWords]
<1>1. ASSUME NEW at \in Nat, at < 3 * NumDirEntries PROVE word(at) = Word(d, at)
  <2>1. dirHdr.dataSectors[at \div SectorWords + 1] = 2 + (at \div SectorWords + 1)
    BY <1>1, WordPlace, Layout
  <2> QED
    BY <2>1 DEF Word
<1>2. directory(d)[i] = [inUse |-> word(3 * i), sector |-> word(3 * i + 1),
                         name |-> word(3 * i + 2)]
  BY DEF directory
<1>3. /\ word(3 * i) = Word(d, 3 * i) /\ word(3 * i + 1) = Word(d, 3 * i + 1)
      /\ word(3 * i + 2) = Word(d, 3 * i + 2)
  BY <1>1, EntryWords
<1> HIDE DEF word
<1> QED
  BY <1>2, <1>3, SMTT(20)

(* Two disks whose directory sectors are the same have one directory.      *)
LEMMA SameDirectory ==
  ASSUME NEW d, NEW e, \A k \in 1 .. DirSectors : e[2 + k] = d[2 + k]
  PROVE  directory(e) = directory(d)
<1>1. ASSUME NEW i \in Entries PROVE directory(e)[i] = directory(d)[i]
  <2>1. ASSUME NEW at \in Nat, at < 3 * NumDirEntries PROVE Word(e, at) = Word(d, at)
    BY <2>1, WordPlace DEF Word
  <2>2. /\ Word(e, 3 * i) = Word(d, 3 * i) /\ Word(e, 3 * i + 1) = Word(d, 3 * i + 1)
        /\ Word(e, 3 * i + 2) = Word(d, 3 * i + 2)
    BY <2>1, EntryWords
  <2> QED
    BY <2>2, DirectoryWords
<1>2. /\ directory(e) = [i \in Entries |-> directory(e)[i]]
      /\ directory(d) = [i \in Entries |-> directory(d)[i]]
  BY DEF directory
<1> QED
  BY <1>1, <1>2

(* What Directory::WriteBack wrote, FetchFrom reads back.                  *)
LEMMA DirectoryWritten ==
  ASSUME NEW d, NEW table, HasDirectory(d, table)
  PROVE  \A i \in Entries : /\ directory(d)[i].inUse = table[i].inUse
                            /\ directory(d)[i].sector = table[i].sector
                            /\ directory(d)[i].name = table[i].name
<1>1. ASSUME NEW at \in Nat, at < 3 * NumDirEntries
      PROVE  Word(d, at) = IF at % 3 = 0 THEN table[at \div 3].inUse
                           ELSE IF at % 3 = 1 THEN table[at \div 3].sector
                           ELSE table[at \div 3].name
  <2>1. PICK k \in 1 .. DirSectors, w \in 0 .. SectorWords - 1 :
          /\ at \div SectorWords + 1 = k /\ at % SectorWords = w
          /\ (k - 1) * SectorWords + w = at
          /\ \A e : Word(e, at) = e[2 + k].words[w]
    BY <1>1, WordPlace
  <2>2. d[2 + k] = Piece(Slice(table, k - 1))
    BY DEF HasDirectory
  <2>3. d[2 + k].words = Slice(table, k - 1)
    BY <2>2, SMTT(20) DEF Piece
  <2>4. ~ (at >= 3 * NumDirEntries)
    BY <1>1, Sizes, SMTT(20)
  <2>5. Slice(table, k - 1)[w] = IF at % 3 = 0 THEN table[at \div 3].inUse
                                 ELSE IF at % 3 = 1 THEN table[at \div 3].sector
                                 ELSE table[at \div 3].name
    BY <2>1, <2>4 DEF Slice
  <2> QED
    BY <2>1, <2>3, <2>5
<1>2. ASSUME NEW i \in Entries
      PROVE  /\ Word(d, 3 * i) = table[i].inUse
             /\ Word(d, 3 * i + 1) = table[i].sector
             /\ Word(d, 3 * i + 2) = table[i].name
  <2>1. Word(d, 3 * i) = table[i].inUse
    BY <1>1, EntryWords, SMTT(20)
  <2>2. Word(d, 3 * i + 1) = table[i].sector
    BY <1>1, EntryWords, SMTT(20)
  <2>3. Word(d, 3 * i + 2) = table[i].name
    BY <1>1, EntryWords, SMTT(20)
  <2> QED
    BY <2>1, <2>2, <2>3
<1>3. ASSUME NEW i \in Entries
      PROVE  /\ directory(d)[i].inUse = table[i].inUse
             /\ directory(d)[i].sector = table[i].sector
             /\ directory(d)[i].name = table[i].name
  BY <1>2, DirectoryWords
<1> QED
  BY <1>3

-----------------------------------------------------------------------------
(* A sector that no write is to is as before, ...                          *)
LEMMA ApplyOther ==
  ASSUME NEW d, NEW n, NEW w, NEW s \in Sectors, Untouched(w, n, s)
  PROVE  Apply(d, w)[s] = d[s]
<1>1. DOMAIN w = 1 .. n
  BY DEF Untouched, IsList
<1>2. {k \in DOMAIN w : w[k].sector = s} = {}
  BY <1>1 DEF Untouched
<1> QED
  BY <1>2 DEF Apply

(* ... and another one is what the last write to it says.                  *)
LEMMA ApplyLast ==
  ASSUME NEW d, NEW n, NEW w, NEW s \in Sectors, NEW k, IsLast(w, n, s, k)
  PROVE  Apply(d, w)[s] = w[k].data
<1> DEFINE ks == {j \in 1 .. n : w[j].sector = s}
<1>0. n \in Nat /\ DOMAIN w = 1 .. n
  BY DEF IsLast, IsList
<1>1. k \in ks /\ k \in 1 .. n
  BY DEF IsLast
<1>2. Apply(d, w)[s] = w[Max(ks)].data
  BY <1>0, <1>1 DEF Apply
<1>3. \A j \in ks : j <= k
  BY DEF IsLast
<1>4. ks \subseteq Int /\ k \in Int
  BY <1>0, <1>1, SMTT(20)
<1> HIDE DEF ks
<1>5. \A j \in ks : k >= j
  BY <1>3, <1>4, SMTT(20)
<1>6. Max(ks) \in ks /\ \A j \in ks : Max(ks) >= j
  BY <1>1, <1>5 DEF Max
<1>7. Max(ks) \in Int /\ Max(ks) <= k /\ Max(ks) >= k
  BY <1>1, <1>3, <1>4, <1>6
<1>8. Max(ks) = k
  BY <1>4, <1>7, SMTT(20)
<1> QED
  BY <1>2, <1>8

(* The concatenation of two lists.                                         *)
LEMMA ConcatLemma ==
  ASSUME NEW m \in Nat, NEW n \in Nat, NEW a, NEW b,
         a = [k \in 1 .. m |-> a[k]], b = [k \in 1 .. n |-> b[k]]
  PROVE  a \o b = [k \in 1 .. m + n |-> IF k <= m THEN a[k] ELSE b[k - m]]
<1> DEFINE S == {a[k] : k \in 1 .. m} \cup {b[k] : k \in 1 .. n}
<1>1. \A k \in 1 .. m : a[k] \in S
  OBVIOUS
<1>2. \A k \in 1 .. n : b[k] \in S
  OBVIOUS
<1> HIDE DEF S
<1>3. a \in [1 .. m -> S] /\ b \in [1 .. n -> S]
  BY <1>1, <1>2
<1>4. a \in Seq(S) /\ b \in Seq(S) /\ Len(a) = m /\ Len(b) = n
  BY <1>3, SMTT(20)
<1>5. a \o b \in Seq(S) /\ Len(a \o b) = m + n
  BY <1>4, SMTT(20)
<1>6. \A i \in 1 .. m + n : (a \o b)[i] = IF i <= m THEN a[i] ELSE b[i - m]
  BY <1>4, SMTT(20)
<1>7. a \o b \in [1 .. m + n -> S]
  BY <1>5, OfSeq
<1> QED
  BY <1>6, <1>7, SMTT(20)

(* Writes of one list after those of another.                              *)
LEMMA ApplyConcat ==
  ASSUME NEW d, NEW a, NEW b, WriteList(a), WriteList(b)
  PROVE  WriteList(a \o b) /\ Apply(d, a \o b) = Apply(Apply(d, a), b)
<1>1. PICK m \in Nat : /\ a = [k \in 1 .. m |-> a[k]]
                       /\ \A k \in 1 .. m : a[k].sector \in Sectors
                       /\ \A s \in Sectors :
                            Untouched(a, m, s) \/ \E k : IsLast(a, m, s, k)
  BY DEF WriteList, IsList
<1>2. PICK n \in Nat : /\ b = [k \in 1 .. n |-> b[k]]
                       /\ \A k \in 1 .. n : b[k].sector \in Sectors
                       /\ \A s \in Sectors :
                            Untouched(b, n, s) \/ \E k : IsLast(b, n, s, k)
  BY DEF WriteList, IsList
<1> DEFINE w == a \o b
           e == Apply(d, a)
<1>3. w = [k \in 1 .. m + n |-> IF k <= m THEN a[k] ELSE b[k - m]]
  BY <1>1, <1>2, ConcatLemma, SMTT(20)
<1> HIDE DEF w
<1>4. ASSUME NEW k \in 1 .. m PROVE k \in 1 .. m + n /\ w[k] = a[k]
  <2>1. k \in 1 .. m + n /\ k <= m
    BY SMTT(20)
  <2> QED
    BY <1>3, <2>1
<1>5. ASSUME NEW k \in 1 .. n PROVE m + k \in 1 .. m + n /\ w[m + k] = b[k]
  <2>1. m + k \in 1 .. m + n /\ ~ (m + k <= m) /\ (m + k) - m = k
    BY SMTT(20)
  <2>2. w[m + k] = b[(m + k) - m]
    BY <1>3, <2>1
  <2> QED
    BY <2>1, <2>2
<1>6. ASSUME NEW k \in 1 .. m + n
      PROVE  \/ k \in 1 .. m
             \/ \E j \in 1 .. n : k = m + j
  <2>1. CASE k <= m
    BY <2>1, SMTT(20)
  <2>2. CASE ~ (k <= m)
    <3>1. k - m \in 1 .. n /\ k = m + (k - m)
      BY <2>2, SMTT(20)
    <3> QED
      BY <3>1
  <2> QED
    BY <2>1, <2>2
<1>7. w = [k \in 1 .. m + n |-> w[k]] /\ m + n \in Nat
  BY <1>3, SMTT(20)
<1>8. \A k \in 1 .. m + n : w[k].sector \in Sectors
  BY <1>1, <1>2, <1>4, <1>5, <1>6
<1>9. IsList(a, m) /\ IsList(b, n) /\ IsList(w, m + n)
  BY <1>1, <1>2, <1>7 DEF IsList
<1> HIDE DEF e
<1>10. ASSUME NEW s \in Sectors
       PROVE  /\ Untouched(w, m + n, s) \/ \E k : IsLast(w, m + n, s, k)
              /\ Apply(d, w)[s] = Apply(e, b)[s]
  <2>1. CASE ~ Untouched(b, n, s)
    <3>1. PICK j : IsLast(b, n, s, j)
      BY <1>2, <1>10, <2>1
    <3>2. Apply(e, b)[s] = b[j].data
      BY <3>1, ApplyLast, SMTT(20)
    <3>3. j \in 1 .. n /\ b[j].sector = s
      BY <3>1 DEF IsLast
    <3>4. m + j \in 1 .. m + n /\ w[m + j] = b[j]
      BY <1>5, <3>3
    <3>5. ASSUME NEW k \in 1 .. m + n, w[k].sector = s PROVE k <= m + j
      <4>1. CASE k \in 1 .. m
        BY <3>3, <4>1, SMTT(20)
      <4>2. ASSUME NEW i \in 1 .. n, k = m + i PROVE k <= m + j
        <5>1. i <= j
          BY <1>5, <3>1, <3>5, <4>2 DEF IsLast
        <5> QED
          BY <3>3, <4>2, <5>1, SMTT(20)
      <4> QED
        BY <1>6, <4>1, <4>2
    <3>6. IsLast(w, m + n, s, m + j)
      BY <1>9, <3>3, <3>4, <3>5 DEF IsLast
    <3>7. Apply(d, w)[s] = w[m + j].data
      BY <3>6, ApplyLast, SMTT(20)
    <3> QED
      BY <3>2, <3>4, <3>6, <3>7
  <2>2. CASE Untouched(b, n, s)
    <3>1. Apply(e, b)[s] = e[s]
      BY <2>2, ApplyOther
    <3>2. CASE ~ Untouched(a, m, s)
      <4>1. PICK j : IsLast(a, m, s, j)
        BY <1>1, <1>10, <3>2
      <4>2. Apply(d, a)[s] = a[j].data
        BY <4>1, ApplyLast, SMTT(20)
      <4>3. j \in 1 .. m /\ a[j].sector = s
        BY <4>1 DEF IsLast
      <4>4. j \in 1 .. m + n /\ w[j] = a[j]
        BY <1>4, <4>3
      <4>5. ASSUME NEW k \in 1 .. m + n, w[k].sector = s PROVE k <= j
        <5>1. CASE k \in 1 .. m
          BY <1>4, <4>1, <4>5, <5>1 DEF IsLast
        <5>2. ASSUME NEW i \in 1 .. n, k = m + i PROVE FALSE
          BY <1>5, <2>2, <4>5, <5>2 DEF Untouched
        <5> QED
          BY <1>6, <5>1, <5>2
      <4>6. IsLast(w, m + n, s, j)
        BY <1>9, <4>3, <4>4, <4>5 DEF IsLast
      <4>7. Apply(d, w)[s] = w[j].data
        BY <4>6, ApplyLast, SMTT(20)
      <4> QED
        BY <3>1, <4>2, <4>4, <4>6, <4>7 DEF e
    <3>3. CASE Untouched(a, m, s)
      <4>1. Apply(d, a)[s] = d[s]
        BY <3>3, ApplyOther
      <4>2. ASSUME NEW k \in 1 .. m + n PROVE w[k].sector # s
        <5>1. CASE k \in 1 .. m
          BY <1>4, <3>3, <5>1 DEF Untouched
        <5>2. ASSUME NEW i \in 1 .. n, k = m + i PROVE w[k].sector # s
          BY <1>5, <2>2, <5>2 DEF Untouched
        <5> QED
          BY <1>6, <5>1, <5>2
      <4>3. Untouched(w, m + n, s)
        BY <1>9, <4>2 DEF Untouched
      <4>4. Apply(d, w)[s] = d[s]
        BY <4>3, ApplyOther
      <4> QED
        BY <3>1, <4>1, <4>3, <4>4 DEF e
    <3> QED
      BY <3>2, <3>3
  <2> QED
    BY <2>1, <2>2
<1>11. WriteList(w)
  BY <1>8, <1>9, <1>10 DEF WriteList
<1>12. /\ Apply(d, w) = [s \in Sectors |-> Apply(d, w)[s]]
       /\ Apply(e, b) = [s \in Sectors |-> Apply(e, b)[s]]
  BY DEF Apply
<1>13. Apply(d, w) = Apply(e, b)
  BY <1>10, <1>12
<1> QED
  BY <1>11, <1>13 DEF w, e

(* A list of one write.                                                    *)
LEMMA OneWrite ==
  ASSUME NEW s \in Sectors, NEW c, NEW w, w = WriteHeader(s, c)
  PROVE  /\ IsList(w, 1) /\ WriteList(w)
         /\ \A k \in 1 .. 1 : k = 1 /\ w[k].sector = s /\ w[k].data = c
<1>1. w = [k \in 1 .. 1 |-> w[k]] /\ w[1].sector = s /\ w[1].data = c
  BY SMTT(20) DEF WriteHeader
<1>2. IsList(w, 1) /\ 1 .. 1 = {1} /\ 1 <= 1
  BY <1>1, SMTT(20) DEF IsList
<1>3. \A t \in Sectors : Untouched(w, 1, t) \/ IsLast(w, 1, t, 1)
  BY <1>1, <1>2 DEF Untouched, IsLast
<1> QED
  BY <1>1, <1>2, <1>3 DEF WriteList

(* The sector of that write, ...                                           *)
LEMMA ApplyOneSame ==
  ASSUME NEW d, NEW s \in Sectors, NEW c
  PROVE  Apply(d, WriteHeader(s, c))[s] = c
<1> DEFINE w == WriteHeader(s, c)
<1>1. IsList(w, 1) /\ \A k \in 1 .. 1 : k = 1 /\ w[k].sector = s /\ w[k].data = c
  BY OneWrite, SMTT(20)
<1> HIDE DEF w
<1>2. 1 \in 1 .. 1 /\ 1 <= 1
  BY SMTT(20)
<1>3. IsLast(w, 1, s, 1)
  BY <1>1, <1>2 DEF IsLast
<1>4. Apply(d, w)[s] = w[1].data
  BY <1>3, ApplyLast, SMTT(20)
<1> QED
  BY <1>1, <1>2, <1>4 DEF w

(* ... and every other one.                                                *)
LEMMA ApplyOneOther ==
  ASSUME NEW d, NEW s \in Sectors, NEW c, NEW t \in Sectors, t # s
  PROVE  Apply(d, WriteHeader(s, c))[t] = d[t]
<1> DEFINE w == WriteHeader(s, c)
<1>1. IsList(w, 1) /\ \A k \in 1 .. 1 : k = 1 /\ w[k].sector = s /\ w[k].data = c
  BY OneWrite, SMTT(20)
<1> HIDE DEF w
<1>2. Untouched(w, 1, t)
  BY <1>1 DEF Untouched
<1> QED
  BY <1>2, ApplyOther DEF w

(* The sectors of the map and the directory.                               *)
LEMMA SystemSectors ==
  /\ 0 \in Sectors /\ 1 \in Sectors /\ 2 \in Sectors
  /\ 0 \in System /\ 1 \in System /\ 2 \in System
  /\ \A k \in 1 .. DirSectors :
       2 + k \in Sectors /\ 2 + k \in System /\ 2 + k \notin {0, 1, 2}
  /\ \A s \in System : \/ s \in {0, 1, 2}
                       \/ \E k \in 1 .. DirSectors : s = 2 + k
  /\ \A j, k \in 1 .. DirSectors : 2 + j = 2 + k => j = k
<1>1. /\ 0 \in System /\ 1 \in System /\ 2 \in System
      /\ \A k \in 1 .. DirSectors : 2 + k \in System /\ 2 + k \notin {0, 1, 2}
  BY Layout, SMTT(20)
<1>2. ASSUME NEW s \in System
      PROVE  \/ s \in {0, 1, 2}
             \/ \E k \in 1 .. DirSectors : s = 2 + k
  <2>1. s \in 0 .. 2 + DirSectors /\ DirSectors \in Nat
    BY Layout
  <2>2. CASE s <= 2
    BY <2>1, <2>2, SMTT(20)
  <2>3. CASE ~ (s <= 2)
    <3>1. s - 2 \in 1 .. DirSectors /\ s = 2 + (s - 2)
      BY <2>1, <2>3, SMTT(20)
    <3> QED
      BY <3>1
  <2> QED
    BY <2>2, <2>3
<1>3. \A j, k \in 1 .. DirSectors : 2 + j = 2 + k => j = k
  BY Layout, SMTT(20)
<1> QED
  BY <1>1, <1>2, <1>3, Layout

(* PersistentBitmap::WriteBack.                                            *)
LEMMA ApplyMap ==
  ASSUME NEW d, NEW map
  PROVE  /\ WriteList(WriteMap(map))
         /\ \A t \in Sectors :
              Apply(d, WriteMap(map))[t] = IF t = 2 THEN Map(map) ELSE d[t]
<1> DEFINE c == Map(map)
           s == 2
<1>1. WriteMap(map) = WriteHeader(s, c)
  BY Layout DEF WriteMap, WriteHeader
<1>2. s \in Sectors
  BY SystemSectors
<1> HIDE DEF c, s
<1>3. WriteList(WriteHeader(s, c)) /\ Apply(d, WriteHeader(s, c))[s] = c
  BY <1>2, OneWrite, ApplyOneSame
<1>4. ASSUME NEW t \in Sectors, t # s PROVE Apply(d, WriteHeader(s, c))[t] = d[t]
  BY <1>2, <1>4, ApplyOneOther, SMTT(20)
<1> QED
  BY <1>1, <1>3, <1>4 DEF c, s

(* Directory::WriteBack.                                                   *)
LEMMA ApplyDirectory ==
  ASSUME NEW d, NEW table
  PROVE  /\ WriteList(WriteDirectory(table))
         /\ \A k \in 1 .. DirSectors :
              Apply(d, WriteDirectory(table))[2 + k] = Piece(Slice(table, k - 1))
         /\ \A t \in Sectors : (\A k \in 1 .. DirSectors : t # 2 + k) =>
              Apply(d, WriteDirectory(table))[t] = d[t]
<1> DEFINE w == WriteDirectory(table)
           n == DirSectors
<1>1. ASSUME NEW k \in 1 .. n
      PROVE  w[k].sector = 2 + k /\ w[k].data = Piece(Slice(table, k - 1))
  <2>1. w[k] = [sector |-> dirHdr.dataSectors[k], data |-> Piece(Slice(table, k - 1))]
    BY DEF WriteDirectory
  <2>2. dirHdr.dataSectors[k] = 2 + k
    BY Layout
  <2> HIDE DEF w
  <2> QED
    BY <2>1, <2>2, SMTT(20)
<1>2. IsList(w, n)
  BY Layout DEF IsList, WriteDirectory
<1> HIDE DEF w
<1>3. ASSUME NEW k \in 1 .. n
      PROVE  Apply(d, w)[2 + k] = Piece(Slice(table, k - 1)) /\ IsLast(w, n, 2 + k, k)
  <2>1. w[k].sector = 2 + k
    BY <1>1
  <2>2. ASSUME NEW j \in 1 .. n, w[j].sector = 2 + k PROVE j <= k
    <3>1. j = k
      BY <1>1, <2>2, SystemSectors
    <3> QED
      BY <3>1, SMTT(20)
  <2>3. IsLast(w, n, 2 + k, k)
    BY <1>2, <2>1, <2>2 DEF IsLast
  <2>4. 2 + k \in Sectors
    BY SystemSectors
  <2>5. Apply(d, w)[2 + k] = w[k].data
    BY <2>3, <2>4, ApplyLast, SMTT(20)
  <2> QED
    BY <1>1, <2>3, <2>5
<1>4. ASSUME NEW t \in Sectors, \A k \in 1 .. n : t # 2 + k
      PROVE  Apply(d, w)[t] = d[t] /\ Untouched(w, n, t)
  <2>1. Untouched(w, n, t)
    BY <1>1, <1>2, <1>4 DEF Untouched
  <2> QED
    BY <2>1, ApplyOther
<1>5. WriteList(w)
  <2>1. \A k \in 1 .. n : w[k].sector \in Sectors
    BY <1>1, SystemSectors, SMTT(20)
  <2> QED
    BY <1>2, <1>3, <1>4, <2>1 DEF WriteList
<1> QED
  BY <1>3, <1>4, <1>5 DEF w

(* The writes of FileSystem::Create, ...                                   *)
LEMMA CreateWritten ==
  ASSUME NEW d, NEW s \in Sectors \ System, NEW hdr, NEW table, NEW map
  PROVE  /\ WriteList(CreateWrites(s, hdr, table, map))
         /\ CreateWrote(d, Apply(d, CreateWrites(s, hdr, table, map)), s, hdr, table, map)
<1> DEFINE w == CreateWrites(s, hdr, table, map)
           a == WriteHeader(s, hdr)
           b == WriteDirectory(table)
           c == WriteMap(map)
           d1 == Apply(d, a)
           d2 == Apply(d1, b)
           e == Apply(d2, c)
<1> HIDE DEF w, a, b, c, d1, d2, e
<1>1. WriteList(a) /\ \A t \in Sectors : d1[t] = IF t = s THEN hdr ELSE d[t]
  <2>1. s \in Sectors
    OBVIOUS
  <2>2. WriteList(a) /\ d1[s] = hdr
    BY <2>1, OneWrite, ApplyOneSame DEF a, d1
  <2>3. ASSUME NEW t \in Sectors, t # s PROVE d1[t] = d[t]
    BY <2>1, <2>3, ApplyOneOther, SMTT(20) DEF a, d1
  <2> QED
    BY <2>2, <2>3
<1>2. WriteList(c) /\ \A t \in Sectors : e[t] = IF t = 2 THEN Map(map) ELSE d2[t]
  BY ApplyMap DEF c, e
<1>3. /\ WriteList(b)
      /\ \A k \in 1 .. DirSectors : d2[2 + k] = Piece(Slice(table, k - 1))
      /\ \A t \in Sectors : (\A k \in 1 .. DirSectors : t # 2 + k) => d2[t] = d1[t]
  BY ApplyDirectory DEF b, d2
<1>4. WriteList(a \o b) /\ Apply(d, a \o b) = d2
  BY <1>1, <1>3, ApplyConcat, SMTT(20) DEF d1, d2
<1>5. WriteList(w) /\ Apply(d, w) = e
  <2>1. w = (a \o b) \o c
    BY DEF w, a, b, c, CreateWrites
  <2>2. WriteList((a \o b) \o c) /\ Apply(d, (a \o b) \o c) = Apply(Apply(d, a \o b), c)
    BY <1>2, <1>4, ApplyConcat, SMTT(20)
  <2> QED
    BY <1>4, <2>1, <2>2 DEF e
<1>6. e[s] = hdr /\ e[2] = Map(map)
  <2>1. s # 2 /\ \A k \in 1 .. DirSectors : s # 2 + k
    BY SystemSectors
  <2> QED
    BY <1>1, <1>2, <1>3, <2>1, SystemSectors
<1>7. \A k \in 1 .. DirSectors : e[2 + k] = Piece(Slice(table, k - 1))
  BY <1>2, <1>3, SystemSectors
<1>8. \A t \in Sectors : t \notin System \ {0, 1} /\ t # s => e[t] = d[t]
  <2> SUFFICES ASSUME NEW t \in Sectors, t \notin System \ {0, 1}, t # s
               PROVE  e[t] = d[t]
    OBVIOUS
  <2>1. t # 2 /\ \A k \in 1 .. DirSectors : t # 2 + k
    BY SystemSectors, SMTT(20)
  <2> QED
    BY <1>1, <1>2, <1>3, <2>1
<1> QED
  BY <1>5, <1>6, <1>7, <1>8 DEF w, HasDirectory, CreateWrote

(* ... of FileSystem::Remove, ...                                          *)
LEMMA RemoveWritten ==
  ASSUME NEW d, NEW table, NEW map
  PROVE  /\ WriteList(RemoveWrites(table, map))
         /\ RemoveWrote(d, Apply(d, RemoveWrites(table, map)), table, map)
<1> DEFINE w == RemoveWrites(table, map)
           b == WriteDirectory(table)
           c == WriteMap(map)
           d1 == Apply(d, c)
           e == Apply(d1, b)
<1> HIDE DEF w, b, c, d1, e
<1>1. WriteList(c) /\ \A t \in Sectors : d1[t] = IF t = 2 THEN Map(map) ELSE d[t]
  BY ApplyMap DEF c, d1
<1>2. /\ WriteList(b)
      /\ \A k \in 1 .. DirSectors : e[2 + k] = Piece(Slice(table, k - 1))
      /\ \A t \in Sectors : (\A k \in 1 .. DirSectors : t # 2 + k) => e[t] = d1[t]
  BY ApplyDirectory DEF b, e
<1>3. WriteList(w) /\ Apply(d, w) = e
  BY <1>1, <1>2, ApplyConcat, SMTT(20) DEF w, b, c, d1, e, RemoveWrites
<1>4. e[2] = Map(map)
  BY <1>1, <1>2, SystemSectors
<1>5. \A t \in Sectors : t \notin System \ {0, 1} => e[t] = d[t]
  <2> SUFFICES ASSUME NEW t \in Sectors, t \notin System \ {0, 1}
               PROVE  e[t] = d[t]
    OBVIOUS
  <2>1. t # 2 /\ \A k \in 1 .. DirSectors : t # 2 + k
    BY SystemSectors, SMTT(20)
  <2> QED
    BY <1>1, <1>2, <2>1
<1> QED
  BY <1>2, <1>3, <1>4, <1>5 DEF w, HasDirectory, RemoveWrote

(* ... and of formatting, each list applied to a whole disk.               *)
LEMMA FormatWritten ==
  ASSUME NEW d, NEW junk
  PROVE  /\ WriteList(FormatWrites(junk))
         /\ FormatWrote(d, Apply(d, FormatWrites(junk)), junk)
<1> DEFINE w == FormatWrites(junk)
           p == WriteHeader(0, mapHdr)
           q == WriteHeader(1, dirHdr)
           b == WriteDirectory(EmptyTable(junk))
           c == WriteMap(System)
           d1 == Apply(d, p)
           d2 == Apply(d1, q)
           d3 == Apply(d2, c)
           e == Apply(d3, b)
<1> HIDE DEF w, p, q, b, c, d1, d2, d3, e
<1>1. WriteList(p) /\ \A t \in Sectors : d1[t] = IF t = 0 THEN mapHdr ELSE d[t]
  <2> DEFINE s == 0
             h == mapHdr
  <2>1. s \in Sectors
    BY SystemSectors
  <2> HIDE DEF s, h
  <2>2. WriteList(WriteHeader(s, h)) /\ Apply(d, WriteHeader(s, h))[s] = h
    BY <2>1, OneWrite, ApplyOneSame
  <2>3. ASSUME NEW t \in Sectors, t # s PROVE Apply(d, WriteHeader(s, h))[t] = d[t]
    BY <2>1, <2>3, ApplyOneOther, SMTT(20)
  <2> QED
    BY <2>2, <2>3 DEF s, h, p, d1
<1>2. WriteList(q) /\ \A t \in Sectors : d2[t] = IF t = 1 THEN dirHdr ELSE d1[t]
  <2> DEFINE s == 1
             h == dirHdr
  <2>1. s \in Sectors
    BY SystemSectors
  <2> HIDE DEF s, h
  <2>2. WriteList(WriteHeader(s, h)) /\ Apply(d1, WriteHeader(s, h))[s] = h
    BY <2>1, OneWrite, ApplyOneSame
  <2>3. ASSUME NEW t \in Sectors, t # s PROVE Apply(d1, WriteHeader(s, h))[t] = d1[t]
    BY <2>1, <2>3, ApplyOneOther, SMTT(20)
  <2> QED
    BY <2>2, <2>3 DEF s, h, q, d2
<1>3. WriteList(c) /\ \A t \in Sectors : d3[t] = IF t = 2 THEN Map(System) ELSE d2[t]
  BY ApplyMap DEF c, d3
<1>4. /\ WriteList(b)
      /\ \A k \in 1 .. DirSectors : e[2 + k] = Piece(Slice(EmptyTable(junk), k - 1))
      /\ \A t \in Sectors : (\A k \in 1 .. DirSectors : t # 2 + k) => e[t] = d3[t]
  BY ApplyDirectory DEF b, e
<1>5. WriteList(p \o q) /\ Apply(d, p \o q) = d2
  BY <1>1, <1>2, ApplyConcat, SMTT(20) DEF d1, d2
<1>6. WriteList((p \o q) \o c) /\ Apply(d, (p \o q) \o c) = d3
  <2>1. /\ WriteList((p \o q) \o c)
        /\ Apply(d, (p \o q) \o c) = Apply(Apply(d, p \o q), c)
    BY <1>3, <1>5, ApplyConcat, SMTT(20)
  <2> QED
    BY <1>5, <2>1 DEF d3
<1>7. WriteList(w) /\ Apply(d, w) = e
  <2>1. w = ((p \o q) \o c) \o b
    BY DEF w, FormatWrites, p, q, b, c
  <2>2. /\ WriteList(((p \o q) \o c) \o b)
        /\ Apply(d, ((p \o q) \o c) \o b) = Apply(Apply(d, (p \o q) \o c), b)
    BY <1>4, <1>6, ApplyConcat, SMTT(20)
  <2> QED
    BY <1>6, <2>1, <2>2 DEF e
<1>8. e[0] = mapHdr /\ e[1] = dirHdr /\ e[2] = Map(System)
  <2>1. /\ e[0] = d3[0] /\ e[1] = d3[1] /\ e[2] = d3[2]
    BY <1>4, SystemSectors
  <2>2. 0 # 1 /\ 0 # 2 /\ 1 # 2
    BY SMTT(20)
  <2>3. d3[0] = d1[0] /\ d3[1] = dirHdr /\ d3[2] = Map(System) /\ d1[0] = mapHdr
    BY <1>1, <1>2, <1>3, <2>2, SystemSectors
  <2> QED
    BY <2>1, <2>3
<1>9. \A t \in Sectors \ System : e[t] = d[t]
  <2> SUFFICES ASSUME NEW t \in Sectors \ System PROVE e[t] = d[t]
    OBVIOUS
  <2>1. t # 0 /\ t # 1 /\ t # 2 /\ \A k \in 1 .. DirSectors : t # 2 + k
    BY SystemSectors
  <2> QED
    BY <1>1, <1>2, <1>3, <1>4, <2>1
<1> QED
  BY <1>4, <1>7, <1>8, <1>9 DEF w, HasDirectory, FormatWrote

-----------------------------------------------------------------------------
(* The directory and the map of a disk have their types.                   *)
LEMMA DirectoryTyped ==
  ASSUME NEW d, TypedDisk(d)
  PROVE  /\ \A i \in Entries : /\ directory(d)[i].inUse \in BOOLEAN
                               /\ directory(d)[i].sector \in Sectors
         /\ freeMap(d) \subseteq Sectors
<1>1. ASSUME NEW at \in Nat, at < 3 * NumDirEntries
      PROVE  WordTyped(at, Word(d, at))
  <2>1. PICK k \in 1 .. DirSectors, w \in 0 .. SectorWords - 1 :
          /\ at \div SectorWords + 1 = k /\ at % SectorWords = w
          /\ (k - 1) * SectorWords + w = at
          /\ \A e : Word(e, at) = e[2 + k].words[w]
    BY <1>1, WordPlace
  <2>2. 2 + k \in Sectors
    BY SystemSectors
  <2>3. TypedSector(2 + k, d[2 + k])
    BY <2>2 DEF TypedDisk
  <2>4. WordTyped((k - 1) * SectorWords + w, d[2 + k].words[w])
    BY <2>3 DEF TypedSector
  <2> QED
    BY <2>1, <2>4
<1>2. ASSUME NEW i \in Entries
      PROVE  Word(d, 3 * i) \in BOOLEAN /\ Word(d, 3 * i + 1) \in Sectors
  <2>1. Word(d, 3 * i) \in BOOLEAN
    BY <1>1, EntryWords DEF WordTyped
  <2>2. Word(d, 3 * i + 1) \in Sectors
    BY <1>1, EntryWords DEF WordTyped
  <2> QED
    BY <2>1, <2>2, SMTT(20)
<1>3. freeMap(d) \subseteq Sectors
  <2>1. TypedSector(2, d[2])
    BY SystemSectors DEF TypedDisk
  <2> QED
    BY <2>1, Layout DEF TypedSector, freeMap
<1> QED
  BY <1>2, <1>3, DirectoryWords

(* What is written has the type of its sector: the map, ...                *)
LEMMA MapTyped ==
  ASSUME NEW map, map \subseteq Sectors
  PROVE  TypedSector(2, Map(map))
<1>1. Map(map).kind # "header" /\ Map(map).map = map
  BY SMTT(20) DEF Map
<1> HIDE DEF Map
<1> QED
  BY <1>1, SystemSectors DEF TypedSector

(* ... the directory, ...                                                  *)
LEMMA PieceTyped ==
  ASSUME NEW table, NEW k \in 1 .. DirSectors,
         \A i \in Entries : table[i].inUse \in BOOLEAN /\ table[i].sector \in Sectors
  PROVE  TypedSector(2 + k, Piece(Slice(table, k - 1)))
<1> DEFINE c == Piece(Slice(table, k - 1))
<1>1. c.kind # "header" /\ c.words = Slice(table, k - 1)
  BY SMTT(20) DEF Piece
<1> HIDE DEF c
<1>2. ASSUME NEW w \in 0 .. SectorWords - 1
      PROVE  WordTyped((k - 1) * SectorWords + w, c.words[w])
  <2> DEFINE at == (k - 1) * SectorWords + w
  <2>1. at \in Nat
    BY Layout, Sizes, SMTT(20)
  <2>2. Slice(table, k - 1)[w] =
          IF at >= 3 * NumDirEntries THEN 0
          ELSE IF at % 3 = 0 THEN table[at \div 3].inUse
          ELSE IF at % 3 = 1 THEN table[at \div 3].sector ELSE table[at \div 3].name
    BY DEF Slice
  <2> HIDE DEF at
  <2> SUFFICES ASSUME at < 3 * NumDirEntries
               PROVE  /\ at % 3 = 0 => c.words[w] \in BOOLEAN
                      /\ at % 3 = 1 => c.words[w] \in Sectors
    BY DEF WordTyped, at
  <2>3. at \div 3 \in Entries /\ ~ (at >= 3 * NumDirEntries)
    BY <2>1, Sizes, SMTT(20) DEF Entries
  <2>4. at % 3 = 1 => at % 3 # 0
    BY SMTT(20)
  <2> QED
    BY <1>1, <2>2, <2>3, <2>4
<1> QED
  BY <1>1, <1>2, SystemSectors DEF TypedSector, c

(* ... a header, and the bytes of a file.                                  *)
LEMMA HeaderTyped ==
  ASSUME NEW s, s \notin System \ {0, 1}, NEW hdr, Whole(hdr)
  PROVE  TypedSector(s, hdr)
<1>1. s # 2 /\ \A k \in 1 .. DirSectors : s # 2 + k
  BY SystemSectors, SMTT(20)
<1> QED
  BY <1>1 DEF TypedSector

(* A sector of data is a typed sector.                                     *)
LEMMA BlockTyped ==
  ASSUME NEW s, s \notin System, NEW bytes
  PROVE  TypedSector(s, Block(bytes))
<1>1. Block(bytes).kind # "header"
  BY SMTT(20) DEF Block
<1>2. s # 2 /\ \A k \in 1 .. DirSectors : s # 2 + k
  BY SystemSectors
<1> QED
  BY <1>1, <1>2 DEF TypedSector

-----------------------------------------------------------------------------
(* The data sectors of a header, as a set and as a sequence.               *)
LEMMA WholeSectors ==
  ASSUME NEW hdr, Whole(hdr)
  PROVE  /\ SectorsOf(hdr) \subseteq Sectors
         /\ Len(hdr.dataSectors) \in Nat
         /\ DOMAIN hdr.dataSectors = 1 .. Len(hdr.dataSectors)
<1> DEFINE ds == hdr.dataSectors
<1>1. ds \in Seq(Sectors)
  BY DEF Whole
<1> HIDE DEF ds
<1>2. Len(ds) \in Nat /\ DOMAIN ds = 1 .. Len(ds) /\ ds \in [1 .. Len(ds) -> Sectors]
  BY <1>1, OfSeq
<1>3. Range(ds) \subseteq Sectors
  BY <1>2 DEF Range
<1> QED
  BY <1>2, <1>3 DEF SectorsOf, ds

(* A typed disk whose live entries have headers.                           *)
LEMMA LiveWhole ==
  ASSUME NEW d, TypedDisk(d), NEW i \in LiveIn(d), HdrOf(d, i).kind = "header"
  PROVE  i \in Entries /\ directory(d)[i].sector \in Sectors /\ Whole(HdrOf(d, i))
<1>1. i \in Entries
  BY DEF LiveIn
<1>2. directory(d)[i].sector \in Sectors
  BY <1>1, DirectoryTyped
<1>3. TypedSector(directory(d)[i].sector, HdrOf(d, i))
  BY <1>2 DEF TypedDisk, HdrOf, header
<1> QED
  BY <1>1, <1>2, <1>3 DEF TypedSector

-----------------------------------------------------------------------------
(* A file that is the same on two disks uses the same sectors.             *)
LEMMA SameUses ==
  ASSUME NEW d, NEW e, NEW i, SameFile(d, e, i)
  PROVE  Uses(e, i) = Uses(d, i)
BY DEF SameFile, Uses

(* A sound disk stays sound with the same files, ...                       *)
LEMMA SoundSame ==
  ASSUME NEW d, NEW e, Sound(d), LiveIn(e) = LiveIn(d), freeMap(e) = freeMap(d),
         \A i \in LiveIn(d) : SameFile(d, e, i)
  PROVE  Sound(e)
<1>1. \A i \in LiveIn(d) :
        /\ Uses(e, i) = Uses(d, i)
        /\ directory(e)[i].sector = directory(d)[i].sector
        /\ directory(e)[i].name = directory(d)[i].name
        /\ HdrOf(e, i) = HdrOf(d, i)
  BY SameUses DEF SameFile
<1>2. UNION {Uses(e, i) : i \in LiveIn(e)} = UNION {Uses(d, i) : i \in LiveIn(d)}
  BY <1>1
<1> QED
  BY <1>1, <1>2 DEF Sound

(* ... with one file more, ...                                             *)
LEMMA SoundGrow ==
  ASSUME NEW d, NEW e, Sound(d), NEW j, Grown(d, e, j), NewFile(d, e, j)
  PROVE  Sound(e)
<1> DEFINE L == LiveIn(d)
           M == LiveIn(e)
           Same(i) == /\ Uses(e, i) = Uses(d, i)
                      /\ directory(e)[i].sector = directory(d)[i].sector
                      /\ directory(e)[i].name = directory(d)[i].name
                      /\ HdrOf(e, i) = HdrOf(d, i)
           Good(i) == /\ HdrOf(e, i).kind = "header"
                      /\ directory(e)[i].sector \notin SectorsOf(HdrOf(e, i))
                      /\ Uses(e, i) \cap System = {}
           Apart(i, k) == /\ Uses(e, i) \cap Uses(e, k) = {}
                          /\ directory(e)[i].name # directory(e)[k].name
           all == UNION {Uses(d, i) : i \in L}
<1>1. \A i \in L : Same(i)
  BY SameUses DEF SameFile, Grown
<1>2. freeMap(d) = System \cup all
  BY DEF Sound
<1>3. (\A i \in L : Uses(d, i) \subseteq freeMap(d)) /\ System \subseteq freeMap(d)
  BY <1>2
<1>4. (\A i \in M : i \in L \/ i = j) /\ j \in M /\ \A i \in L : i \in M
  BY DEF Grown
<1>5. freeMap(e) = System \cup UNION {Uses(e, i) : i \in M}
  <2>1. freeMap(e) = (System \cup all) \cup Uses(e, j)
    BY <1>2 DEF Grown
  <2>2. UNION {Uses(e, i) : i \in M} = all \cup Uses(e, j)
    <3> HIDE DEF L, M
    <3>1. ASSUME NEW i \in M PROVE Uses(e, i) \subseteq all \cup Uses(e, j)
      BY <1>1, <1>4, <3>1
    <3>2. ASSUME NEW i \in L PROVE Uses(d, i) \subseteq UNION {Uses(e, k) : k \in M}
      BY <1>1, <1>4, <3>2
    <3>3. Uses(e, j) \subseteq UNION {Uses(e, k) : k \in M}
      BY <1>4
    <3> HIDE DEF Same, Good, Apart
    <3>4. UNION {Uses(e, i) : i \in M} \subseteq all \cup Uses(e, j)
      BY <3>1
    <3>5. all \subseteq UNION {Uses(e, i) : i \in M}
      BY <3>2
    <3> QED
      BY <3>3, <3>4, <3>5
  <2> HIDE DEF all
  <2> QED
    BY <2>1, <2>2, SMTT(20)
<1>6. ASSUME NEW i \in M PROVE Good(i)
  <2>1. CASE i \in L
    BY <1>1, <2>1 DEF Sound
  <2>2. CASE i = j
    BY <1>3, <2>2 DEF NewFile
  <2> QED
    BY <1>4, <1>6, <2>1, <2>2
<1>7. ASSUME NEW i \in M, NEW k \in M, i # k PROVE Apart(i, k)
  <2>1. CASE i \in L /\ k \in L
    BY <1>1, <1>7, <2>1 DEF Sound
  <2>2. CASE i \in L /\ k = j
    BY <1>1, <1>3, <2>2 DEF NewFile
  <2>3. CASE i = j /\ k \in L
    BY <1>1, <1>3, <2>3 DEF NewFile
  <2> HIDE DEF Apart
  <2>4. (i \in L \/ i = j) /\ (k \in L \/ k = j)
    BY <1>4
  <2> QED
    BY <1>7, <2>1, <2>2, <2>3, <2>4
<1> QED
  BY <1>5, <1>6, <1>7 DEF Sound

(* ... and with one file less.                                             *)
LEMMA SoundShrink ==
  ASSUME NEW d, NEW e, Sound(d), NEW j \in LiveIn(d),
         LiveIn(e) = LiveIn(d) \ {j},
         \A i \in LiveIn(e) : SameFile(d, e, i),
         freeMap(e) = freeMap(d) \ Uses(d, j)
  PROVE  Sound(e)
<1>1. \A i \in LiveIn(e) :
        /\ Uses(e, i) = Uses(d, i)
        /\ directory(e)[i].sector = directory(d)[i].sector
        /\ directory(e)[i].name = directory(d)[i].name
        /\ HdrOf(e, i) = HdrOf(d, i)
  BY SameUses DEF SameFile
<1>2. freeMap(d) = System \cup UNION {Uses(d, i) : i \in LiveIn(d)}
  BY DEF Sound
<1>3. \A i \in LiveIn(e) : i \in LiveIn(d) /\ Uses(d, i) \cap Uses(d, j) = {}
  BY DEF Sound
<1>4. System \cap Uses(d, j) = {}
  BY DEF Sound
<1>5. freeMap(e) = System \cup UNION {Uses(e, i) : i \in LiveIn(e)}
  <2>1. ASSUME NEW x \in freeMap(e)
        PROVE  x \in System \cup UNION {Uses(e, i) : i \in LiveIn(e)}
    <3>1. x \in freeMap(d) /\ x \notin Uses(d, j)
      BY <2>1
    <3>2. CASE x \in System
      BY <3>2
    <3>3. CASE x \notin System
      <4>1. PICK i \in LiveIn(d) : x \in Uses(d, i)
        BY <1>2, <3>1, <3>3
      <4>2. i \in LiveIn(e) /\ x \in Uses(e, i)
        BY <1>1, <3>1, <4>1
      <4> QED
        BY <4>2
    <3> QED
      BY <3>2, <3>3
  <2>2. ASSUME NEW x \in System PROVE x \in freeMap(e)
    BY <1>2, <1>4, <2>2
  <2>3. ASSUME NEW x \in UNION {Uses(e, i) : i \in LiveIn(e)} PROVE x \in freeMap(e)
    <3>1. PICK i \in LiveIn(e) : x \in Uses(e, i)
      BY <2>3
    <3>2. x \in Uses(d, i) /\ i \in LiveIn(d) /\ x \notin Uses(d, j)
      BY <1>1, <1>3, <3>1
    <3> QED
      BY <1>2, <3>2
  <2> QED
    BY <2>1, <2>2, <2>3
<1>6. \A i \in LiveIn(e) :
        /\ HdrOf(e, i).kind = "header"
        /\ directory(e)[i].sector \notin SectorsOf(HdrOf(e, i))
        /\ Uses(e, i) \cap System = {}
  BY <1>1, <1>3 DEF Sound
<1>7. \A i, k \in LiveIn(e) : i # k =>
        /\ Uses(e, i) \cap Uses(e, k) = {}
        /\ directory(e)[i].name # directory(e)[k].name
  BY <1>1, <1>3 DEF Sound
<1> QED
  BY <1>5, <1>6, <1>7 DEF Sound

-----------------------------------------------------------------------------
(***************************************************************************)
(* What the operations do to the files.                                    *)
(***************************************************************************)
(* Directory::Add changes the first entry not in use and no other.         *)
LEMMA AddLemma ==
  ASSUME NEW d, NEW n, NEW s, Min(Unused(directory(d))) \in Entries
  PROVE  Added(d, Add(directory(d), n, s), Min(Unused(directory(d))), n, s)
<1> DEFINE r == [inUse |-> TRUE, sector |-> s, name |-> n]
           j == Min(Unused(directory(d)))
           table == Add(directory(d), n, s)
<1>1. r.inUse = TRUE /\ r.sector = s /\ r.name = n
  BY SMTT(20)
<1> HIDE DEF r
<1>2. table = [directory(d) EXCEPT ![j] = r]
  BY DEF r, Add
<1>3. DOMAIN directory(d) = Entries
  BY DEF directory
<1>4. table[j] = r /\ \A i \in Entries \ {j} : table[i] = directory(d)[i]
  BY <1>2, <1>3
<1> QED
  BY <1>1, <1>4 DEF Added

(* Whatever is not a sector of the system keeps its type.                  *)
LEMMA TypedApply ==
  ASSUME NEW d, NEW w, NEW e, e = Apply(d, w),
         \A s \in Sectors : TypedSector(s, e[s])
  PROVE  TypedDisk(e)
<1>1. e = [s \in Sectors |-> e[s]]
  BY DEF Apply
<1> QED
  BY <1>1 DEF TypedDisk

(* The sectors of a file are marked and are not the system's.              *)
LEMMA SoundUses ==
  ASSUME NEW d, Sound(d), NEW i \in LiveIn(d)
  PROVE  /\ directory(d)[i].sector \in Uses(d, i)
         /\ Uses(d, i) \cap System = {} /\ Uses(d, i) \subseteq freeMap(d)
<1>1. freeMap(d) = System \cup UNION {Uses(d, k) : k \in LiveIn(d)}
  BY DEF Sound
<1>2. Uses(d, i) \subseteq freeMap(d)
  BY <1>1
<1>3. directory(d)[i].sector \in Uses(d, i) /\ Uses(d, i) \cap System = {}
  BY DEF Uses, Sound
<1> QED
  BY <1>2, <1>3, SMTT(20)

(* A file made leaves the disk sound, ...                                  *)
LEMMA MadeSound ==
  ASSUME NEW d, NEW e, TypedDisk(d), Sound(d), NEW n, NEW size, NEW j, NEW s,
         Made(d, e, n, size, j, s), Fresh(d, n)
  PROVE  /\ Sound(e) /\ Grown(d, e, j) /\ HdrOf(e, j) = e[s]
<1>1. LiveIn(e) = LiveIn(d) \cup {j} /\ j \notin LiveIn(d)
  <2>1. \A i \in Entries \ {j} : directory(e)[i].inUse = directory(d)[i].inUse
    BY DEF Made, SameEntry
  <2>2. j \in Entries \ LiveIn(d) /\ directory(e)[j].inUse
    BY DEF Made
  <2> QED
    BY <2>1, <2>2 DEF LiveIn
<1>2. HdrOf(e, j) = e[s] /\ Uses(e, j) = {s} \cup SectorsOf(e[s])
  BY DEF Made, HdrOf, header, Uses
<1>3. ASSUME NEW i \in LiveIn(d) PROVE SameFile(d, e, i)
  <2>1. i \in Entries \ {j}
    BY <1>1 DEF LiveIn
  <2>2. SameEntry(d, e, i)
    BY <2>1 DEF Made
  <2> DEFINE t == directory(d)[i].sector
  <2>3. t \in Sectors
    BY <2>1, DirectoryTyped
  <2>4. t \in Uses(d, i) /\ Uses(d, i) \cap System = {} /\ Uses(d, i) \subseteq freeMap(d)
    BY SoundUses
  <2>5. t # s
    BY <2>4 DEF Made
  <2>6. e[t] = d[t]
    BY <2>3, <2>4, <2>5 DEF Made
  <2> QED
    BY <2>2, <2>6 DEF SameEntry, SameFile, HdrOf, header
<1>4. Grown(d, e, j)
  <2>1. freeMap(e) = freeMap(d) \cup Uses(e, j)
    BY <1>2 DEF Made
  <2> QED
    BY <1>1, <1>3, <2>1 DEF Grown
<1>5. NewFile(d, e, j)
  <2>1. HdrOf(e, j).kind = "header"
    BY <1>2 DEF Made
  <2>2. directory(e)[j].sector \notin SectorsOf(HdrOf(e, j))
    BY <1>2 DEF Made
  <2>3. Uses(e, j) \cap freeMap(d) = {}
    BY <1>2 DEF Made
  <2>4. directory(e)[j].name = n
    BY DEF Made
  <2> QED
    BY <2>1, <2>2, <2>3, <2>4 DEF NewFile, Fresh
<1> QED
  BY <1>2, <1>4, <1>5, SoundGrow

(* ... and so does a file removed.                                         *)
LEMMA RemovedSound ==
  ASSUME NEW d, NEW e, TypedDisk(d), Sound(d), NEW j, Removed(d, e, j)
  PROVE  /\ Sound(e) /\ LiveIn(e) = LiveIn(d) \ {j}
         /\ \A i \in LiveIn(e) : SameFile(d, e, i)
<1>1. LiveIn(e) = LiveIn(d) \ {j} /\ j \in LiveIn(d)
  <2>1. \A i \in Entries \ {j} : directory(e)[i].inUse = directory(d)[i].inUse
    BY DEF Removed, SameEntry
  <2>2. j \in LiveIn(d) /\ directory(e)[j].inUse = FALSE
    BY DEF Removed
  <2> QED
    BY <2>1, <2>2 DEF LiveIn
<1>2. ASSUME NEW i \in LiveIn(e) PROVE SameFile(d, e, i)
  <2>1. i \in Entries \ {j} /\ i \in LiveIn(d)
    BY <1>1 DEF LiveIn
  <2>2. SameEntry(d, e, i)
    BY <2>1 DEF Removed
  <2> DEFINE t == directory(d)[i].sector
  <2>3. t \in Sectors
    BY <2>1, DirectoryTyped
  <2>4. t \notin System
    BY <2>1 DEF Uses, Sound
  <2>5. e[t] = d[t]
    BY <2>3, <2>4 DEF Removed
  <2> QED
    BY <2>2, <2>5 DEF SameEntry, SameFile, HdrOf, header
<1>3. freeMap(e) = freeMap(d) \ Uses(d, j)
  BY DEF Removed
<1>4. Sound(e)
  BY <1>1, <1>2, <1>3, SoundShrink
<1> QED
  BY <1>1, <1>2, <1>4

(* Directory::Remove changes the entry of the file and no other.           *)
LEMMA RemoveEntryLemma ==
  ASSUME NEW d, NEW n, NEW j \in Entries, j = Min(Found(directory(d), n))
  PROVE  /\ RemoveEntry(directory(d), n)[j].inUse = FALSE
         /\ RemoveEntry(directory(d), n)[j].sector = directory(d)[j].sector
         /\ RemoveEntry(directory(d), n)[j].name = directory(d)[j].name
         /\ \A i \in Entries \ {j} : RemoveEntry(directory(d), n)[i] = directory(d)[i]
<1> DEFINE table == RemoveEntry(directory(d), n)
           r == [directory(d)[j] EXCEPT !.inUse = FALSE]
<1>1. table = [directory(d) EXCEPT ![j] = r]
  BY DEF RemoveEntry
<1>2. DOMAIN directory(d) = Entries
  BY DEF directory
<1>3. directory(d)[j] = [inUse |-> Word(d, 3 * j), sector |-> Word(d, 3 * j + 1),
                         name |-> Word(d, 3 * j + 2)]
  BY DirectoryWords
<1>4. r.inUse = FALSE /\ r.sector = directory(d)[j].sector /\ r.name = directory(d)[j].name
  <2> DEFINE a == Word(d, 3 * j)
             b == Word(d, 3 * j + 1)
             c == Word(d, 3 * j + 2)
  <2> HIDE DEF a, b, c
  <2>1. directory(d)[j] = [inUse |-> a, sector |-> b, name |-> c]
    BY <1>3 DEF a, b, c
  <2> QED
    BY <2>1, SMTT(20)
<1> HIDE DEF table, r
<1>5. table[j] = r /\ \A i \in Entries \ {j} : table[i] = directory(d)[i]
  BY <1>1, <1>2
<1> QED
  BY <1>4, <1>5 DEF table

(* The headers of the system files.                                        *)
LEMMA SystemHeaders == Whole(mapHdr) /\ Whole(dirHdr)
<1>1. ASSUME NEW n \in Nat PROVE divRoundUp(n * SectorSize, SectorSize) = n
  <2>1. SectorSize - 1 \in 0 .. SectorSize - 1 /\ SectorSize \in Nat \ {0}
    BY Sizes, SMTT(20)
  <2>2. (SectorSize * n + (SectorSize - 1)) \div SectorSize = n
    BY <2>1, DivModUnique, SMTT(20)
  <2>3. n * SectorSize + SectorSize - 1 = SectorSize * n + (SectorSize - 1)
    BY <2>1, SMTT(20)
  <2> QED
    BY <2>2, <2>3, SMTT(20) DEF divRoundUp
<1>2. /\ mapHdr.numBytes = SectorSize /\ mapHdr.dataSectors = <<2>>
      /\ dirHdr.numBytes = DirSectors * SectorSize
      /\ dirHdr.dataSectors = [k \in 1 .. DirSectors |-> 2 + k]
  BY SMTT(20) DEF mapHdr, dirHdr, Header
<1>3. Whole(mapHdr)
  <2>1. divRoundUp(1 * SectorSize, SectorSize) = 1
    BY <1>1, SMTT(20)
  <2>2. 1 * SectorSize = SectorSize /\ SectorSize \in Nat
    BY Sizes, SMTT(20)
  <2>3. <<2>> \in Seq(Sectors) /\ Len(<<2>>) = 1 /\ IsInjective(<<2>>)
    BY SystemSectors, SMTT(20) DEF IsInjective
  <2>4. 1 <= NumDirect
    BY Sizes, SMTT(20)
  <2> QED
    BY <1>2, <2>1, <2>2, <2>3, <2>4 DEF Whole
<1>4. Whole(dirHdr)
  <2> DEFINE f == [k \in 1 .. DirSectors |-> 2 + k]
  <2>1. DirSectors \in Nat /\ DirSectors * SectorSize \in Nat
    BY Layout, Sizes, SMTT(20)
  <2>2. \A k \in 1 .. DirSectors : 2 + k \in Sectors
    BY SystemSectors
  <2>3. f \in [1 .. DirSectors -> Sectors]
    BY <2>2
  <2>4. f \in Seq(Sectors) /\ Len(f) = DirSectors
    BY <2>1, <2>3, SMTT(20)
  <2>5. IsInjective(f)
    BY SMTT(20) DEF IsInjective
  <2>6. DirSectors <= NumDirect
    BY FileSystemAssumption
  <2> QED
    BY <1>1, <1>2, <2>1, <2>4, <2>5, <2>6 DEF Whole
<1> QED
  BY <1>3, <1>4, SMTT(20)

(* Formatting leaves a disk without files, whatever was on it.             *)
LEMMA FormatFormats ==
  ASSUME NEW d, \A t \in Sectors \ System : TypedSector(t, d[t]), NEW junk,
         NEW e, e = Apply(d, FormatWrites(junk))
  PROVE  /\ WriteList(FormatWrites(junk))
         /\ TypedDisk(e) /\ Sound(e) /\ LiveIn(e) = {}
<1> DEFINE table == EmptyTable(junk)
<1>1. \A i \in Entries : table[i].inUse = FALSE /\ table[i].sector = 0
  BY SMTT(20) DEF EmptyTable
<1> HIDE DEF table
<1>2. WriteList(FormatWrites(junk)) /\ FormatWrote(d, e, junk)
  <2>1. /\ WriteList(FormatWrites(junk))
        /\ FormatWrote(d, Apply(d, FormatWrites(junk)), junk)
    BY FormatWritten
  <2> QED
    BY <2>1
<1>3. /\ e[0] = mapHdr /\ e[1] = dirHdr /\ e[2] = Map(System)
      /\ HasDirectory(e, table)
      /\ \A t \in Sectors \ System : e[t] = d[t]
  BY <1>2 DEF FormatWrote, table
<1>4. \A i \in Entries : directory(e)[i].inUse = table[i].inUse
  BY <1>3, DirectoryWritten, SMTT(20)
<1>5. LiveIn(e) = {}
  BY <1>1, <1>4 DEF LiveIn
<1>6. freeMap(e) = System
  <2>1. Map(System).map = System
    BY SMTT(20) DEF Map
  <2> QED
    BY <1>3, <2>1, Layout DEF freeMap
<1>7. Sound(e)
  BY <1>5, <1>6 DEF Sound
<1>8. TypedDisk(e)
  <2>1. ASSUME NEW t \in Sectors PROVE TypedSector(t, e[t])
    <3>1. CASE t = 2
      BY <1>3, <3>1, Layout, MapTyped
    <3>2. CASE \E k \in 1 .. DirSectors : t = 2 + k
      <4>1. PICK k \in 1 .. DirSectors : t = 2 + k
        BY <3>2
      <4>2. FALSE \in BOOLEAN /\ 0 \in Sectors
        BY SystemSectors, SMTT(20)
      <4>3. \A i \in Entries : table[i].inUse \in BOOLEAN /\ table[i].sector \in Sectors
        BY <1>1, <4>2
      <4>4. TypedSector(2 + k, Piece(Slice(table, k - 1)))
        BY <4>3, PieceTyped
      <4> QED
        BY <1>3, <4>1, <4>4 DEF HasDirectory
    <3>3. CASE t = 0
      <4>1. t \notin System \ {0, 1}
        BY <3>3, SMTT(20)
      <4> QED
        BY <1>3, <3>3, <4>1, SystemHeaders, HeaderTyped
    <3>4. CASE t = 1
      <4>1. t \notin System \ {0, 1}
        BY <3>4, SMTT(20)
      <4> QED
        BY <1>3, <3>4, <4>1, SystemHeaders, HeaderTyped
    <3>5. CASE t \notin System
      BY <1>3, <3>5
    <3>6. t \in System => \/ t = 0 \/ t = 1 \/ t = 2
                          \/ \E k \in 1 .. DirSectors : t = 2 + k
      BY SystemSectors
    <3> QED
      BY <3>1, <3>2, <3>3, <3>4, <3>5, <3>6
  <2> QED
    BY <2>1, TypedApply
<1> QED
  BY <1>2, <1>5, <1>7, <1>8

-----------------------------------------------------------------------------
(* Quotient and remainder of a number shifted by a multiple.               *)
LEMMA ModShift ==
  ASSUME NEW s \in Nat \ {0}, NEW f \in Nat, NEW i \in Nat
  PROVE  (s * f + i) % s = i % s /\ (s * f + i) \div s = f + i \div s
<1> DEFINE a == i \div s
           b == i % s
           q == f + a
<1>1. a \in Nat /\ b \in Nat /\ i = s * a + b /\ b < s
  BY DivMod, SMTT(20)
<1> HIDE DEF a, b
<1>2. s * f + i = s * q + b /\ q \in Nat /\ b \in 0 .. s - 1
  BY <1>1, SMTT(20)
<1>3. (s * q + b) \div s = q /\ (s * q + b) % s = b
  BY <1>2, DivModUnique, SMTT(20)
<1> QED
  BY <1>2, <1>3 DEF a, b

(* An offset is in the sector that its quotient says.                      *)
LEMMA Quotient ==
  ASSUME NEW s \in Nat \ {0}, NEW o \in Nat, NEW f, f = o \div s
  PROVE  f \in Nat /\ s * f \in Nat /\ f * s = s * f /\ s * f <= o /\ o < s * f + s
<1>1. f \in Nat /\ o % s \in Nat /\ o = s * f + (o % s) /\ o % s < s
  BY DivMod, SMTT(20)
<1> DEFINE r == o % s
           p == s * f
<1>2. p \in Nat /\ f * s = p
  BY <1>1, SMTT(20)
<1> HIDE DEF r, p
<1>3. r \in Nat /\ o = p + r /\ r < s
  BY <1>1 DEF r, p
<1>4. p <= o /\ o < p + s
  BY <1>2, <1>3, SMTT(20)
<1> QED
  BY <1>1, <1>2, <1>4 DEF p

(* OpenFile::ReadAt returns the bytes at their places in the sectors.      *)
LEMMA ReadAtLemma ==
  ASSUME NEW d, NEW hdr, hdr.numBytes \in Nat, NEW numBytes \in Nat \ {0},
         NEW position \in Nat, position < hdr.numBytes
  PROVE  ReadsBytes(d, hdr, numBytes, position)
<1> DEFINE n == Min({numBytes, hdr.numBytes - position})
           firstSector == position \div SectorSize
           buf(i) == ByteOf(d, ByteToSector(hdr, firstSector * SectorSize + i), (i % SectorSize) + 1)
<1>1. ReadAt(d, hdr, numBytes, position) =
        [i \in 1 .. n |-> buf(position - firstSector * SectorSize + i - 1)]
  <2>1. ~ (numBytes <= 0 \/ position >= hdr.numBytes)
    BY SMTT(20)
  <2> QED
    BY <2>1 DEF ReadAt
<1>2. /\ firstSector \in Nat /\ SectorSize * firstSector \in Nat
      /\ firstSector * SectorSize = SectorSize * firstSector
      /\ SectorSize * firstSector <= position
  BY Sizes, Quotient
<1>3. ASSUME NEW i \in Nat \ {0}
      PROVE  buf(position - firstSector * SectorSize + i - 1) = DataByte(d, hdr, position + i - 1)
  <2> DEFINE p == SectorSize * firstSector
             i0 == position - p + i - 1
  <2>1. p \in Nat /\ p <= position /\ firstSector * SectorSize = p
    BY <1>2
  <2> HIDE DEF p
  <2>2. i0 \in Nat /\ p + i0 = position + i - 1
    BY <2>1, SMTT(20)
  <2>3. (p + i0) % SectorSize = i0 % SectorSize
    BY <1>2, <2>2, Sizes, ModShift DEF p
  <2>4. position - firstSector * SectorSize + i - 1 = i0
    BY <2>1
  <2> HIDE DEF i0, firstSector
  <2>5. buf(i0) = ByteOf(d, ByteToSector(hdr, p + i0), ((p + i0) % SectorSize) + 1)
    BY <2>1, <2>3
  <2> QED
    BY <2>2, <2>4, <2>5 DEF DataByte
<1>4. \A i \in 1 .. n : i \in Nat \ {0}
  <2>1. n \in Int
    BY MinPair, SMTT(20)
  <2> QED
    BY <2>1, SMTT(20)
<1> DEFINE g(i) == buf(position - firstSector * SectorSize + i - 1)
           h(i) == DataByte(d, hdr, position + i - 1)
<1>5. \A i \in 1 .. n : g(i) = h(i)
  BY <1>3, <1>4
<1>6. ReadAt(d, hdr, numBytes, position) = [i \in 1 .. n |-> g(i)]
  BY <1>1
<1> HIDE DEF n, g, h
<1>7. ReadAt(d, hdr, numBytes, position) = [i \in 1 .. n |-> h(i)]
  BY <1>5, <1>6
<1> QED
  BY <1>7 DEF h, n, ReadsBytes

(* Division keeps the order.                                               *)
LEMMA DivOrder ==
  ASSUME NEW s \in Nat \ {0}, NEW a \in Nat, NEW b \in Nat, a <= b
  PROVE  a \div s <= b \div s
<1> DEFINE f == a \div s
           g == b \div s
           p == s * f
           q == s * g
<1>1. f \in Nat /\ p \in Nat /\ p <= a /\ a < p + s
  BY Quotient
<1>2. g \in Nat /\ q \in Nat /\ q <= b /\ b < q + s
  BY Quotient
<1> HIDE DEF f, g
<1>3. g < f => q + s <= p
  BY <1>1, <1>2, ProductGrows, SMTT(20)
<1> HIDE DEF p, q
<1>4. ~ (g < f)
  BY <1>1, <1>2, <1>3, SMTT(20)
<1> QED
  BY <1>1, <1>2, <1>4, SMTT(20) DEF f, g

(* OpenFile::WriteAt writes when the position is in the file, ...          *)
LEMMA WriteAtIs ==
  ASSUME NEW d, NEW hdr, NEW from, NEW position,
         ~ (Len(from) = 0 \/ position >= hdr.numBytes)
  PROVE  WriteAt(d, hdr, from, position) =
           WriteSeq(d, hdr, from, position, WriteCount(hdr, from, position))
  BY DEF WriteAt, WriteSeq, NewBlock, NewByte, IsRead, WriteCount, FirstSector, LastSector

(* ... all of it when all of it lies in the file.                          *)
LEMMA WriteAtFits ==
  ASSUME NEW d, NEW hdr, NEW from, NEW position, Fits(hdr, position, Len(from))
  PROVE  WriteAt(d, hdr, from, position) = WriteSeq(d, hdr, from, position, Len(from))
<1> DEFINE n == Len(from)
           size == hdr.numBytes
<1>1. position \in Nat /\ n \in Nat \ {0} /\ size \in Nat /\ position + n <= size
  BY DEF Fits, Whole
<1> HIDE DEF n, size
<1>2. ~ (n = 0 \/ position >= size) /\ n \in Int /\ size - position \in Int /\ n <= size - position
  BY <1>1, SMTT(20)
<1>3. Min({n, size - position}) = n
  BY <1>2, MinPair, SMTT(20)
<1> QED
  BY <1>2, <1>3, WriteAtIs DEF WriteCount, n, size

(* The sectors of the file that n bytes at position lie in.                *)
LEMMA WriteRange ==
  ASSUME NEW hdr, NEW position, NEW n, Fits(hdr, position, n)
  PROVE  /\ FirstSector(position) \in Nat /\ LastSector(position, n) \in Nat
         /\ FirstSector(position) <= LastSector(position, n)
         /\ LastSector(position, n) < Len(hdr.dataSectors)
<1> DEFINE last == position + n - 1
<1>1. /\ position \in Nat /\ n \in Nat \ {0} /\ hdr.numBytes \in Nat
      /\ position + n <= hdr.numBytes
      /\ Len(hdr.dataSectors) = divRoundUp(hdr.numBytes, SectorSize)
  BY DEF Fits, Whole
<1>2. last \in Nat /\ position <= last /\ last < hdr.numBytes
  BY <1>1, SMTT(20)
<1> HIDE DEF last
<1>3. FirstSector(position) \in Nat
  BY <1>1, Sizes, Quotient DEF FirstSector
<1>4. last \div SectorSize \in Nat /\ position \div SectorSize <= last \div SectorSize
  BY <1>1, <1>2, Sizes, Quotient, DivOrder
<1>5. last \div SectorSize < Len(hdr.dataSectors)
  BY <1>1, <1>2, Sizes, DivRoundUp
<1> QED
  BY <1>3, <1>4, <1>5 DEF FirstSector, LastSector, last

(* ByteToSector of the first byte of a sector.                             *)
LEMMA SectorAt ==
  ASSUME NEW hdr, NEW q \in Nat
  PROVE  ByteToSector(hdr, q * SectorSize) = hdr.dataSectors[q + 1]
<1>1. (SectorSize * q + 0) \div SectorSize = q
  BY Sizes, DivModUnique, SMTT(20)
<1>2. q * SectorSize = SectorSize * q + 0
  BY Sizes, SMTT(20)
<1> QED
  BY <1>1, <1>2 DEF ByteToSector

(* WriteAt writes those sectors, each of them once, and no other.          *)
LEMMA WriteSeqParts ==
  ASSUME NEW d, NEW hdr, NEW from, NEW position, NEW n, Fits(hdr, position, n),
         NEW w, w = WriteSeq(d, hdr, from, position, n),
         NEW first, first = FirstSector(position), NEW last, last = LastSector(position, n)
  PROVE  /\ IsList(w, last - first + 1)
         /\ \A k \in 1 .. last - first + 1 :
              /\ first + k - 1 \in first .. last
              /\ first + k \in 1 .. Len(hdr.dataSectors)
              /\ w[k].sector = hdr.dataSectors[first + k]
              /\ w[k].data = NewBlock(d, hdr, from, position, n, first + k - 1)
<1> DEFINE m == last - first + 1
           cell(k) == [sector |-> ByteToSector(hdr, (first + k - 1) * SectorSize),
                       data |-> NewBlock(d, hdr, from, position, n, first + k - 1)]
<1>1. w = [k \in 1 .. m |-> cell(k)]
  BY DEF WriteSeq
<1>2. /\ first \in Nat /\ last \in Nat /\ first <= last /\ last < Len(hdr.dataSectors)
      /\ Len(hdr.dataSectors) \in Nat
  BY WriteRange, WholeSectors DEF Fits
<1>3. m \in Nat
  BY <1>2, SMTT(20)
<1>4. ASSUME NEW k \in 1 .. m
      PROVE  /\ first + k - 1 \in first .. last /\ first + k \in 1 .. Len(hdr.dataSectors)
             /\ first + k - 1 \in Nat /\ (first + k - 1) + 1 = first + k
  BY <1>2, <1>4, SMTT(30)
<1>5. ASSUME NEW k \in 1 .. m
      PROVE  /\ cell(k).sector = hdr.dataSectors[first + k]
             /\ cell(k).data = NewBlock(d, hdr, from, position, n, first + k - 1)
  <2> DEFINE q == first + k - 1
             x == ByteToSector(hdr, q * SectorSize)
             y == NewBlock(d, hdr, from, position, n, q)
  <2>1. x = hdr.dataSectors[first + k]
    BY <1>4, <1>5, SectorAt
  <2> HIDE DEF x, y
  <2>2. cell(k).sector = x /\ cell(k).data = y
    <3>1. cell(k) = [sector |-> x, data |-> y]
      BY DEF x, y
    <3> HIDE DEF cell
    <3> QED
      BY <3>1, SMTT(20)
  <2> QED
    BY <2>1, <2>2 DEF y
<1>6. \A k \in 1 .. m : w[k] = cell(k)
  BY <1>1
<1>7. w = [k \in 1 .. m |-> w[k]]
  BY <1>1
<1> HIDE DEF cell, m
<1>8. \A k \in 1 .. m : /\ w[k].sector = hdr.dataSectors[first + k]
                        /\ w[k].data = NewBlock(d, hdr, from, position, n, first + k - 1)
  BY <1>5, <1>6
<1>9. IsList(w, m)
  <2>1. hdr.dataSectors \in Seq(Sectors)
    BY DEF Fits, Whole
  <2>2. \A i \in 1 .. Len(hdr.dataSectors) : hdr.dataSectors[i] \in Sectors
    BY <2>1, SMTT(20)
  <2>3. \A k \in 1 .. m : w[k].sector \in Sectors
    BY <1>4, <1>8, <2>2
  <2> QED
    BY <1>3, <1>7, <2>3 DEF IsList
<1> QED
  BY <1>4, <1>8, <1>9 DEF m

(* The disk after WriteAt.                                                 *)
LEMMA WriteSeqWrites ==
  ASSUME NEW d, NEW hdr, NEW from, NEW position, NEW n, Fits(hdr, position, n)
  PROVE  /\ WriteList(WriteSeq(d, hdr, from, position, n))
         /\ WriteWrote(d, Apply(d, WriteSeq(d, hdr, from, position, n)), hdr, from, position, n)
<1> DEFINE w == WriteSeq(d, hdr, from, position, n)
           first == FirstSector(position)
           last == LastSector(position, n)
           ds == hdr.dataSectors
           m == last - first + 1
           e == Apply(d, w)
<1>1. /\ IsList(w, m)
      /\ \A k \in 1 .. m :
           /\ first + k - 1 \in first .. last
           /\ first + k \in 1 .. Len(ds)
           /\ w[k].sector = ds[first + k]
           /\ w[k].data = NewBlock(d, hdr, from, position, n, first + k - 1)
  BY WriteSeqParts, SMTT(20)
<1>2. /\ first \in Nat /\ last \in Nat /\ first <= last /\ last < Len(ds) /\ Len(ds) \in Nat
      /\ DOMAIN ds = 1 .. Len(ds) /\ IsInjective(ds) /\ ds \in Seq(Sectors)
  BY WriteRange, WholeSectors DEF Fits, Whole
<1> HIDE DEF w, first, last, ds, m, e
<1>3. \A i \in 1 .. Len(ds) : ds[i] \in Sectors
  BY <1>2, SMTT(20)
<1>4. \A i, j \in 1 .. Len(ds) : ds[i] = ds[j] => i = j
  BY <1>2 DEF IsInjective
<1>5. ASSUME NEW q \in first .. last
      PROVE  /\ e[ds[q + 1]] = NewBlock(d, hdr, from, position, n, q)
             /\ \E k : IsLast(w, m, ds[q + 1], k)
  <2> DEFINE k == q - first + 1
  <2>1. /\ k \in 1 .. m /\ first + k = q + 1 /\ first + k - 1 = q /\ q + 1 \in 1 .. Len(ds)
    BY <1>2, <1>5, SMTT(20) DEF m
  <2> HIDE DEF k
  <2>2. ds[q + 1] \in Sectors
    BY <1>3, <2>1
  <2>3. w[k].sector = ds[q + 1] /\ w[k].data = NewBlock(d, hdr, from, position, n, q)
    BY <1>1, <2>1
  <2>4. ASSUME NEW i \in 1 .. m, w[i].sector = ds[q + 1] PROVE i <= k
    <3>1. ds[first + i] = ds[q + 1] /\ first + i \in 1 .. Len(ds)
      BY <1>1, <2>4
    <3>2. first + i = q + 1
      BY <1>4, <2>1, <3>1
    <3>3. i \in Int /\ k \in Int
      BY <2>1, <2>4, SMTT(20)
    <3> QED
      BY <1>2, <2>1, <3>2, <3>3, SMTT(20)
  <2> DEFINE s == ds[q + 1]
             b == NewBlock(d, hdr, from, position, n, q)
  <2> HIDE DEF s, b
  <2>5. IsLast(w, m, s, k)
    BY <1>1, <2>1, <2>3, <2>4 DEF IsLast, s
  <2>6. s \in Sectors
    BY <2>2 DEF s
  <2>7. e[s] = w[k].data
    BY <2>5, <2>6, ApplyLast, SMTT(20) DEF e
  <2> QED
    BY <2>3, <2>5, <2>7 DEF s
<1>6. ASSUME NEW q \in 0 .. Len(ds) - 1, q \notin first .. last
      PROVE  e[ds[q + 1]] = d[ds[q + 1]] /\ Untouched(w, m, ds[q + 1])
  <2>1. q + 1 \in 1 .. Len(ds) /\ q \in Int
    BY <1>2, <1>6, SMTT(20)
  <2>2. ASSUME NEW k \in 1 .. m PROVE w[k].sector # ds[q + 1]
    <3>1. SUFFICES ASSUME w[k].sector = ds[q + 1] PROVE FALSE
      OBVIOUS
    <3>2. ds[first + k] = ds[q + 1] /\ first + k \in 1 .. Len(ds) /\ first + k - 1 \in first .. last
      BY <1>1, <2>2, <3>1
    <3>3. first + k = q + 1
      BY <1>4, <2>1, <3>2
    <3>4. first + k - 1 = q
      BY <1>2, <2>1, <3>3, SMTT(20)
    <3> QED
      BY <1>6, <3>2, <3>4
  <2> DEFINE s == ds[q + 1]
  <2> HIDE DEF s
  <2>3. s \in Sectors
    BY <1>3, <2>1 DEF s
  <2>4. Untouched(w, m, s)
    BY <1>1, <2>2 DEF Untouched, s
  <2>5. e[s] = d[s]
    BY <2>3, <2>4, ApplyOther DEF e
  <2> QED
    BY <2>4, <2>5 DEF s
<1>7. ASSUME NEW t \in Sectors \ SectorsOf(hdr)
      PROVE  e[t] = d[t] /\ Untouched(w, m, t)
  <2>1. \A i \in 1 .. Len(ds) : ds[i] # t
    BY <1>2, <1>7 DEF SectorsOf, Range, ds
  <2>2. \A k \in 1 .. m : w[k].sector # t
    BY <1>1, <2>1
  <2>3. Untouched(w, m, t)
    BY <1>1, <2>2 DEF Untouched
  <2> QED
    BY <2>3, ApplyOther DEF e
<1>8. WriteList(w)
  <2>1. \A k \in 1 .. m : w[k].sector \in Sectors
    BY <1>1, <1>3
  <2>2. ASSUME NEW t \in SectorsOf(hdr)
        PROVE  Untouched(w, m, t) \/ \E k : IsLast(w, m, t, k)
    <3>1. PICK i \in 1 .. Len(ds) : ds[i] = t
      BY <1>2, <2>2 DEF SectorsOf, Range, ds
    <3> DEFINE q == i - 1
    <3>2. q \in 0 .. Len(ds) - 1 /\ q + 1 = i
      BY <1>2, SMTT(20)
    <3> HIDE DEF q
    <3>3. ds[q + 1] = t
      BY <3>1, <3>2
    <3> QED
      BY <1>5, <1>6, <3>2, <3>3
  <2> QED
    BY <1>1, <1>7, <2>1, <2>2 DEF WriteList
<1> QED
  BY <1>5, <1>6, <1>7, <1>8 DEF WriteWrote, w, e, first, last, ds

(* A sector that is written in part is read before.                        *)
LEMMA PartIsRead ==
  ASSUME NEW position \in Nat, NEW n \in Nat \ {0}, NEW o \in Nat,
         NEW q \in FirstSector(position) .. LastSector(position, n), q = o \div SectorSize,
         o \notin position .. position + n - 1
  PROVE  IsRead(position, n, q)
<1> DEFINE S == SectorSize
           first == FirstSector(position)
           last == LastSector(position, n)
           P == S * first
           L == S * last
           Q == S * q
           end == position + n - 1
<1>1. S \in Nat \ {0} /\ end \in Nat
  BY Sizes, SMTT(20)
<1> HIDE DEF S
<1>2. first \in Nat /\ P \in Nat /\ first * S = P /\ P <= position /\ position < P + S
  BY <1>1, Quotient DEF FirstSector, S
<1>3. last \in Nat /\ L \in Nat /\ L <= end /\ end < L + S
  BY <1>1, Quotient DEF LastSector, S
<1>4. q \in Nat /\ Q \in Nat /\ Q <= o /\ o < Q + S
  <2> DEFINE f == o \div S
  <2>1. f \in Nat /\ S * f \in Nat /\ S * f <= o /\ o < S * f + S
    BY <1>1, Quotient
  <2>2. q = f
    BY DEF S
  <2> HIDE DEF f
  <2> QED
    BY <2>1, <2>2
<1> HIDE DEF first, last
<1>5. (last + 1) * S = L + S
  BY <1>1, <1>3, SMTT(20)
<1>6. first <= q /\ q <= last
  BY <1>2, <1>3, <1>4, SMTT(20) DEF first, last
<1>7. /\ first < q => P + S <= Q
      /\ q < last => Q + S <= L
  BY <1>1, <1>2, <1>3, <1>4, ProductGrows, SMTT(20)
<1>8. first = q => P = Q
  OBVIOUS
<1>9. last = q => L = Q
  OBVIOUS
<1> HIDE DEF P, L, Q
<1>10. CASE o < position
  <2>1. first = q /\ position # P
    BY <1>1, <1>2, <1>4, <1>6, <1>7, <1>8, <1>10, SMTT(20)
  <2> QED
    BY <1>2, <2>1 DEF IsRead, first, S
<1>11. CASE position + n <= o
  <2>1. last = q /\ position + n # L + S
    BY <1>1, <1>2, <1>3, <1>4, <1>6, <1>7, <1>9, <1>11, SMTT(20)
  <2>2. ~ (position + n = (last + 1) * S)
    BY <1>5, <2>1
  <2>3. q = LastSector(position, n) /\ ~ (position + n = (LastSector(position, n) + 1) * SectorSize)
    BY <2>1, <2>2 DEF last, S
  <2> QED
    BY <2>3 DEF IsRead
<1>12. o < position \/ position + n <= o
  BY SMTT(20)
<1> QED
  BY <1>10, <1>11, <1>12

(* The bytes of a file after WriteAt: the ones written, and the others.    *)
LEMMA WriteByte ==
  ASSUME NEW d, NEW e, NEW hdr, NEW from, NEW position, NEW n, Fits(hdr, position, n),
         WriteWrote(d, e, hdr, from, position, n), NEW o \in 0 .. hdr.numBytes - 1
  PROVE  ByteWritten(d, e, hdr, from, position, n, o)
<1> DEFINE q == o \div SectorSize
           r == (o % SectorSize) + 1
           s == hdr.dataSectors[q + 1]
           S == SectorSize
           Q == S * q
           size == hdr.numBytes
<1>1. position \in Nat /\ n \in Nat \ {0} /\ size \in Nat /\ position + n <= size /\ o \in Nat /\ o < size
  <2>1. position \in Nat /\ n \in Nat \ {0} /\ size \in Nat /\ position + n <= size
    BY DEF Fits, Whole
  <2> QED
    BY <2>1, SMTT(20)
<1>2. S \in Nat \ {0}
  BY Sizes, SMTT(20)
<1>3. q \in Nat /\ Q \in Nat /\ q * S = Q /\ r \in 1 .. S /\ Q + r = o + 1
  <2>1. q \in Nat /\ o % S \in Nat /\ o = S * q + (o % S) /\ o % S < S
    BY <1>1, <1>2, DivMod
  <2> DEFINE x == o % S
  <2>2. Q \in Nat /\ q * S = Q
    BY <1>2, <2>1, SMTT(20)
  <2> HIDE DEF x, Q, q, S
  <2>3. x \in Nat /\ o = Q + x /\ x < S /\ r = x + 1
    BY <2>1 DEF x, Q, S
  <2> HIDE DEF r
  <2> QED
    BY <1>2, <2>1, <2>2, <2>3, SMTT(20)
<1>4. /\ DataByte(e, hdr, o) = ByteOf(e, s, r)
      /\ DataByte(d, hdr, o) = ByteOf(d, s, r)
  BY DEF DataByte, ByteToSector
<1>5. q \in 0 .. Len(hdr.dataSectors) - 1
  <2>1. Len(hdr.dataSectors) = divRoundUp(size, S) /\ Len(hdr.dataSectors) \in Nat
    BY WholeSectors DEF Fits, Whole
  <2>2. q < Len(hdr.dataSectors)
    BY <1>1, <1>2, <2>1, DivRoundUp
  <2> QED
    BY <1>3, <2>1, <2>2, SMTT(20)
<1>6. CASE q \in FirstSector(position) .. LastSector(position, n)
  <2>1. DataByte(e, hdr, o) = NewByte(d, hdr, from, position, n, q, r)
    <3> DEFINE f == [i \in 1 .. S |-> NewByte(d, hdr, from, position, n, q, i)]
    <3>1. e[s] = Block(f)
      BY <1>6 DEF WriteWrote, NewBlock
    <3>2. f[r] = NewByte(d, hdr, from, position, n, q, r)
      BY <1>3
    <3> HIDE DEF f, s, r, q
    <3>3. Block(f).kind = "bytes" /\ Block(f).bytes = f
      BY SMTT(20) DEF Block
    <3> HIDE DEF Block
    <3>4. ByteOf(e, s, r) = f[r]
      BY <3>1, <3>3 DEF ByteOf
    <3> QED
      BY <1>4, <3>2, <3>4
  <2> DEFINE at == q * SectorSize + r - position
  <2>2. at = o - position + 1 /\ (at \in 1 .. n <=> o \in position .. position + n - 1)
    <3>1. q * SectorSize = Q
      BY <1>3
    <3> HIDE DEF q, r, Q, S
    <3> QED
      BY <1>1, <1>2, <1>3, <3>1, SMTT(20)
  <2>3. CASE o \in position .. position + n - 1
    <3>1. NewByte(d, hdr, from, position, n, q, r) = from[at]
      BY <2>2, <2>3 DEF NewByte
    <3> QED
      BY <2>1, <2>2, <2>3, <3>1 DEF ByteWritten
  <2>4. CASE o \notin position .. position + n - 1
    <3>1. IsRead(position, n, q)
      BY <1>1, <1>6, <2>4, PartIsRead, SMTT(20)
    <3> DEFINE old == ReadAt(d, hdr, SectorSize, q * SectorSize)
               m == Min({SectorSize, hdr.numBytes - q * SectorSize})
    <3>2. old = [i \in 1 .. m |-> DataByte(d, hdr, q * SectorSize + i - 1)]
      <4>1. q * SectorSize \in Nat /\ q * SectorSize < hdr.numBytes
        <5> HIDE DEF q, r, Q
        <5> QED
          BY <1>1, <1>3, SMTT(20)
      <4> QED
        <5>1. ReadsBytes(d, hdr, SectorSize, q * SectorSize)
          BY <1>1, <1>2, <4>1, ReadAtLemma
        <5> QED
          BY <5>1 DEF ReadsBytes
    <3>3. r \in 1 .. m /\ q * SectorSize + r - 1 = o
      <4>1. q * SectorSize = Q
        BY <1>3
      <4> HIDE DEF q, r, Q, S, size
      <4>2. m = IF S <= size - Q THEN S ELSE size - Q
        BY <1>1, <1>2, <1>3, <4>1, MinPair, SMTT(20) DEF S, size
      <4> HIDE DEF m
      <4> QED
        BY <1>1, <1>2, <1>3, <4>1, <4>2, SMTT(20)
    <3> HIDE DEF old, m, q, r
    <3>4. r \in DOMAIN old /\ old[r] = DataByte(d, hdr, o)
      BY <3>2, <3>3
    <3>5. NewByte(d, hdr, from, position, n, q, r) = old[r]
      BY <2>2, <2>4, <3>1, <3>4 DEF NewByte, old
    <3> QED
      BY <2>1, <2>4, <3>4, <3>5 DEF ByteWritten
  <2> QED
    BY <2>3, <2>4
<1>7. CASE q \notin FirstSector(position) .. LastSector(position, n)
  <2>1. e[s] = d[s]
    BY <1>5, <1>7 DEF WriteWrote
  <2>2. DataByte(e, hdr, o) = DataByte(d, hdr, o)
    <3> HIDE DEF s, r, q
    <3>1. ByteOf(e, s, r) = ByteOf(d, s, r)
      BY <2>1 DEF ByteOf
    <3> QED
      BY <1>4, <3>1
  <2>3. o \notin position .. position + n - 1
    <3>1. SUFFICES ASSUME position <= o, o <= position + n - 1 PROVE FALSE
      BY <1>1, SMTT(20)
    <3> DEFINE end == position + n - 1
    <3>2. end \in Nat
      BY <1>1, SMTT(20)
    <3> HIDE DEF end
    <3>3. position \div SectorSize <= q /\ q <= end \div SectorSize
      BY <1>1, <1>2, <3>1, <3>2, DivOrder DEF end
    <3>4. FirstSector(position) <= q /\ q <= LastSector(position, n)
      BY <3>3 DEF FirstSector, LastSector, end
    <3>5. FirstSector(position) \in Nat /\ LastSector(position, n) \in Nat
      BY WriteRange
    <3> HIDE DEF q
    <3> QED
      BY <1>3, <1>7, <3>4, <3>5, SMTT(20)
  <2> QED
    BY <2>2, <2>3 DEF ByteWritten
<1> QED
  BY <1>6, <1>7

(* WriteAt leaves the files what they were, but for those bytes.           *)
LEMMA WroteSound ==
  ASSUME NEW d, TypedDisk(d), Sound(d), NEW j \in LiveIn(d), NEW from, NEW position, NEW n,
         NEW e, WriteWrote(d, e, HdrOf(d, j), from, position, n), IsDisk(e)
  PROVE  SameFiles(d, e)
<1> DEFINE hdr == HdrOf(d, j)
<1>1. SectorsOf(hdr) \subseteq Uses(d, j) /\ Uses(d, j) \cap System = {}
  BY SoundUses DEF Uses
<1>2. Whole(hdr)
  BY LiveWhole DEF Sound
<1>3. \A t \in Sectors \ SectorsOf(hdr) : e[t] = d[t]
  BY DEF WriteWrote
<1> HIDE DEF hdr
<1>4. \A t \in System : e[t] = d[t]
  BY <1>1, <1>3, Layout
<1>5. directory(e) = directory(d)
  <2>1. \A k \in 1 .. DirSectors : e[2 + k] = d[2 + k]
    BY <1>4, SystemSectors
  <2> QED
    BY <2>1, SameDirectory
<1>6. freeMap(e) = freeMap(d)
  BY <1>4, Layout, SystemSectors DEF freeMap
<1>7. LiveIn(e) = LiveIn(d)
  BY <1>5 DEF LiveIn
<1>8. ASSUME NEW i \in LiveIn(d) PROVE HdrOf(e, i) = HdrOf(d, i)
  <2> DEFINE t == directory(d)[i].sector
  <2>1. t \in Sectors
    BY DirectoryTyped DEF LiveIn
  <2>2. t \notin SectorsOf(hdr)
    <3>1. CASE i = j
      BY <3>1 DEF Sound, hdr
    <3>2. CASE i # j
      <4>1. Uses(d, i) \cap Uses(d, j) = {}
        BY <3>2 DEF Sound
      <4>2. t \in Uses(d, i)
        BY SoundUses
      <4> QED
        BY <1>1, <4>1, <4>2
    <3> QED
      BY <3>1, <3>2
  <2>3. e[t] = d[t]
    BY <1>3, <2>1, <2>2
  <2> QED
    BY <1>5, <2>3 DEF HdrOf, header
<1>9. Sound(e)
  <2>1. \A i \in LiveIn(d) : SameFile(d, e, i)
    BY <1>5, <1>8 DEF SameFile
  <2> QED
    BY <1>6, <1>7, <2>1, SoundSame
<1>10. ASSUME NEW t \in Sectors PROVE TypedSector(t, e[t])
  <2>1. TypedSector(t, d[t])
    BY <1>10 DEF TypedDisk
  <2>2. CASE t \notin SectorsOf(hdr)
    BY <1>3, <1>10, <2>1, <2>2
  <2>3. CASE t \in SectorsOf(hdr)
    <3> DEFINE ds == hdr.dataSectors
    <3>1. DOMAIN ds = 1 .. Len(ds) /\ Len(ds) \in Nat
      BY <1>2, WholeSectors
    <3>2. PICK i \in 1 .. Len(ds) : ds[i] = t
      BY <2>3, <3>1 DEF SectorsOf, Range
    <3> DEFINE q == i - 1
    <3>3. q \in 0 .. Len(ds) - 1 /\ q + 1 = i
      BY <3>1, SMTT(20)
    <3> HIDE DEF q
    <3>4. ds[q + 1] = t
      BY <3>2, <3>3
    <3>5. CASE q \in FirstSector(position) .. LastSector(position, n)
      <4>1. e[t] = NewBlock(d, hdr, from, position, n, q)
        BY <3>4, <3>5 DEF WriteWrote, hdr
      <4>2. t \notin System
        BY <1>1, <2>3
      <4> QED
        BY <4>1, <4>2, BlockTyped DEF NewBlock
    <3>6. CASE q \notin FirstSector(position) .. LastSector(position, n)
      <4>1. e[t] = d[t]
        BY <3>3, <3>4, <3>6 DEF WriteWrote, hdr
      <4> QED
        BY <2>1, <4>1
    <3> QED
      BY <3>5, <3>6
  <2> QED
    BY <2>2, <2>3
<1>11. TypedDisk(e)
  BY <1>10 DEF TypedDisk, IsDisk
<1> QED
  BY <1>5, <1>6, <1>7, <1>8, <1>9, <1>11 DEF SameFiles

(* An operation that starts has all its sectors still to write.            *)
LEMMA StartPending ==
  ASSUME NEW w, WriteList(w), Start(w)
  PROVE  Pending(disk, image', todo') /\ image' = Apply(disk, w)
<1>1. PICK n : IsList(w, n) /\ \A k \in 1 .. n : w[k].sector \in Sectors
  BY DEF WriteList
<1>2. image' = Apply(disk, w) /\ todo' = [k \in DOMAIN w |-> w[k].sector]
  BY DEF Start
<1>3. n \in Nat /\ DOMAIN w = 1 .. n
  BY <1>1 DEF IsList
<1>4. todo' \in [1 .. n -> Sectors] /\ \A k \in 1 .. n : todo'[k] = w[k].sector
  BY <1>1, <1>2, <1>3
<1>5. todo' \in Seq(Sectors)
  BY <1>3, <1>4, SMTT(20)
<1>6. ASSUME NEW s \in Sectors, s \notin Range(todo') PROVE disk[s] = image'[s]
  <2>1. \A k \in 1 .. n : w[k].sector # s
    BY <1>4, <1>6 DEF Range
  <2>2. Untouched(w, n, s)
    BY <1>1, <2>1 DEF Untouched
  <2>3. Apply(disk, w)[s] = disk[s]
    BY <2>2, ApplyOther
  <2> QED
    BY <1>2, <2>3
<1> QED
  BY <1>2, <1>5, <1>6 DEF Pending

(* SynchDisk::WriteSector brings the disk closer to the image, ...         *)
LEMMA WritePending ==
  ASSUME TypedDisk(disk), TypedDisk(image), Pending(disk, image, todo), WriteSector
  PROVE  TypedDisk(disk') /\ Pending(disk', image', todo')
<1> DEFINE h == Head(todo)
<1>1. /\ todo # <<>> /\ todo \in Seq(Sectors) /\ todo' = Tail(todo)
      /\ disk' = [disk EXCEPT ![h] = image[h]] /\ image' = image
  BY DEF WriteSector, Pending
<1>2. h \in Sectors /\ todo' \in Seq(Sectors)
  BY <1>1, SMTT(20)
<1>3. ASSUME NEW s \in Range(todo), s # h PROVE s \in Range(Tail(todo))
  <2>1. PICK k \in DOMAIN todo : todo[k] = s
    BY DEF Range
  <2>2. /\ Len(todo) \in Nat /\ DOMAIN todo = 1 .. Len(todo) /\ h = todo[1]
        /\ Len(Tail(todo)) = Len(todo) - 1 /\ DOMAIN Tail(todo) = 1 .. Len(todo) - 1
        /\ \A i \in 1 .. Len(todo) - 1 : Tail(todo)[i] = todo[i + 1]
    BY <1>1, SMTT(20)
  <2>3. k # 1
    BY <1>3, <2>1, <2>2
  <2>4. k - 1 \in 1 .. Len(todo) - 1 /\ (k - 1) + 1 = k
    BY <2>2, <2>3, SMTT(20)
  <2>5. Tail(todo)[k - 1] = s
    BY <2>1, <2>2, <2>4
  <2> QED
    BY <2>2, <2>4, <2>5 DEF Range
<1> HIDE DEF h
<1>4. disk = [s \in Sectors |-> disk[s]]
  BY DEF TypedDisk
<1>5. \A s \in Sectors : disk'[s] = IF s = h THEN image[s] ELSE disk[s]
  BY <1>1, <1>4
<1>6. disk' = [s \in Sectors |-> disk'[s]]
  BY <1>1, <1>4, SMTT(20)
<1>7. TypedDisk(disk')
  <2>1. \A s \in Sectors : TypedSector(s, disk'[s])
    BY <1>5 DEF TypedDisk
  <2> QED
    BY <1>6, <2>1 DEF TypedDisk
<1>8. ASSUME NEW s \in Sectors PROVE s \in Range(todo') \/ disk'[s] = image'[s]
  BY <1>1, <1>3, <1>5 DEF Pending
<1> QED
  BY <1>2, <1>7, <1>8 DEF Pending

(* ... and when nothing is left to write they are equal.                   *)
LEMMA NothingPending ==
  ASSUME NEW d, NEW e, TypedDisk(d), TypedDisk(e), Pending(d, e, <<>>)
  PROVE  d = e
<1>1. d = [s \in Sectors |-> d[s]] /\ e = [s \in Sectors |-> e[s]]
  BY DEF TypedDisk
<1>2. Range(<<>>) = {}
  BY SMTT(20) DEF Range
<1>3. \A s \in Sectors : d[s] = e[s]
  BY <1>2 DEF Pending
<1> QED
  BY <1>1, <1>3

(* A disk that is its own image has nothing to write.                      *)
LEMMA EmptyPending ==
  ASSUME NEW d
  PROVE  Pending(d, d, <<>>)
<1>1. <<>> \in Seq(Sectors)
  BY SMTT(20)
<1> QED
  BY <1>1 DEF Pending

(* An empty file has no sectors.                                           *)
LEMMA NoSectors == divRoundUp(0, SectorSize) <= NumDirect
<1>1. SectorSize - 1 \in 0 .. SectorSize - 1 /\ SectorSize \in Nat \ {0} /\ NumDirect \in Nat
  BY Sizes, SMTT(20)
<1>2. (SectorSize * 0 + (SectorSize - 1)) \div SectorSize = 0
  BY <1>1, DivModUnique, SMTT(20)
<1>3. 0 + SectorSize - 1 = SectorSize * 0 + (SectorSize - 1)
  BY <1>1, SMTT(20)
<1> QED
  BY <1>1, <1>2, <1>3, SMTT(20) DEF divRoundUp

(* What SubSeq returns, as a function.                                     *)
LEMMA SubSeqIs ==
  ASSUME NEW s, NEW m \in Int, NEW n \in Int
  PROVE  SubSeq(s, m, n) = [i \in 1 .. (1 + n - m) |-> s[i + m - 1]]
  BY SMTT(20)

(* A part of a sequence.                                                   *)
LEMMA SubSeqLemma ==
  ASSUME NEW S, NEW s \in Seq(S), NEW p \in Nat, NEW n \in Nat, p + n <= Len(s)
  PROVE  /\ Len(SubSeq(s, p + 1, p + n)) = n
         /\ \A i \in 1 .. n : SubSeq(s, p + 1, p + n)[i] = s[p + i]
<1>1. Len(s) \in Nat
  BY SMTT(20)
<1>2. p + 1 \in 1 .. Len(s) + 1 /\ p + n \in p .. Len(s) /\ (p + n) - (p + 1) + 1 = n
  BY <1>1, SMTT(20)
<1> QED
  BY <1>1, <1>2, SMTT(20)

-----------------------------------------------------------------------------
(***************************************************************************)
(* The files of the other names: what an operation, and a stop in the      *)
(* middle of one, do to them.                                              *)
(***************************************************************************)
(* Every byte of a file lies in a sector of the file.                      *)
LEMMA SectorOfByte ==
  ASSUME NEW hdr, Whole(hdr), NEW o \in 0 .. hdr.numBytes - 1
  PROVE  ByteToSector(hdr, o) \in SectorsOf(hdr)
<1> DEFINE ds == hdr.dataSectors
           q == o \div SectorSize
<1>1. hdr.numBytes \in Nat /\ Len(ds) = divRoundUp(hdr.numBytes, SectorSize)
  BY DEF Whole
<1>2. o \in Nat /\ o < hdr.numBytes
  BY <1>1, SMTT(20)
<1>3. q < Len(ds)
  BY <1>1, <1>2, Sizes, DivRoundUp
<1>4. q \in Nat
  BY <1>2, Sizes, DivMod
<1>5. Len(ds) \in Nat /\ DOMAIN ds = 1 .. Len(ds)
  BY WholeSectors
<1> HIDE DEF q
<1>6. q + 1 \in 1 .. Len(ds)
  BY <1>3, <1>4, <1>5, SMTT(20)
<1> QED
  BY <1>5, <1>6 DEF ByteToSector, SectorsOf, Range, q

(* An entry before another one is not that one.                            *)
LEMMA Below == \A i, k \in Entries : k < i => k # i
<1> SUFFICES ASSUME NEW i \in Entries, NEW k \in Entries, k < i PROVE k # i
  OBVIOUS
<1>1. i \in Nat /\ k \in Nat
  BY EntriesNat
<1> QED
  BY <1>1, SMTT(20)

(* FileSystem::Create: the file is new, the others stay.                   *)
LEMMA MadeKeeps ==
  ASSUME NEW d, NEW e, TypedDisk(d), Sound(d), NEW n, NEW size, NEW j, NEW s,
         Made(d, e, n, size, j, s), Fresh(d, n)
  PROVE  AllKept(d, e, n) /\ AllOld(d, e, n)
<1>1. j \notin LiveIn(d) /\ LiveIn(e) = LiveIn(d) \cup {j} /\ LiveIn(d) \subseteq Entries
  <2>1. Grown(d, e, j)
    BY MadeSound
  <2> QED
    BY <2>1 DEF Grown, LiveIn
<1>2. \A i \in LiveIn(d) : i # j /\ SameEntry(d, e, i)
  BY <1>1 DEF Made
<1>3. directory(e)[j].name = n
  BY DEF Made
<1>4. ASSUME NEW i \in LiveIn(d) PROVE Kept(d, e, i)
  <2>1. ASSUME NEW t \in Uses(d, i) PROVE e[t] = d[t]
    <3>1. t \notin System /\ t \in freeMap(d)
      BY <2>1, SoundUses
    <3>2. freeMap(d) \subseteq Sectors
      BY DirectoryTyped
    <3>3. s \notin freeMap(d) /\ \A r \in Sectors \ System : r # s => e[r] = d[r]
      BY DEF Made
    <3> QED
      BY <3>1, <3>2, <3>3
  <2>2. ASSUME NEW k \in LiveIn(e), k < i
        PROVE  directory(e)[k].name # directory(d)[i].name
    <3>1. CASE k = j
      BY <1>3, <3>1 DEF Fresh
    <3>2. CASE k \in LiveIn(d)
      <4>1. k # i
        BY <1>1, <2>2, <3>2, Below
      <4>2. directory(d)[k].name # directory(d)[i].name
        BY <3>2, <4>1 DEF Sound
      <4> QED
        BY <1>2, <3>2, <4>2 DEF SameEntry
    <3> QED
      BY <1>1, <3>1, <3>2
  <2> QED
    BY <1>1, <1>2, <2>1, <2>2 DEF Kept
<1>5. AllOld(d, e, n)
  BY <1>1, <1>2, <1>3 DEF AllOld, SameEntry
<1> QED
  BY <1>4, <1>5 DEF AllKept

(* FileSystem::Remove: the file is gone, the others stay.                  *)
LEMMA RemovedKeeps ==
  ASSUME NEW d, NEW e, TypedDisk(d), Sound(d), NEW j, Removed(d, e, j)
  PROVE  /\ AllKept(d, e, directory(d)[j].name) /\ AllOld(d, e, directory(d)[j].name)
         /\ Fresh(e, directory(d)[j].name)
<1> DEFINE n == directory(d)[j].name
<1>1. j \in LiveIn(d) /\ LiveIn(e) = LiveIn(d) \ {j} /\ LiveIn(d) \subseteq Entries
  <2>1. LiveIn(e) = LiveIn(d) \ {j}
    BY RemovedSound
  <2> QED
    BY <2>1 DEF Removed, LiveIn
<1>2. \A i \in LiveIn(e) : i # j /\ SameEntry(d, e, i)
  BY <1>1 DEF Removed
<1>3. \A i, k \in LiveIn(d) : i # k => directory(d)[i].name # directory(d)[k].name
  BY DEF Sound
<1>4. Fresh(e, n)
  BY <1>1, <1>2, <1>3 DEF Fresh, SameEntry
<1>5. ASSUME NEW i \in LiveIn(d), directory(d)[i].name # n PROVE Kept(d, e, i)
  <2>1. i \in LiveIn(e)
    BY <1>1, <1>5
  <2>2. ASSUME NEW t \in Uses(d, i) PROVE e[t] = d[t]
    <3>1. t \notin System /\ t \in freeMap(d)
      BY <2>2, SoundUses
    <3>2. freeMap(d) \subseteq Sectors
      BY DirectoryTyped
    <3> QED
      BY <3>1, <3>2 DEF Removed
  <2>3. ASSUME NEW k \in LiveIn(e), k < i
        PROVE  directory(e)[k].name # directory(d)[i].name
    <3>1. k # i /\ k \in LiveIn(d)
      BY <1>1, <2>3, Below
    <3> QED
      BY <1>2, <1>3, <3>1 DEF SameEntry
  <2> QED
    BY <1>2, <2>1, <2>2, <2>3 DEF Kept
<1>6. AllOld(d, e, n)
  BY <1>1, <1>2 DEF AllOld, SameEntry
<1> QED
  BY <1>4, <1>5, <1>6 DEF AllKept

(* OpenFile::WriteAt: only the sectors of the file's data change.          *)
LEMMA WroteKeeps ==
  ASSUME NEW d, NEW e, TypedDisk(d), Sound(d), NEW j \in LiveIn(d),
         \A t \in Sectors \ SectorsOf(HdrOf(d, j)) : e[t] = d[t]
  PROVE  /\ directory(e) = directory(d)
         /\ AllKept(d, e, directory(d)[j].name) /\ AllOld(d, e, directory(d)[j].name)
<1>1. SectorsOf(HdrOf(d, j)) \subseteq Uses(d, j)
  BY DEF Uses
<1>2. \A t \in System : e[t] = d[t]
  BY <1>1, SoundUses, Layout
<1>3. directory(e) = directory(d)
  BY <1>2, SystemSectors, SameDirectory
<1>4. LiveIn(e) = LiveIn(d) /\ LiveIn(d) \subseteq Entries
  BY <1>3 DEF LiveIn
<1>5. ASSUME NEW i \in LiveIn(d), directory(d)[i].name # directory(d)[j].name
      PROVE  Kept(d, e, i)
  <2>1. i # j
    BY <1>5
  <2>2. Uses(d, i) \cap Uses(d, j) = {}
    BY <2>1 DEF Sound
  <2>3. Uses(d, i) \subseteq Sectors
    BY SoundUses, DirectoryTyped
  <2>4. \A t \in Uses(d, i) : e[t] = d[t]
    BY <1>1, <2>2, <2>3
  <2>5. ASSUME NEW k \in LiveIn(e), k < i
        PROVE  directory(e)[k].name # directory(d)[i].name
    <3>1. k # i /\ k \in LiveIn(d)
      BY <1>4, <2>5, Below
    <3> QED
      BY <1>3, <3>1 DEF Sound
  <2> QED
    BY <1>3, <1>4, <2>4, <2>5 DEF Kept, SameEntry
<1>6. AllOld(d, e, directory(d)[j].name)
  BY <1>3, <1>4 DEF AllOld
<1> QED
  BY <1>3, <1>5, <1>6 DEF AllKept

-----------------------------------------------------------------------------
(* Half-written, an entry has each field from before or from after, ...    *)
LEMMA MixedEntry ==
  ASSUME NEW d, NEW e, NEW x, Mixed(d, e, x), NEW i \in Entries
  PROVE  /\ directory(x)[i].inUse \in {directory(d)[i].inUse, directory(e)[i].inUse}
         /\ directory(x)[i].sector \in {directory(d)[i].sector, directory(e)[i].sector}
         /\ directory(x)[i].name \in {directory(d)[i].name, directory(e)[i].name}
<1>1. ASSUME NEW at \in Nat, at < 3 * NumDirEntries
      PROVE  Word(x, at) \in {Word(d, at), Word(e, at)}
  <2>1. PICK k \in 1 .. DirSectors, w \in 0 .. SectorWords - 1 :
          \A y : Word(y, at) = y[2 + k].words[w]
    BY <1>1, WordPlace
  <2>2. x[2 + k] = d[2 + k] \/ x[2 + k] = e[2 + k]
    BY SystemSectors DEF Mixed
  <2> QED
    BY <2>1, <2>2
<1>2. /\ 3 * i \in Nat /\ 3 * i < 3 * NumDirEntries
      /\ 3 * i + 1 \in Nat /\ 3 * i + 1 < 3 * NumDirEntries
      /\ 3 * i + 2 \in Nat /\ 3 * i + 2 < 3 * NumDirEntries
  BY EntryWords
<1>3. Word(x, 3 * i) \in {Word(d, 3 * i), Word(e, 3 * i)}
  BY <1>1, <1>2
<1>4. Word(x, 3 * i + 1) \in {Word(d, 3 * i + 1), Word(e, 3 * i + 1)}
  BY <1>1, <1>2
<1>5. Word(x, 3 * i + 2) \in {Word(d, 3 * i + 2), Word(e, 3 * i + 2)}
  BY <1>1, <1>2
<1>6. \A y : /\ directory(y)[i].inUse = Word(y, 3 * i)
             /\ directory(y)[i].sector = Word(y, 3 * i + 1)
             /\ directory(y)[i].name = Word(y, 3 * i + 2)
  BY DirectoryWords
<1> QED
  BY <1>3, <1>4, <1>5, <1>6

(* ... and an entry that the operation leaves alone is the same.           *)
LEMMA MixedSame ==
  ASSUME NEW d, NEW e, NEW x, Mixed(d, e, x), NEW i \in Entries, SameEntry(d, e, i)
  PROVE  SameEntry(d, x, i) /\ SameEntry(e, x, i)
<1>1. /\ directory(x)[i].inUse \in {directory(d)[i].inUse, directory(e)[i].inUse}
      /\ directory(x)[i].sector \in {directory(d)[i].sector, directory(e)[i].sector}
      /\ directory(x)[i].name \in {directory(d)[i].name, directory(e)[i].name}
  BY MixedEntry
<1> QED
  BY <1>1 DEF SameEntry

(* Create leaves no stale name before a file of that name, ...             *)
LEMMA MadeStale ==
  ASSUME NEW d, NEW e, TypedDisk(d), Sound(d), NEW n, NEW size, NEW j, NEW s,
         Made(d, e, n, size, j, s), Fresh(d, n), StaleNames(d)
  PROVE  StaleNames(e)
<1>1. j \notin LiveIn(d) /\ LiveIn(e) = LiveIn(d) \cup {j}
  <2>1. Grown(d, e, j)
    BY MadeSound
  <2> QED
    BY <2>1 DEF Grown
<1>2. /\ \A i \in Entries \ {j} : directory(e)[i].name = directory(d)[i].name
      /\ \A i \in Entries : i < j => i \in LiveIn(d)
  BY DEF Made, SameEntry
<1> SUFFICES ASSUME NEW i \in LiveIn(e), NEW k \in Entries \ LiveIn(e), k < i
             PROVE  directory(e)[k].name # directory(e)[i].name
  BY DEF StaleNames
<1>3. i \in LiveIn(d) /\ i \in Entries /\ i # j /\ k # j /\ k \notin LiveIn(d)
  BY <1>1, <1>2 DEF LiveIn
<1>4. directory(d)[k].name # directory(d)[i].name
  BY <1>3 DEF StaleNames
<1> QED
  BY <1>2, <1>3, <1>4

(* ... nor does Remove, whether its entry is cleared yet or not.           *)
LEMMA RemovedStale ==
  ASSUME NEW d, NEW e, TypedDisk(d), Sound(d), NEW j, Removed(d, e, j), StaleNames(d),
         NEW x, LiveIn(x) \subseteq LiveIn(d), LiveIn(d) \subseteq LiveIn(x) \cup {j},
         \A i \in Entries : directory(x)[i].name = directory(d)[i].name
  PROVE  StaleNames(x)
<1> SUFFICES ASSUME NEW i \in LiveIn(x), NEW k \in Entries \ LiveIn(x), k < i
             PROVE  directory(x)[k].name # directory(x)[i].name
  BY DEF StaleNames
<1>1. i \in LiveIn(d) /\ i \in Entries /\ k # i
  BY DEF LiveIn
<1>2. CASE k \in LiveIn(d)
  BY <1>1, <1>2 DEF Sound
<1>3. CASE k \notin LiveIn(d)
  BY <1>1, <1>3 DEF StaleNames
<1> QED
  BY <1>2, <1>3

(* In the middle of Create the other entries and files are as before.      *)
LEMMA CreateHalf ==
  ASSUME NEW d, NEW e, NEW n, NEW j, NEW x, Creating(d, e, n, j, x)
  PROVE  HalfMade(d, e, n, j, x)
<1>1. PICK size, s : Made(d, e, n, size, j, s)
  BY DEF Creating
<1>2. TypedDisk(d) /\ Sound(d) /\ StaleNames(d) /\ Fresh(d, n) /\ Mixed(d, e, x)
  BY DEF Creating
<1>3. Grown(d, e, j)
  BY <1>1, <1>2, MadeSound
<1>4. LiveIn(e) = LiveIn(d) \cup {j} /\ \A i \in LiveIn(d) : SameFile(d, e, i)
  BY <1>3 DEF Grown
<1>5. /\ j \in Entries \ LiveIn(d) /\ directory(e)[j].name = n
      /\ \A i \in Entries \ {j} : SameEntry(d, e, i)
      /\ s \notin freeMap(d) /\ \A t \in Sectors \ System : t # s => e[t] = d[t]
  BY <1>1 DEF Made
<1>6. \A i \in Entries \ {j} : SameEntry(d, x, i) /\ SameEntry(e, x, i)
  BY <1>2, <1>5, MixedSame
<1>7. LiveIn(x) \ {j} = LiveIn(d)
  BY <1>5, <1>6 DEF LiveIn, SameEntry
<1>8. directory(x)[j].name \in {directory(d)[j].name, n}
  BY <1>2, <1>5, MixedEntry
<1>9. ASSUME NEW i \in LiveIn(d)
      PROVE  SameFile(d, x, i) /\ \A t \in Uses(e, i) : x[t] = e[t]
  <2>1. i \in Entries \ {j} /\ Uses(e, i) = Uses(d, i)
    BY <1>4, <1>5, SameUses DEF LiveIn
  <2>2. \A t \in Uses(d, i) : x[t] = d[t] /\ x[t] = e[t]
    <3>1. Uses(d, i) \cap System = {} /\ Uses(d, i) \subseteq freeMap(d)
      BY <1>2, SoundUses
    <3>2. freeMap(d) \subseteq Sectors
      BY <1>2, DirectoryTyped
    <3> QED
      BY <1>2, <1>5, <3>1, <3>2 DEF Mixed
  <2>3. directory(d)[i].sector \in Uses(d, i)
    BY <1>2, SoundUses
  <2> QED
    BY <1>6, <2>1, <2>2, <2>3 DEF SameFile, SameEntry, HdrOf, header
<1> QED
  BY <1>4, <1>5, <1>6, <1>7, <1>8, <1>9 DEF HalfMade

(* A stop in Create, before the bitmap is written, does no harm to the     *)
(* files of other names; and if the disk agrees, none of them is new.      *)
LEMMA CreateStopped ==
  ASSUME NEW d, NEW e, NEW n, NEW j, NEW x, Creating(d, e, n, j, x), x[2] = d[2]
  PROVE  AllKept(e, x, n) /\ (Sound(x) => AllOld(e, x, n) /\ StaleNames(x))
<1>1. TypedDisk(d) /\ Sound(d) /\ StaleNames(d) /\ Fresh(d, n)
  BY DEF Creating
<1>0. HalfMade(d, e, n, j, x)
  BY CreateHalf
<1>2. /\ j \in Entries \ LiveIn(d) /\ LiveIn(e) = LiveIn(d) \cup {j}
      /\ LiveIn(x) \ {j} = LiveIn(d) /\ directory(e)[j].name = n
  BY <1>0 DEF HalfMade
<1>3. directory(x)[j].name \in {directory(d)[j].name, n}
  BY <1>0 DEF HalfMade
<1>4. \A i \in Entries \ {j} : SameEntry(d, x, i) /\ SameEntry(e, x, i)
  BY <1>0 DEF HalfMade
<1>5. \A i \in LiveIn(d) : SameFile(d, x, i) /\ \A t \in Uses(e, i) : x[t] = e[t]
  BY <1>0 DEF HalfMade
<1>6. LiveIn(d) \subseteq Entries
  BY DEF LiveIn
<1>7. ASSUME NEW i \in LiveIn(d), j < i
      PROVE  directory(x)[j].name # directory(d)[i].name
  BY <1>1, <1>2, <1>3, <1>7 DEF StaleNames, Fresh
<1>8. ASSUME NEW i \in LiveIn(e), directory(e)[i].name # n PROVE Kept(e, x, i)
  <2>1. i \in LiveIn(d) /\ i \in Entries \ {j} /\ i \in LiveIn(x)
    BY <1>2, <1>6, <1>8
  <2>2. directory(e)[i].name = directory(d)[i].name
    BY <1>4, <2>1 DEF SameEntry
  <2>3. ASSUME NEW k \in LiveIn(x), k < i
        PROVE  directory(x)[k].name # directory(e)[i].name
    <3>1. CASE k = j
      BY <1>7, <2>1, <2>2, <2>3, <3>1
    <3>2. CASE k # j
      <4>1. k \in LiveIn(d) /\ k \in Entries \ {j}
        BY <1>2, <1>6, <3>2
      <4>2. k # i
        BY <2>1, <2>3, <4>1, Below
      <4>3. directory(d)[k].name # directory(d)[i].name
        BY <1>1, <2>1, <4>1, <4>2 DEF Sound
      <4> QED
        BY <1>4, <2>2, <4>1, <4>3 DEF SameEntry
    <3> QED
      BY <3>1, <3>2
  <2> QED
    BY <1>4, <1>5, <2>1, <2>3 DEF Kept
<1>9. ASSUME Sound(x) PROVE j \notin LiveIn(x)
  <2> SUFFICES ASSUME j \in LiveIn(x) PROVE FALSE
    OBVIOUS
  <2> DEFINE t == directory(x)[j].sector
  <2>1. t \in Uses(x, j) /\ t \notin System /\ t \in freeMap(x)
    BY <1>9, SoundUses
  <2>2. freeMap(x) = freeMap(d)
    BY Layout DEF freeMap
  <2>3. PICK i \in LiveIn(d) : t \in Uses(d, i)
    <3>1. freeMap(d) = System \cup UNION {Uses(d, k) : k \in LiveIn(d)}
      BY <1>1 DEF Sound
    <3> HIDE DEF t
    <3> QED
      BY <2>1, <2>2, <3>1
  <2>4. Uses(x, i) = Uses(d, i)
    BY <1>5, SameUses
  <2>5. i \in LiveIn(x) /\ i # j
    BY <1>2
  <2>6. Uses(x, i) \cap Uses(x, j) = {}
    BY <1>9, <2>5 DEF Sound
  <2> QED
    BY <2>1, <2>3, <2>4, <2>6
<1>10. ASSUME Sound(x) PROVE AllOld(e, x, n) /\ StaleNames(x)
  <2>1. LiveIn(x) = LiveIn(d)
    BY <1>2, <1>9, <1>10
  <2>2. AllOld(e, x, n)
    BY <1>2, <1>4, <1>6, <2>1 DEF AllOld, SameEntry
  <2>3. ASSUME NEW i \in LiveIn(x), NEW k \in Entries \ LiveIn(x), k < i
        PROVE  directory(x)[k].name # directory(x)[i].name
    <3>1. i \in LiveIn(d) /\ i \in Entries \ {j} /\ k \notin LiveIn(d)
      BY <1>2, <1>6, <2>1, <2>3
    <3>2. directory(x)[i].name = directory(d)[i].name
      BY <1>4, <3>1 DEF SameEntry
    <3>3. CASE k = j
      BY <1>7, <2>3, <3>1, <3>2, <3>3
    <3>4. CASE k # j
      <4>1. directory(x)[k].name = directory(d)[k].name
        BY <1>4, <3>4 DEF SameEntry
      <4>2. directory(d)[k].name # directory(d)[i].name
        BY <1>1, <2>3, <3>1 DEF StaleNames
      <4> QED
        BY <3>2, <4>1, <4>2
    <3> QED
      BY <3>3, <3>4
  <2> QED
    BY <2>2, <2>3 DEF StaleNames
<1> QED
  BY <1>8, <1>10 DEF AllKept

(* A stop in Remove does no harm to the files of other names.              *)
LEMMA RemoveStopped ==
  ASSUME NEW d, NEW e, NEW j, NEW x, Removing(d, e, j, x)
  PROVE  /\ AllKept(e, x, directory(d)[j].name) /\ AllOld(e, x, directory(d)[j].name)
         /\ StaleNames(x)
<1> DEFINE n == directory(d)[j].name
<1>1. TypedDisk(d) /\ Sound(d) /\ StaleNames(d) /\ Removed(d, e, j) /\ Mixed(d, e, x)
  BY DEF Removing
<1>2. /\ j \in LiveIn(d) /\ j \in Entries /\ directory(e)[j].name = n
      /\ \A i \in Entries \ {j} : SameEntry(d, e, i)
      /\ \A t \in Sectors : t \notin System \ {0, 1} => e[t] = d[t]
  BY <1>1 DEF Removed, LiveIn
<1>3. LiveIn(e) = LiveIn(d) \ {j} /\ \A i \in LiveIn(e) : SameFile(d, e, i)
  BY <1>1, RemovedSound
<1>4. \A i \in Entries \ {j} : SameEntry(d, x, i) /\ SameEntry(e, x, i)
  BY <1>1, <1>2, MixedSame
<1>5. directory(x)[j].name = n
  <2>1. directory(x)[j].name \in {directory(d)[j].name, directory(e)[j].name}
    BY <1>1, <1>2, MixedEntry
  <2> QED
    BY <1>2, <2>1
<1>6. \A i \in Entries : directory(x)[i].name = directory(d)[i].name
  BY <1>4, <1>5 DEF SameEntry
<1>7. LiveIn(e) \subseteq LiveIn(x) /\ LiveIn(x) \subseteq LiveIn(d) /\ LiveIn(d) \subseteq Entries
  BY <1>2, <1>3, <1>4 DEF LiveIn, SameEntry
<1>8. StaleNames(x)
  <2>1. LiveIn(d) \subseteq LiveIn(x) \cup {j}
    BY <1>3, <1>7
  <2> QED
    BY <1>1, <1>6, <1>7, <2>1, RemovedStale
<1>9. \A i \in LiveIn(e) : i \in Entries \ {j} /\ directory(e)[i].name = directory(d)[i].name
  BY <1>2, <1>3, <1>7 DEF SameEntry
<1>10. AllOld(e, x, n)
  <2> SUFFICES ASSUME NEW k \in LiveIn(x), directory(x)[k].name # n
               PROVE  \E i \in LiveIn(e) : directory(e)[i].name = directory(x)[k].name
    BY DEF AllOld
  <2>1. k \in LiveIn(e)
    BY <1>3, <1>5, <1>7
  <2> QED
    BY <1>6, <1>9, <2>1
<1>11. ASSUME NEW i \in LiveIn(e) PROVE Kept(e, x, i)
  <2>1. i \in LiveIn(d) /\ i \in LiveIn(x) /\ SameEntry(e, x, i)
    BY <1>3, <1>4, <1>7, <1>9
  <2>2. ASSUME NEW t \in Uses(e, i) PROVE x[t] = e[t]
    <3>1. t \in Uses(d, i)
      BY <1>3, <2>2, SameUses
    <3>2. t \notin System /\ t \in freeMap(d)
      BY <1>1, <2>1, <3>1, SoundUses
    <3>3. t \in Sectors
      BY <1>1, <3>2, DirectoryTyped
    <3> QED
      BY <1>1, <1>2, <3>2, <3>3 DEF Mixed
  <2>3. ASSUME NEW k \in LiveIn(x), k < i
        PROVE  directory(x)[k].name # directory(e)[i].name
    <3>1. k # i /\ k \in LiveIn(d) /\ k \in Entries
      BY <1>7, <1>9, <2>3, Below
    <3>2. directory(d)[k].name # directory(d)[i].name
      BY <1>1, <2>1, <3>1 DEF Sound
    <3> QED
      BY <1>6, <1>9, <3>1, <3>2
  <2> QED
    BY <2>1, <2>2, <2>3 DEF Kept
<1> QED
  BY <1>8, <1>10, <1>11 DEF AllKept

-----------------------------------------------------------------------------
(* The order of the writes that remain when one is done.                   *)
LEMMA TailOrder ==
  ASSUME NEW list \in Seq(Sectors), list # <<>>
  PROVE  /\ MapLast(list) => MapLast(Tail(list)) /\ (Tail(list) # <<>> => Head(list) # 2)
         /\ Ascending(list) =>
              /\ Ascending(Tail(list))
              /\ 2 \in Range(Tail(list)) => Head(list) \in {0, 1}
<1> DEFINE tl == Tail(list)
           n == Len(list)
<1>1. /\ n \in Nat /\ n > 0 /\ DOMAIN list = 1 .. n /\ Head(list) = list[1]
      /\ Head(list) \in Sectors
      /\ Len(tl) = n - 1 /\ DOMAIN tl = 1 .. n - 1
      /\ \A i \in 1 .. n - 1 : tl[i] = list[i + 1]
      /\ tl # <<>> => n > 1
  BY SMTT(20)
<1>2. Head(list) \in Nat
  BY <1>1, Sizes, SMTT(20) DEF Sectors
<1> HIDE DEF tl, n
<1>3. ASSUME MapLast(list) PROVE MapLast(tl) /\ (tl # <<>> => Head(list) # 2)
  <2>1. \A p \in 1 .. n : p < n => list[p] # 2
    BY <1>1, <1>3 DEF MapLast, n
  <2>2. tl # <<>> => Head(list) # 2
    BY <1>1, <2>1, SMTT(20)
  <2>3. ASSUME NEW p \in 1 .. n - 1, p < n - 1 PROVE tl[p] # 2
    BY <1>1, <2>1, <2>3, SMTT(20)
  <2> QED
    BY <1>1, <2>2, <2>3 DEF MapLast
<1>4. ASSUME Ascending(list)
      PROVE  Ascending(tl) /\ (2 \in Range(tl) => Head(list) \in {0, 1})
  <2>1. \A p, q \in 1 .. n : p < q => list[p] < list[q]
    BY <1>1, <1>4 DEF Ascending
  <2>2. ASSUME NEW p \in 1 .. n - 1, NEW q \in 1 .. n - 1, p < q PROVE tl[p] < tl[q]
    BY <1>1, <2>1, <2>2, SMTT(20)
  <2>3. ASSUME 2 \in Range(tl) PROVE Head(list) \in {0, 1}
    <3>1. PICK q \in 1 .. n - 1 : tl[q] = 2
      BY <1>1, <2>3 DEF Range
    <3>2. list[1] < 2
      BY <1>1, <2>1, <3>1, SMTT(20)
    <3> QED
      BY <1>1, <1>2, <3>2, SMTT(20)
  <2> QED
    BY <1>1, <2>2, <2>3 DEF Ascending
<1> QED
  BY <1>3, <1>4 DEF tl

(* Two lists of writes one after the other.                                *)
LEMMA Joined ==
  ASSUME NEW a, NEW b, NEW m, NEW n, IsList(a, m), IsList(b, n)
  PROVE  IsJoin(a \o b, a, m, b, n)
<1>1. m \in Nat /\ n \in Nat /\ a = [k \in 1 .. m |-> a[k]] /\ b = [k \in 1 .. n |-> b[k]]
  BY DEF IsList
<1> DEFINE c == a \o b
<1>2. c = [k \in 1 .. m + n |-> IF k <= m THEN a[k] ELSE b[k - m]]
  BY <1>1, ConcatLemma, SMTT(20)
<1> HIDE DEF c
<1>3. m + n \in Nat /\ c = [k \in 1 .. m + n |-> c[k]]
  BY <1>1, <1>2, SMTT(20)
<1>4. \A k \in 1 .. m : c[k] = a[k]
  BY <1>1, <1>2, SMTT(20)
<1>5. ASSUME NEW k \in 1 .. n PROVE c[m + k] = b[k]
  <2>1. m + k \in 1 .. m + n /\ ~ (m + k <= m) /\ (m + k) - m = k
    BY <1>1, SMTT(20)
  <2> QED
    BY <1>2, <2>1
<1> QED
  BY <1>3, <1>4, <1>5 DEF IsList, IsJoin, c

(* The sectors that a header, the bitmap and the directory are written to. *)
LEMMA WriteLists ==
  /\ \A s, c : IsList(WriteHeader(s, c), 1) /\ WriteHeader(s, c)[1].sector = s
  /\ \A map : IsList(WriteMap(map), 1) /\ WriteMap(map)[1].sector = 2
  /\ \A table : /\ IsList(WriteDirectory(table), DirSectors)
                /\ \A k \in 1 .. DirSectors : WriteDirectory(table)[k].sector = 2 + k
<1>1. ASSUME NEW s, NEW c PROVE IsList(WriteHeader(s, c), 1) /\ WriteHeader(s, c)[1].sector = s
  BY SMTT(20) DEF WriteHeader, IsList
<1>2. ASSUME NEW map PROVE WriteMap(map) = WriteHeader(2, Map(map))
  BY Layout DEF WriteMap, WriteHeader
<1>3. ASSUME NEW table, NEW k \in 1 .. DirSectors PROVE WriteDirectory(table)[k].sector = 2 + k
  <2> DEFINE t == dirHdr.dataSectors[k]
             c == Piece(Slice(table, k - 1))
  <2>1. WriteDirectory(table)[k] = [sector |-> t, data |-> c]
    BY DEF WriteDirectory
  <2>2. t = 2 + k
    BY Layout
  <2> HIDE DEF t, c
  <2> QED
    BY <2>1, <2>2, SMTT(20)
<1>4. ASSUME NEW table PROVE IsList(WriteDirectory(table), DirSectors)
  BY Layout DEF IsList, WriteDirectory
<1> QED
  BY <1>1, <1>2, <1>3, <1>4

(* Create writes the bitmap last.                                          *)
LEMMA CreateOrder ==
  ASSUME NEW s, s # 2, NEW hdr, NEW table, NEW map,
         NEW list, list = [k \in DOMAIN CreateWrites(s, hdr, table, map) |->
                             CreateWrites(s, hdr, table, map)[k].sector]
  PROVE  MapLast(list)
<1> DEFINE a == WriteHeader(s, hdr)
           b == WriteDirectory(table)
           c == WriteMap(map)
           w == (a \o b) \o c
           n == DirSectors
<1>1. w = CreateWrites(s, hdr, table, map)
  BY DEF CreateWrites
<1>2. /\ IsList(a, 1) /\ a[1].sector = s /\ IsList(c, 1)
      /\ IsList(b, n) /\ \A k \in 1 .. n : b[k].sector = 2 + k
  BY WriteLists
<1>5. n \in Nat
  BY Layout
<1> HIDE DEF a, b, c, n
<1> DEFINE one == 1
           ab == a \o b
<1> HIDE DEF one
<1>3. IsJoin(ab, a, one, b, n)
  BY <1>2, Joined DEF one
<1> HIDE DEF ab
<1>4. IsJoin(w, ab, one + n, c, one)
  <2>1. IsList(ab, one + n) /\ IsList(c, one)
    BY <1>2, <1>3 DEF IsJoin, one
  <2> QED
    BY <2>1, Joined DEF ab
<1> HIDE DEF w
<1>6. ASSUME NEW p \in 1 .. 1 + n PROVE w[p].sector # 2
  <2>1. CASE p = 1
    <3>1. 1 \in 1 .. 1
      BY SMTT(20)
    <3> QED
      BY <1>2, <1>3, <1>4, <2>1, <3>1 DEF IsJoin, one
  <2>2. CASE p # 1
    <3> DEFINE k == p - 1
    <3>1. k \in 1 .. n /\ p = 1 + k /\ 2 + k # 2
      BY <1>5, <2>2, SMTT(20)
    <3> HIDE DEF k
    <3>2. w[p] = b[k]
      BY <1>3, <1>4, <3>1 DEF IsJoin, one
    <3> QED
      BY <1>2, <3>1, <3>2
  <2> QED
    BY <2>1, <2>2
<1>7. DOMAIN w = 1 .. (1 + n) + 1
  BY <1>4 DEF IsJoin, IsList, one
<1>8. list = [k \in 1 .. (1 + n) + 1 |-> w[k].sector]
  BY <1>1, <1>7
<1>9. Len(list) = (1 + n) + 1
  BY <1>5, <1>8, SMTT(20)
<1>10. ASSUME NEW p \in 1 .. (1 + n) + 1, p < (1 + n) + 1 PROVE p \in 1 .. 1 + n
  BY <1>5, <1>10, SMTT(20)
<1> QED
  BY <1>6, <1>8, <1>9, <1>10 DEF MapLast

(* Format writes the sectors of the system in ascending order.             *)
LEMMA FormatOrder ==
  ASSUME NEW junk, NEW list,
         list = [k \in DOMAIN FormatWrites(junk) |-> FormatWrites(junk)[k].sector]
  PROVE  Ascending(list)
<1> DEFINE a == WriteHeader(0, mapHdr)
           b == WriteHeader(1, dirHdr)
           c == WriteMap(System)
           d == WriteDirectory(EmptyTable(junk))
           w == ((a \o b) \o c) \o d
           n == DirSectors
<1>1. w = FormatWrites(junk)
  BY DEF FormatWrites
<1>2. /\ IsList(a, 1) /\ a[1].sector = 0 /\ IsList(b, 1) /\ b[1].sector = 1
      /\ IsList(c, 1) /\ c[1].sector = 2
      /\ IsList(d, n) /\ \A k \in 1 .. n : d[k].sector = 2 + k
  BY WriteLists
<1> HIDE DEF a, b, c, d
<1> DEFINE one == 1
           ab == a \o b
           abc == ab \o c
<1>3. n \in Nat /\ w = abc \o d
  BY Layout
<1> HIDE DEF n, w, one
<1>4. IsJoin(ab, a, one, b, one)
  BY <1>2, Joined DEF one
<1> HIDE DEF ab
<1>5. IsJoin(abc, ab, one + one, c, one)
  <2>1. IsList(ab, one + one) /\ IsList(c, one)
    BY <1>2, <1>4 DEF IsJoin, one
  <2> QED
    BY <2>1, Joined
<1> HIDE DEF abc
<1>6. IsJoin(w, abc, (one + one) + one, d, n)
  <2>1. IsList(abc, (one + one) + one)
    BY <1>5 DEF IsJoin
  <2> QED
    BY <1>2, <1>3, <2>1, Joined
<1>7. one = 1 /\ one + one = 2 /\ 2 + one = 3 /\ 1 \in 1 .. 1 /\ 1 \in 1 .. 2 /\ 2 \in 1 .. 2
      /\ 1 \in 1 .. 3 /\ 2 \in 1 .. 3 /\ 3 \in 1 .. 3
  BY SMTT(20) DEF one
<1>8. /\ IsList(w, 3 + n) /\ w[1] = a[1] /\ w[2] = b[1] /\ w[3] = c[1]
      /\ \A k \in 1 .. n : w[3 + k] = d[k]
  <2>1. ab[1] = a[1] /\ ab[2] = b[1]
    BY <1>4, <1>7 DEF IsJoin
  <2>0. IsJoin(abc, ab, 2, c, 1) /\ IsJoin(w, abc, 3, d, n) /\ 2 + 1 = 3
    BY <1>5, <1>6, <1>7
  <2>2. abc[1] = ab[1] /\ abc[2] = ab[2] /\ abc[3] = c[1]
    BY <1>7, <2>0 DEF IsJoin
  <2>3. /\ IsList(w, 3 + n) /\ w[1] = abc[1] /\ w[2] = abc[2] /\ w[3] = abc[3]
        /\ \A k \in 1 .. n : w[3 + k] = d[k]
    BY <1>7, <2>0 DEF IsJoin
  <2> QED
    BY <2>1, <2>2, <2>3
<1>9. ASSUME NEW p \in 1 .. 3 + n PROVE w[p].sector = p - 1
  <2>1. CASE p \in 1 .. 3
    BY <1>2, <1>8, <2>1, SMTT(20)
  <2>2. CASE p \notin 1 .. 3
    <3> DEFINE k == p - 3
    <3>1. k \in 1 .. n /\ p = 3 + k /\ 2 + k = p - 1
      BY <1>3, <2>2, SMTT(20)
    <3> HIDE DEF k
    <3> QED
      BY <1>2, <1>8, <3>1
  <2> QED
    BY <2>1, <2>2
<1>10. DOMAIN w = 1 .. 3 + n
  BY <1>8 DEF IsList
<1>11. list = [k \in 1 .. 3 + n |-> w[k].sector]
  BY <1>1, <1>10
<1>12. DOMAIN list = 1 .. 3 + n /\ \A p \in 1 .. 3 + n : list[p] = p - 1
  BY <1>9, <1>11
<1> QED
  BY <1>3, <1>12, SMTT(20) DEF Ascending

(* The headers of the system files are read only when the machine starts.  *)
LEMMA SystemHeadersUnused ==
  ASSUME NEW d, NEW e, TypedDisk(e), Sound(e), \A t \in Sectors \ {0, 1} : e[t] = d[t]
  PROVE  directory(e) = directory(d) /\ Sound(d)
<1>1. \A k \in 1 .. DirSectors : 2 + k \in Sectors \ {0, 1}
  BY SystemSectors
<1>2. directory(e) = directory(d)
  BY <1>1, SameDirectory
<1>3. freeMap(d) = freeMap(e)
  <2>1. 2 \in Sectors \ {0, 1}
    BY SystemSectors, SMTT(20)
  <2>2. d[2] = e[2]
    BY <2>1
  <2> QED
    BY <2>2, Layout DEF freeMap
<1>4. LiveIn(d) = LiveIn(e)
  BY <1>2 DEF LiveIn
<1>5. ASSUME NEW i \in LiveIn(e) PROVE SameFile(e, d, i)
  <2>1. directory(e)[i].sector \notin System /\ directory(e)[i].sector \in freeMap(e)
    BY SoundUses
  <2>2. freeMap(e) \subseteq Sectors
    BY DirectoryTyped
  <2>3. directory(e)[i].sector \in Sectors \ {0, 1}
    BY <2>1, <2>2, SystemSectors
  <2> QED
    BY <1>2, <2>3 DEF SameFile, HdrOf, header
<1>6. Sound(d)
  BY <1>3, <1>4, <1>5, SoundSame
<1> QED
  BY <1>2, <1>6

-----------------------------------------------------------------------------
(***************************************************************************)
(* The steps that need no search of the map or of the directory.           *)
(***************************************************************************)
(* When no sector is left to write, the disk is the image.                 *)
LEMMA Settled ==
  ASSUME DiskInv, todo = <<>>
  PROVE  disk = image /\ TypedDisk(disk) /\ (~ crossed => Sound(disk))
<1>1. TypedDisk(disk) /\ TypedDisk(image) /\ Pending(disk, image, <<>>) /\ (~ crossed => Sound(image))
  BY DEF DiskInv
<1>2. disk = image
  BY <1>1, NothingPending
<1> QED
  BY <1>1, <1>2

-----------------------------------------------------------------------------
(* The operation in progress.                                              *)
LEMMA OpFields ==
  /\ Idle.kind = "idle" /\ Off.kind = "off"
  /\ \A k, n : Busy(k, n).kind = k /\ Busy(k, n).name = n
BY SMTT(20) DEF Idle, Off, Busy

(* The kinds of an operation differ.                                       *)
LEMMA KindsApart ==
  /\ {"off", "boot", "format", "stdin", "stdout", "idle", "remove", "overrun", "create", "copy"} = Kinds
  /\ \A k \in {"off", "boot", "format", "stdin", "stdout", "idle", "remove", "overrun"} :
       k \in Kinds /\ k \notin {"create", "copy"} /\ k # "copy"
  /\ "create" # "copy" /\ "create" \in Kinds /\ "copy" \in Kinds
BY SMTT(20) DEF Kinds

(* Outside of a copy there is nothing to say of one.                       *)
LEMMA NotCopying ==
  ASSUME op'.kind \in {"off", "boot", "format", "stdin", "stdout", "idle", "remove", "overrun"}
  PROVE  CopyInv' /\ op'.kind \in Kinds
BY KindsApart DEF CopyInv

(* A step that changes neither the disk nor what is to be written.         *)
LEMMA QuietStep ==
  ASSUME IInv, UNCHANGED <<disk, image, todo, crossed>>, ~ crossed,
         op'.kind \in {"off", "boot", "format", "stdin", "stdout", "idle", "remove", "overrun"}
  PROVE  IInv'
<1>1. CopyInv' /\ op'.kind \in Kinds
  BY NotCopying
<1>2. disk' = disk /\ image' = image /\ todo' = todo /\ crossed' = crossed
  BY SMTT(20)
<1>3. DiskInv
  BY DEF IInv
<1>4. DiskInv'
  BY <1>1, <1>2, <1>3, SMTT(20) DEF DiskInv
<1> QED
  BY <1>1, <1>4 DEF IInv

(* The initial state: a disk that has just been formatted.                 *)
LEMMA InitIInv == Init => IInv
<1> SUFFICES ASSUME Init PROVE IInv
  OBVIOUS
<1> DEFINE z == [s \in Sectors |-> Block([i \in 1 .. SectorSize |-> 0])]
<1>1. PICK junk \in JunkNames : disk = Apply(z, FormatWrites(junk))
  BY DEF Init
<1>2. \A t \in Sectors \ System : TypedSector(t, z[t])
  BY BlockTyped
<1> HIDE DEF z
<1>3. TypedDisk(disk) /\ Sound(disk)
  BY <1>1, <1>2, FormatFormats, SMTT(20)
<1>4. image = disk /\ todo = <<>> /\ op.kind = "off" /\ crossed = FALSE
  BY OpFields DEF Init
<1>5. DiskInv
  <2>1. FALSE \in BOOLEAN
    BY SMTT(20)
  <2>2. Pending(disk, image, todo)
    BY <1>4, EmptyPending
  <2> QED
    BY <1>3, <1>4, <2>1, <2>2, KindsApart DEF DiskInv
<1>6. CopyInv
  BY <1>4, KindsApart DEF CopyInv
<1> QED
  BY <1>5, <1>6 DEF IInv

(* Formatting keeps the invariant, ...                                     *)
LEMMA FormatKeeps ==
  ASSUME IInv, Format
  PROVE  IInv'
<1>1. PICK junk \in JunkNames : Start(FormatWrites(junk))
  BY DEF Format
<1>2. TypedDisk(disk) /\ disk' = disk /\ crossed' = FALSE /\ op' = [kind |-> "format"]
  BY DEF Format, IInv, DiskInv
<1>3. \A t \in Sectors \ System : TypedSector(t, disk[t])
  BY <1>2 DEF TypedDisk
<1> DEFINE e == Apply(disk, FormatWrites(junk))
<1>4. WriteList(FormatWrites(junk)) /\ TypedDisk(e) /\ Sound(e)
  BY <1>3, FormatFormats
<1>5. Pending(disk, image', todo') /\ image' = e
  BY <1>1, <1>4, StartPending
<1>6. op'.kind = "format" /\ FALSE \in BOOLEAN
  BY <1>2, SMTT(20)
<1>7. CopyInv' /\ op'.kind \in Kinds
  <2>1. op'.kind \in {"off", "boot", "format", "stdin", "stdout", "idle", "remove", "overrun"}
    BY <1>6
  <2> QED
    BY <2>1, NotCopying
<1> HIDE DEF e
<1>8. DiskInv'
  BY <1>2, <1>4, <1>5, <1>6, <1>7 DEF DiskInv
<1> QED
  BY <1>7, <1>8 DEF IInv

(* ... and so does the Open of a copy.                                     *)
LEMMA CopyOpenKeeps ==
  ASSUME IInv, CopyOpen
  PROVE  IInv'
<1> DEFINE h == header(disk, Find(directory(disk), op.name))
<1>1. /\ todo = <<>> /\ op.kind = "create" /\ op' = OpenFile(op.name, Find(directory(disk), op.name))
      /\ disk' = disk /\ image' = image /\ todo' = todo /\ crossed' = crossed
  BY SMTT(20) DEF CopyOpen
<1>2. disk = image /\ DiskInv
  BY <1>1, Settled DEF IInv
<1>3. op' = [kind |-> "copy", name |-> op.name, seekPosition |-> 0, hdr |-> h]
  BY <1>1 DEF OpenFile
<1> HIDE DEF h
<1>4. /\ op'.kind = "copy" /\ op'.name = op.name /\ op'.seekPosition = 0 /\ op'.hdr = h
      /\ op' = [kind |-> "copy", name |-> op'.name, seekPosition |-> op'.seekPosition, hdr |-> h]
  BY <1>3, SMTT(20)
<1>5. Target(image, op.name)
  BY <1>1 DEF IInv, CopyInv
<1>6. 0 \in 0 .. Len(Unix[op.name])
  <2>1. Unix[op.name] \in Seq(0 .. 255)
    BY <1>5, FileSystemAssumption DEF Target
  <2>2. Len(Unix[op.name]) \in Nat
    BY <2>1, SMTT(20)
  <2> QED
    BY <2>2, SMTT(20)
<1>7. Arrived(image', op'.hdr, op'.name, op'.seekPosition)
  BY <1>4, SMTT(20) DEF Arrived
<1>8. h = header(image', Find(directory(image'), op'.name))
  BY <1>1, <1>2, <1>4 DEF h
<1>9. CopyInv'
  BY <1>1, <1>4, <1>5, <1>6, <1>7, <1>8 DEF CopyInv
<1>10. DiskInv'
  <2>1. ~ crossed
    BY <1>1, <1>2, SMTT(20) DEF DiskInv
  <2> QED
    BY <1>1, <1>2, <1>4, <2>1, KindsApart DEF DiskInv
<1> QED
  BY <1>9, <1>10 DEF IInv

(* A chunk that WriteAt moves extends what has been copied.                *)
LEMMA ChunkArrives ==
  ASSUME NEW d, TypedDisk(d), Sound(d), NEW n, NEW j, NEW hdr, CopyAt(d, n, j, hdr),
         Unix[n] \in Seq(0 .. 255), NEW p \in Nat, NEW m \in Nat \ {0}, p + m <= Len(Unix[n]),
         Arrived(d, hdr, n, p),
         NEW w, w = WriteAt(d, hdr, SubSeq(Unix[n], p + 1, p + m), p)
  PROVE  WriteList(w) /\ UpTo(d, Apply(d, w), hdr, n, p + m)
<1> DEFINE file == Unix[n]
           chunk == SubSeq(file, p + 1, p + m)
           e == Apply(d, w)
<1>1. j \in LiveIn(d) /\ hdr = HdrOf(d, j) /\ Whole(hdr) /\ hdr.numBytes = Len(file)
  BY DEF CopyAt
<1>2. Len(chunk) = m /\ \A i \in 1 .. m : chunk[i] = file[p + i]
  BY SubSeqLemma, SMTT(20)
<1>3. Fits(hdr, p, m)
  BY <1>1 DEF Fits
<1> HIDE DEF chunk, file
<1>4. w = WriteSeq(d, hdr, chunk, p, m)
  <2>1. WriteAt(d, hdr, chunk, p) = WriteSeq(d, hdr, chunk, p, Len(chunk))
    BY <1>2, <1>3, WriteAtFits
  <2> QED
    BY <1>2, <2>1 DEF chunk, file
<1>5. WriteList(w) /\ WriteWrote(d, e, hdr, chunk, p, m)
  <2>1. /\ WriteList(WriteSeq(d, hdr, chunk, p, m))
        /\ WriteWrote(d, Apply(d, WriteSeq(d, hdr, chunk, p, m)), hdr, chunk, p, m)
    BY <1>3, WriteSeqWrites
  <2> QED
    BY <1>4, <2>1
<1>6. IsDisk(e)
  BY DEF Apply, IsDisk
<1> HIDE DEF e
<1>7. SameFiles(d, e)
  BY <1>1, <1>5, <1>6, WroteSound
<1>8. ASSUME NEW i \in 0 .. (p + m) - 1
      PROVE  DataByte(e, hdr, i) = file[i + 1]
  <2>1. i \in 0 .. hdr.numBytes - 1
    <3>1. Len(file) \in Nat /\ p + m <= Len(file)
      BY SMTT(20) DEF file
    <3> QED
      BY <1>1, <1>8, <3>1, SMTT(20)
  <2>2. DataByte(e, hdr, i) = IF i \in p .. p + m - 1 THEN chunk[i - p + 1] ELSE DataByte(d, hdr, i)
    <3>1. ByteWritten(d, e, hdr, chunk, p, m, i)
      BY <1>3, <1>5, <2>1, WriteByte
    <3> QED
      BY <3>1 DEF ByteWritten
  <2>3. CASE i \in p .. p + m - 1
    <3> DEFINE k == i - p + 1
    <3>1. k \in 1 .. m /\ p + k = i + 1
      BY <2>3, SMTT(20)
    <3> HIDE DEF k
    <3>2. chunk[k] = file[p + k]
      BY <1>2, <3>1
    <3>3. DataByte(e, hdr, i) = chunk[k]
      BY <2>2, <2>3 DEF k
    <3> QED
      BY <3>1, <3>2, <3>3
  <2>4. CASE i \notin p .. p + m - 1
    <3>1. i \in 0 .. p - 1
      BY <1>8, <2>4, SMTT(20)
    <3> QED
      BY <2>2, <2>4, <3>1 DEF Arrived, file
  <2> QED
    BY <2>3, <2>4
<1>9. \A t \in Sectors \ SectorsOf(hdr) : e[t] = d[t]
  BY <1>5 DEF WriteWrote
<1> QED
  BY <1>5, <1>7, <1>8, <1>9 DEF UpTo, Arrived, e, file

(* A sector written keeps the invariant.                                   *)
LEMMA WriteSectorKeeps ==
  ASSUME IInv, WriteSector
  PROVE  IInv'
<1>1. image' = image /\ op' = op /\ crossed' = crossed
  BY SMTT(20) DEF WriteSector
<1>2. DiskInv /\ CopyInv
  BY DEF IInv
<1>3. TypedDisk(disk') /\ Pending(disk', image', todo')
  BY <1>2, WritePending DEF DiskInv
<1>4. DiskInv'
  BY <1>1, <1>2, <1>3 DEF DiskInv
<1>5. CopyInv'
  BY <1>1, <1>2 DEF CopyInv
<1> QED
  BY <1>4, <1>5 DEF IInv

(* SynchDisk::WriteSector.                                                 *)
LEMMA HeadWritten ==
  ASSUME IInv, WriteSector
  PROVE  /\ todo \in Seq(Sectors) /\ todo # <<>> /\ todo' = Tail(todo)
         /\ Range(Tail(todo)) \subseteq Range(todo)
         /\ \A t \in Sectors : /\ disk'[t] = disk[t] \/ disk'[t] = image[t]
                               /\ t # Head(todo) => disk'[t] = disk[t]
<1>1. /\ todo # <<>> /\ todo \in Seq(Sectors) /\ todo' = Tail(todo)
      /\ disk' = [disk EXCEPT ![Head(todo)] = image[Head(todo)]]
  BY DEF WriteSector, IInv, DiskInv, Pending
<1>2. disk = [t \in Sectors |-> disk[t]]
  BY DEF IInv, DiskInv, TypedDisk
<1>3. \A t \in Sectors : disk'[t] = IF t = Head(todo) THEN image[t] ELSE disk[t]
  BY <1>1, <1>2
<1>4. Range(Tail(todo)) \subseteq Range(todo)
  <2> SUFFICES ASSUME NEW t \in Range(Tail(todo)) PROVE t \in Range(todo)
    OBVIOUS
  <2>1. PICK k \in DOMAIN Tail(todo) : Tail(todo)[k] = t
    BY DEF Range
  <2>2. k + 1 \in DOMAIN todo /\ todo[k + 1] = t
    BY <1>1, <2>1, SMTT(20)
  <2> QED
    BY <2>2 DEF Range
<1> QED
  BY <1>1, <1>3, <1>4

-----------------------------------------------------------------------------
(***************************************************************************)
(* Finite sets: the proofs from here on rest on the library's facts.       *)
(***************************************************************************)
INSTANCE FiniteSetTheorems

(* A set of natural numbers that is not empty has a least element.         *)
LEMMA MinLemma ==
  ASSUME NEW T, T \subseteq Nat, T # {}
  PROVE  Min(T) \in T /\ \A k \in T : Min(T) <= k
<1>1. PICK m \in T : \A k \in T : ~ (<<k, m>> \in OpToRel(<, Nat))
  BY WFMin, NatLessThanWellFounded
<1>2. \A k \in T : ~ (k < m)
  BY <1>1 DEF OpToRel
<1>3. \E x \in T : \A y \in T : x =< y
  BY <1>2, SMTT(20)
<1> QED
  BY <1>3 DEF Min

(* The elements of a finite set of numbers have the ranks 0, 1, ...        *)
LEMMA Ranks ==
  ASSUME NEW C, C \subseteq Nat, IsFiniteSet(C),
         NEW k \in 0 .. Cardinality(C) - 1
  PROVE  \E s \in C : Cardinality({t \in C : t < s}) = k
<1> DEFINE n == Cardinality(C)
           below(s) == {t \in C : t < s}
           rank == [s \in C |-> Cardinality(below(s))]
           R == 0 .. n - 1
<1>1. n \in Nat
  BY FS_CardinalityType, SMTT(20)
<1>2. ASSUME NEW s \in C PROVE IsFiniteSet(below(s)) /\ rank[s] \in R
  <2>1. below(s) \in SUBSET C /\ s \notin below(s)
    BY SMTT(20)
  <2>2. /\ IsFiniteSet(below(s)) /\ Cardinality(below(s)) <= n
        /\ n = Cardinality(below(s)) => C = below(s)
    BY <2>1, FS_Subset, SMTT(20)
  <2>3. Cardinality(below(s)) \in Nat /\ Cardinality(below(s)) # n
    BY <2>1, <2>2, FS_CardinalityType, SMTT(20)
  <2> QED
    BY <1>1, <2>2, <2>3, SMTT(20)
<1>3. ASSUME NEW s \in C, NEW t \in C, s < t PROVE rank[s] # rank[t]
  <2>1. below(s) \in SUBSET below(t)
    <3>1. s \in Nat /\ t \in Nat
      OBVIOUS
    <3>2. \A u \in Nat : u < s => u < t
      BY <1>3, <3>1, SMTT(20)
    <3> QED
      BY <3>2
  <2>2. s \in below(t) /\ s \notin below(s)
    BY <1>3, SMTT(20)
  <2>3. Cardinality(below(t)) = Cardinality(below(s)) => below(t) = below(s)
    BY <1>2, <2>1, FS_Subset, SMTT(20)
  <2> QED
    BY <2>2, <2>3, SMTT(20)
<1>4. rank \in Injection(C, R)
  <2>1. rank \in [C -> R]
    BY <1>2, SMTT(20)
  <2>2. ASSUME NEW s \in C, NEW t \in C, rank[s] = rank[t] PROVE s = t
    <3>1. ~ (s < t) /\ ~ (t < s)
      BY <1>3, <2>2, SMTT(20)
    <3> QED
      BY <3>1, SMTT(20)
  <2>3. DOMAIN rank = C
    BY SMTT(20)
  <2>4. IsInjective(rank)
    BY <2>2, <2>3 DEF IsInjective
  <2> QED
    BY <2>1, <2>4 DEF Injection
<1>5. IsFiniteSet(R) /\ Cardinality(R) = n
  BY <1>1, FS_Interval, SMTT(20)
<1>6. rank \in Surjection(C, R)
  BY <1>4, <1>5, FS_Injection, SMTT(20)
<1>7. PICK s \in C : rank[s] = k
  BY <1>6 DEF Surjection
<1> QED
  BY <1>7

(* The clear bits of a bitmap are finitely many.                           *)
LEMMA ClearFinite ==
  ASSUME NEW map
  PROVE  /\ Clear(map) \subseteq Sectors /\ Clear(map) \subseteq Nat
         /\ Clear(map) \cap map = {}
         /\ IsFiniteSet(Clear(map)) /\ NumClear(map) \in Nat
<1>1. IsFiniteSet(Sectors)
  BY Sizes, FS_Interval, SMTT(20) DEF Sectors
<1>2. Clear(map) \in SUBSET Sectors /\ Clear(map) \cap map = {}
  BY SMTT(20) DEF Clear, Test
<1>3. IsFiniteSet(Clear(map))
  BY <1>1, <1>2, FS_Subset, SMTT(20)
<1>4. NumClear(map) \in Nat
  BY <1>3, FS_CardinalityType, SMTT(20) DEF NumClear
<1>5. Sectors \subseteq Nat
  BY Sizes, SMTT(20) DEF Sectors
<1> QED
  BY <1>2, <1>3, <1>4, <1>5

(* FindAndSet finds a clear bit, and one bit less is clear afterwards.     *)
LEMMA FindAndSetLemma ==
  ASSUME NEW map, FindAndSet(map) # -1
  PROVE  /\ FindAndSet(map) \in Clear(map)
         /\ Clear(Mark(map, FindAndSet(map))) = Clear(map) \ {FindAndSet(map)}
         /\ NumClear(Mark(map, FindAndSet(map))) = NumClear(map) - 1
<1>1. Clear(map) # {} /\ FindAndSet(map) = Min(Clear(map))
  BY SMTT(20) DEF FindAndSet
<1>2. FindAndSet(map) \in Clear(map)
  BY <1>1, ClearFinite, MinLemma, SMTT(20)
<1>3. Clear(Mark(map, FindAndSet(map))) = Clear(map) \ {FindAndSet(map)}
  BY SMTT(20) DEF Clear, Mark, Test
<1>4. Cardinality(Clear(map) \ {FindAndSet(map)}) = Cardinality(Clear(map)) - 1
  BY <1>2, ClearFinite, FS_RemoveElement
<1> QED
  BY <1>2, <1>3, <1>4, SMTT(20) DEF NumClear

(* FileHeader::Allocate, when there is room, gives the file sectors that   *)
(* were clear, each once.                                                  *)
LEMMA FirstFitLemma ==
  ASSUME NEW map, NEW n \in Nat, n <= NumClear(map)
  PROVE  /\ FirstFit(map, n) \in Seq(Sectors)
         /\ Len(FirstFit(map, n)) = n
         /\ Range(FirstFit(map, n)) \subseteq Clear(map)
         /\ IsInjective(FirstFit(map, n))
<1> DEFINE C == Clear(map)
           f == FirstFit(map, n)
           rank(s) == Cardinality({t \in C : t < s})
<1>1. ASSUME NEW i \in 1 .. n
      PROVE  f[i] \in C /\ rank(f[i]) = i - 1
  <2>1. i - 1 \in 0 .. Cardinality(C) - 1
    BY ClearFinite, SMTT(20) DEF NumClear
  <2>2. \E s \in C : rank(s) = i - 1
    BY <2>1, ClearFinite, Ranks, SMTT(20)
  <2>3. f[i] = CHOOSE s \in C : rank(s) = i - 1
    BY SMTT(20) DEF FirstFit
  <2> HIDE DEF f
  <2> QED
    BY <2>2, <2>3
<1>2. DOMAIN f = 1 .. n /\ f = [i \in 1 .. n |-> f[i]]
  BY SMTT(20) DEF FirstFit
<1> HIDE DEF f
<1>3. f \in [1 .. n -> Sectors]
  BY <1>1, <1>2, ClearFinite
<1>4. f \in Seq(Sectors) /\ Len(f) = n
  BY <1>2, <1>3, SMTT(20)
<1>5. Range(f) \subseteq C
  BY <1>1, <1>2 DEF Range
<1>6. IsInjective(f)
  <2>1. ASSUME NEW i \in 1 .. n, NEW j \in 1 .. n, f[i] = f[j] PROVE i = j
    <3>1. i - 1 = j - 1
      BY <1>1, <2>1
    <3> QED
      BY <3>1, SMTT(20)
  <2> QED
    BY <1>2, <2>1 DEF IsInjective
<1> QED
  BY <1>4, <1>5, <1>6, SMTT(20) DEF f

-----------------------------------------------------------------------------
(* The number of sectors that a file uses.                                 *)
LEMMA UsesCount ==
  ASSUME NEW hdr, Whole(hdr), NEW s
  PROVE  Cardinality({s} \cup SectorsOf(hdr)) = 1 + Len(hdr.dataSectors)
           <=> s \notin SectorsOf(hdr)
<1> DEFINE ds == hdr.dataSectors
           n == Len(ds)
           D == Range(ds)
<1>1. ds \in Seq(Sectors) /\ IsInjective(ds)
  BY DEF Whole
<1> HIDE DEF ds
<1>2. n \in Nat /\ DOMAIN ds = 1 .. n /\ ds \in [1 .. n -> Sectors]
  BY <1>1, OfSeq
<1> HIDE DEF n
<1>3. ds \in [1 .. n -> D] /\ \A x \in D : \E k \in 1 .. n : ds[k] = x
  BY <1>2 DEF Range
<1>4. ds \in Bijection(1 .. n, D)
  <2>1. ds \in Injection(1 .. n, D)
    BY <1>1, <1>3 DEF Injection
  <2>2. ds \in Surjection(1 .. n, D)
    BY <1>3 DEF Surjection
  <2> QED
    BY <2>1, <2>2 DEF Bijection
<1>5. IsFiniteSet(1 .. n) /\ Cardinality(1 .. n) = n
  <2>1. 1 \in Int /\ n \in Int
    BY <1>2, SMTT(20)
  <2>2. /\ IsFiniteSet(1 .. n)
        /\ Cardinality(1 .. n) = IF 1 > n THEN 0 ELSE n - 1 + 1
    BY <2>1, FS_Interval
  <2> QED
    BY <1>2, <2>2, SMTT(20)
<1>6. ExistsBijection(1 .. n, D)
  BY <1>4 DEF ExistsBijection
<1>7. IsFiniteSet(D) /\ Cardinality(D) = n
  BY <1>5, <1>6, FS_Bijection
<1> HIDE DEF D
<1>8. Cardinality(D \cup {s}) = IF s \in D THEN n ELSE n + 1
  BY <1>7, FS_AddElement
<1>9. Cardinality(D \cup {s}) = 1 + n <=> s \notin D
  BY <1>2, <1>8, SMTT(20)
<1>10. {s} \cup D = D \cup {s}
  OBVIOUS
<1> QED
  BY <1>9, <1>10 DEF SectorsOf, D, n, ds

(* DiskAgrees of the model says what Sound says.                           *)
LEMMA AgreesIsSound ==
  ASSUME NEW d, TypedDisk(d)
  PROVE  Agrees(d) <=> Sound(d)
<1>1. Entries \ Unused(directory(d)) = LiveIn(d)
  <2>1. \A i \in Entries : directory(d)[i].inUse \in BOOLEAN
    BY DirectoryTyped
  <2> QED
    BY <2>1 DEF Unused, LiveIn
<1> DEFINE kinds == \A i \in LiveIn(d) : HdrOf(d, i).kind = "header"
           outside == \A i \in LiveIn(d) : Uses(d, i) \cap System = {}
           marked == freeMap(d) = System \cup UNION {Uses(d, i) : i \in LiveIn(d)}
           count == \A i \in LiveIn(d) :
                      Cardinality(Uses(d, i)) = 1 + Len(HdrOf(d, i).dataSectors)
           apart == \A i, j \in LiveIn(d) : i # j =>
                      /\ Uses(d, i) \cap Uses(d, j) = {}
                      /\ directory(d)[i].name # directory(d)[j].name
           single == \A i \in LiveIn(d) :
                       directory(d)[i].sector \notin SectorsOf(HdrOf(d, i))
           sys == \A i \in LiveIn(d) : directory(d)[i].sector \notin System
           room == \A i \in LiveIn(d) : Len(HdrOf(d, i).dataSectors) <= NumDirect
<1>2. Agrees(d) <=> sys /\ kinds /\ marked /\ outside /\ room /\ count /\ apart
  BY <1>1 DEF Agrees, Uses, HdrOf
<1>3. Sound(d) <=> kinds /\ single /\ outside /\ marked /\ apart
  BY DEF Sound
<1>4. outside => sys
  BY DEF Uses
<1>5. kinds => room /\ (count <=> single)
  <2> SUFFICES ASSUME kinds PROVE room /\ (count <=> single)
    OBVIOUS
  <2>1. ASSUME NEW i \in LiveIn(d)
        PROVE  /\ Len(HdrOf(d, i).dataSectors) <= NumDirect
               /\ Cardinality(Uses(d, i)) = 1 + Len(HdrOf(d, i).dataSectors)
                    <=> directory(d)[i].sector \notin SectorsOf(HdrOf(d, i))
    <3>1. Whole(HdrOf(d, i))
      BY LiveWhole
    <3> QED
      BY <3>1, UsesCount DEF Uses, Whole
  <2> QED
    BY <2>1
<1> QED
  BY <1>2, <1>3, <1>4, <1>5

-----------------------------------------------------------------------------
(***************************************************************************)
(* What Create and Remove do to the files.                                 *)
(***************************************************************************)
(* Directory::Find returns -1 for a name that no live entry has, and       *)
(* otherwise the sector of a live entry with that name.                    *)
LEMMA FindLemma ==
  ASSUME NEW d, TypedDisk(d), NEW n
  PROVE  /\ Find(directory(d), n) = -1 => \A i \in LiveIn(d) : directory(d)[i].name # n
         /\ Find(directory(d), n) # -1 => FileAt(d, n, Min(Found(directory(d), n)))
<1> DEFINE s == Find(directory(d), n)
           F == Found(directory(d), n)
<1>1. F = {i \in LiveIn(d) : directory(d)[i].name = n}
  BY DEF Found, LiveIn
<1>2. s = IF F = {} THEN -1 ELSE directory(d)[Min(F)].sector
  BY DEF Find
<1>3. F \subseteq Entries /\ F \subseteq Nat
  BY <1>1, EntriesNat DEF LiveIn
<1> HIDE DEF F, s
<1>4. CASE F = {}
  <2>1. s = -1 /\ \A i \in LiveIn(d) : directory(d)[i].name # n
    BY <1>1, <1>2, <1>4
  <2> QED
    BY <2>1 DEF s
<1>5. CASE F # {}
  <2>1. Min(F) \in F
    BY <1>3, <1>5, MinLemma
  <2>2. Min(F) \in LiveIn(d) /\ directory(d)[Min(F)].name = n /\ Min(F) \in Entries
    BY <1>1, <1>3, <2>1
  <2>3. s = directory(d)[Min(F)].sector
    BY <1>2, <1>5
  <2>4. s \in Sectors
    BY <2>2, <2>3, DirectoryTyped
  <2>5. s # -1
    BY <2>4, Sizes, SMTT(20) DEF Sectors
  <2> QED
    BY <2>2, <2>3, <2>5 DEF F, s, FileAt
<1> QED
  BY <1>4, <1>5

(* Directory::Add takes the first entry that is not in use.                *)
LEMMA UnusedLemma ==
  ASSUME NEW d, TypedDisk(d), Unused(directory(d)) # {},
         NEW j, j = Min(Unused(directory(d)))
  PROVE  /\ j \in Entries \ LiveIn(d)
         /\ \A i \in Entries : i < j => i \in LiveIn(d)
<1> DEFINE U == Unused(directory(d))
<1>1. U = Entries \ LiveIn(d)
  BY DirectoryTyped DEF Unused, LiveIn
<1>2. U \subseteq Nat
  BY <1>1, EntriesNat
<1>3. j \in U /\ \A k \in U : j <= k
  BY <1>2, MinLemma
<1> HIDE DEF U
<1>4. ASSUME NEW i \in Entries, i < j PROVE i \in LiveIn(d)
  <2>1. i \in Nat /\ j \in Nat
    BY <1>2, <1>3, EntriesNat
  <2>2. ~ (j <= i)
    BY <1>4, <2>1, SMTT(20)
  <2> QED
    BY <1>1, <1>3, <2>2
<1> QED
  BY <1>1, <1>3, <1>4

(* The sectors that Create takes.                                          *)
LEMMA AllocateLemma ==
  ASSUME NEW map, NEW size \in Nat, divRoundUp(size, SectorSize) <= NumDirect,
         FindAndSet(map) # -1,
         ~ (NumClear(map) - 1 < divRoundUp(size, SectorSize)),
         NEW s, s = FindAndSet(map),
         NEW secs, secs = FirstFit(Mark(map, s), divRoundUp(size, SectorSize))
  PROVE  /\ s \in Sectors \ map
         /\ Range(secs) \subseteq Sectors \ (map \cup {s})
         /\ Header(size, secs).kind = "header"
         /\ Header(size, secs).numBytes = size
         /\ Header(size, secs).dataSectors = secs
         /\ Whole(Header(size, secs))
<1> DEFINE n == divRoundUp(size, SectorSize)
           m == Mark(map, s)
<1>1. s \in Clear(map) /\ NumClear(m) = NumClear(map) - 1
  BY FindAndSetLemma
<1>2. n \in Nat
  BY Sizes, DivRoundUp
<1>3. n <= NumClear(m)
  BY <1>1, <1>2, ClearFinite, SMTT(20)
<1>4. secs \in Seq(Sectors) /\ Len(secs) = n /\ Range(secs) \subseteq Clear(m) /\ IsInjective(secs)
  BY <1>2, <1>3, FirstFitLemma
<1>5. Clear(m) \subseteq Sectors \ (map \cup {s}) /\ Clear(map) \subseteq Sectors \ map
  BY DEF Clear, Test, Mark
<1>6. /\ Header(size, secs).kind = "header" /\ Header(size, secs).numBytes = size
      /\ Header(size, secs).dataSectors = secs
  BY SMTT(20) DEF Header
<1>7. Whole(Header(size, secs))
  BY <1>4, <1>6 DEF Whole
<1> HIDE DEF n, m
<1> QED
  BY <1>1, <1>4, <1>5, <1>6, <1>7

(* FileSystem::Create makes a file of the size asked for.                  *)
LEMMA CreateMakes ==
  ASSUME TypedDisk(disk), Sound(disk), NEW n, NEW size \in Nat,
         divRoundUp(size, SectorSize) <= NumDirect, ~ CreateFails(n, size),
         NEW e, e = Apply(disk, CreateList(n, size))
  PROVE  /\ WriteList(CreateList(n, size))
         /\ TypedDisk(e)
         /\ \E j, s : Made(disk, e, n, size, j, s)
         /\ Fresh(disk, n)
<1> DEFINE map == freeMap(disk)
           s == FindAndSet(map)
           secs == FirstFit(Mark(map, s), divRoundUp(size, SectorSize))
           hdr == Header(size, secs)
           j == Min(Unused(directory(disk)))
           table == Add(directory(disk), n, s)
           map2 == Mark(map, s) \cup Range(secs)
           w == CreateList(n, size)
<1>1. /\ Find(directory(disk), n) = -1 /\ s # -1 /\ Unused(directory(disk)) # {}
      /\ ~ (NumClear(map) - 1 < divRoundUp(size, SectorSize))
  BY DEF CreateFails
<1>2. /\ s \in Sectors \ map /\ Range(secs) \subseteq Sectors \ (map \cup {s})
      /\ hdr.kind = "header" /\ hdr.numBytes = size /\ hdr.dataSectors = secs /\ Whole(hdr)
  <2>1. /\ s = FindAndSet(map)
        /\ secs = FirstFit(Mark(map, s), divRoundUp(size, SectorSize))
    BY SMTT(20)
  <2> HIDE DEF map, s, secs
  <2> QED
    BY <1>1, <2>1, AllocateLemma, SMTT(20)
<1>3. j \in Entries \ LiveIn(disk) /\ \A i \in Entries : i < j => i \in LiveIn(disk)
  BY <1>1, UnusedLemma
<1>4. w = CreateWrites(s, hdr, table, map2)
  BY DEF CreateList
<1>5. Added(disk, table, j, n, s)
  BY <1>3, AddLemma
<1>6. map2 = map \cup ({s} \cup SectorsOf(hdr))
  BY <1>2 DEF Mark, SectorsOf
<1>7. System \subseteq map /\ map \subseteq Sectors
  BY DirectoryTyped DEF Sound
<1> HIDE DEF map, s, secs, hdr, j, table, map2, w
<1>8. s \in Sectors \ System
  BY <1>2, <1>7
<1>9. WriteList(w) /\ CreateWrote(disk, e, s, hdr, table, map2)
  <2>1. /\ WriteList(CreateWrites(s, hdr, table, map2))
        /\ CreateWrote(disk, Apply(disk, CreateWrites(s, hdr, table, map2)), s, hdr, table, map2)
    BY <1>8, CreateWritten
  <2> QED
    BY <1>4, <2>1 DEF w
<1>10. \A i \in Entries : /\ directory(e)[i].inUse = table[i].inUse
                          /\ directory(e)[i].sector = table[i].sector
                          /\ directory(e)[i].name = table[i].name
  <2>1. HasDirectory(e, table)
    BY <1>9 DEF CreateWrote
  <2> QED
    BY <2>1, DirectoryWritten, SMTT(20)
<1>11. freeMap(e) = map2
  <2>1. e[2] = Map(map2)
    BY <1>9 DEF CreateWrote
  <2>2. Map(map2).map = map2
    BY SMTT(20) DEF Map
  <2> QED
    BY <2>1, <2>2, Layout DEF freeMap
<1>12. Made(disk, e, n, size, j, s)
  <2>1. \A i \in Entries \ {j} : SameEntry(disk, e, i)
    BY <1>5, <1>10 DEF Added, SameEntry
  <2>2. directory(e)[j].inUse /\ directory(e)[j].sector = s /\ directory(e)[j].name = n
    BY <1>3, <1>5, <1>10 DEF Added
  <2>3. \A t \in Sectors \ System : t # s => e[t] = disk[t]
    BY <1>9 DEF CreateWrote
  <2>4. e[0] = disk[0] /\ e[1] = disk[1]
    BY <1>8, <1>9, SystemSectors DEF CreateWrote
  <2>5. freeMap(e) = freeMap(disk) \cup ({s} \cup SectorsOf(e[s]))
    BY <1>6, <1>9, <1>11 DEF CreateWrote, map
  <2>6. /\ e[s].kind = "header" /\ e[s].numBytes = size /\ Whole(e[s])
        /\ SectorsOf(e[s]) \subseteq Sectors \ (freeMap(disk) \cup {s})
        /\ s \in Sectors \ freeMap(disk)
    BY <1>2, <1>9 DEF CreateWrote, map, SectorsOf
  <2> QED
    BY <1>3, <2>1, <2>2, <2>3, <2>4, <2>5, <2>6 DEF Made
<1>13. TypedDisk(e)
  <2>1. ASSUME NEW t \in Sectors PROVE TypedSector(t, e[t])
    <3>1. CASE t = 2
      <4>1. map2 \subseteq Sectors
        BY <1>2, <1>6, <1>7 DEF SectorsOf
      <4> QED
        BY <1>9, <3>1, <4>1, MapTyped DEF CreateWrote
    <3>2. CASE \E k \in 1 .. DirSectors : t = 2 + k
      <4>1. PICK k \in 1 .. DirSectors : t = 2 + k
        BY <3>2
      <4>2. \A i \in Entries : table[i].inUse \in BOOLEAN /\ table[i].sector \in Sectors
        BY <1>2, <1>5, DirectoryTyped DEF Added
      <4> QED
        BY <1>9, <4>1, <4>2, PieceTyped DEF CreateWrote, HasDirectory
    <3>3. CASE t = s
      BY <1>2, <1>8, <1>9, <3>3, HeaderTyped DEF CreateWrote
    <3>4. CASE t # s /\ t \notin System \ {0, 1}
      BY <1>9, <3>4 DEF CreateWrote, TypedDisk
    <3>5. t \in System \ {0, 1} => t = 2 \/ \E k \in 1 .. DirSectors : t = 2 + k
      BY SystemSectors
    <3> QED
      BY <3>1, <3>2, <3>3, <3>4, <3>5
  <2> QED
    BY <2>1, TypedApply
<1>14. Fresh(disk, n)
  BY <1>1, FindLemma DEF Fresh
<1> QED
  BY <1>9, <1>12, <1>13, <1>14 DEF CreateWrote, w

(* Deallocate finds every sector of the file marked.                       *)
LEMMA RemoveRemoves ==
  ASSUME TypedDisk(disk), Sound(disk), NEW n, Find(directory(disk), n) # -1,
         NEW e, e = Apply(disk, RemoveList(n))
  PROVE  /\ WriteList(RemoveList(n))
         /\ TypedDisk(e)
         /\ SectorsOf(header(disk, Find(directory(disk), n))) \subseteq freeMap(disk)
         /\ \E j : Removed(disk, e, j) /\ directory(disk)[j].name = n
<1> DEFINE s == Find(directory(disk), n)
           hdr == header(disk, s)
           map2 == Unmark(Deallocate(freeMap(disk), hdr), s)
           table == RemoveEntry(directory(disk), n)
           j == Min(Found(directory(disk), n))
           w == RemoveList(n)
<1>1. j \in LiveIn(disk) /\ directory(disk)[j].name = n /\ directory(disk)[j].sector = s
  BY FindLemma DEF FileAt
<1>2. w = RemoveWrites(table, map2)
  BY DEF RemoveList
<1>3. hdr = HdrOf(disk, j) /\ Uses(disk, j) = {s} \cup SectorsOf(hdr)
  BY <1>1 DEF HdrOf, Uses
<1>4. map2 = freeMap(disk) \ Uses(disk, j)
  BY <1>3 DEF Unmark, Deallocate
<1>5. j \in Entries
  BY <1>1 DEF LiveIn
<1>6. /\ table[j].inUse = FALSE
      /\ table[j].sector = directory(disk)[j].sector
      /\ table[j].name = directory(disk)[j].name
      /\ \A i \in Entries \ {j} : table[i] = directory(disk)[i]
  BY <1>1, <1>5, RemoveEntryLemma
<1> HIDE DEF s, hdr, map2, table, w, j
<1>7. WriteList(w) /\ RemoveWrote(disk, e, table, map2)
  <2>1. /\ WriteList(RemoveWrites(table, map2))
        /\ RemoveWrote(disk, Apply(disk, RemoveWrites(table, map2)), table, map2)
    BY RemoveWritten
  <2> QED
    BY <1>2, <2>1 DEF w
<1>8. /\ \A t \in Sectors : t \notin System \ {0, 1} => e[t] = disk[t]
      /\ e[2] = Map(map2) /\ HasDirectory(e, table)
  BY <1>7 DEF RemoveWrote
<1>9. \A i \in Entries : /\ directory(e)[i].inUse = table[i].inUse
                         /\ directory(e)[i].sector = table[i].sector
                         /\ directory(e)[i].name = table[i].name
  BY <1>8, DirectoryWritten, SMTT(20)
<1>10. freeMap(e) = map2
  <2>1. Map(map2).map = map2
    BY SMTT(20) DEF Map
  <2> QED
    BY <1>8, <2>1, Layout DEF freeMap
<1>11. Removed(disk, e, j)
  <2>1. \A i \in Entries \ {j} : SameEntry(disk, e, i)
    BY <1>6, <1>9 DEF SameEntry
  <2>2. /\ directory(e)[j].inUse = FALSE
        /\ directory(e)[j].sector = directory(disk)[j].sector
        /\ directory(e)[j].name = directory(disk)[j].name
    BY <1>5, <1>6, <1>9
  <2> QED
    BY <1>1, <1>4, <1>8, <1>10, <2>1, <2>2 DEF Removed
<1>12. TypedDisk(e)
  <2>1. ASSUME NEW t \in Sectors PROVE TypedSector(t, e[t])
    <3>1. CASE t = 2
      <4>1. map2 \subseteq Sectors
        BY <1>4, DirectoryTyped
      <4> QED
        BY <1>8, <3>1, <4>1, MapTyped
    <3>2. CASE \E k \in 1 .. DirSectors : t = 2 + k
      <4>1. PICK k \in 1 .. DirSectors : t = 2 + k
        BY <3>2
      <4>2. \A i \in Entries : directory(disk)[i].inUse \in BOOLEAN /\ directory(disk)[i].sector \in Sectors
        BY DirectoryTyped
      <4>3. FALSE \in BOOLEAN
        BY SMTT(20)
      <4>4. \A i \in Entries : table[i].inUse \in BOOLEAN /\ table[i].sector \in Sectors
        BY <1>6, <4>2, <4>3
      <4>5. TypedSector(2 + k, Piece(Slice(table, k - 1)))
        BY <4>4, PieceTyped
      <4> QED
        BY <1>8, <4>1, <4>5 DEF HasDirectory
    <3>3. CASE t \notin System \ {0, 1}
      BY <1>8, <3>3 DEF TypedDisk
    <3>4. t \in System \ {0, 1} => t = 2 \/ \E k \in 1 .. DirSectors : t = 2 + k
      BY SystemSectors
    <3> QED
      BY <3>1, <3>2, <3>3, <3>4
  <2> QED
    BY <2>1, TypedApply
<1>13. SectorsOf(hdr) \subseteq freeMap(disk)
  BY <1>1, <1>3, SoundUses
<1> QED
  BY <1>1, <1>7, <1>11, <1>12, <1>13 DEF s, hdr, w

(* Find returns the sector of the live entry with the name.                *)
LEMMA FindIs ==
  ASSUME NEW d, TypedDisk(d), Sound(d), NEW j \in LiveIn(d)
  PROVE  /\ Find(directory(d), directory(d)[j].name) = directory(d)[j].sector
         /\ Find(directory(d), directory(d)[j].name) # -1
<1> DEFINE n == directory(d)[j].name
           m == Min(Found(directory(d), n))
<1>1. Find(directory(d), n) # -1
  BY FindLemma
<1>2. FileAt(d, n, m)
  BY <1>1, FindLemma
<1>3. m \in LiveIn(d) /\ directory(d)[m].name = n /\ directory(d)[m].sector = Find(directory(d), n)
  BY <1>2 DEF FileAt
<1>4. m = j
  BY <1>3 DEF Sound
<1> QED
  BY <1>1, <1>3, <1>4

-----------------------------------------------------------------------------
(***************************************************************************)
(* The bytes under a name.                                                 *)
(***************************************************************************)
(* The file that a copy goes to is the one that Create made.               *)
LEMMA TargetLemma ==
  ASSUME NEW d, TypedDisk(d), Sound(d), NEW n, Target(d, n)
  PROVE  /\ \E j : CopyAt(d, n, j, header(d, Find(directory(d), n)))
         /\ Unix[n] \in Seq(0 .. 255) /\ Len(Unix[n]) \in Nat
<1> DEFINE hdr == header(d, Find(directory(d), n))
           j == Min(Found(directory(d), n))
<1>1. n \in DOMAIN Unix /\ Find(directory(d), n) # -1 /\ hdr.numBytes = Len(Unix[n])
  BY DEF Target
<1>2. FileAt(d, n, j)
  BY <1>1, FindLemma
<1>3. j \in LiveIn(d) /\ directory(d)[j].name = n /\ hdr = HdrOf(d, j)
  BY <1>2 DEF FileAt, HdrOf
<1>4. Whole(hdr)
  <2>1. HdrOf(d, j).kind = "header"
    BY <1>3 DEF Sound
  <2>2. Whole(HdrOf(d, j))
    BY <1>3, <2>1, LiveWhole
  <2> QED
    BY <1>3, <2>2
<1>5. Unix[n] \in Seq(0 .. 255)
  BY <1>1, FileSystemAssumption
<1>6. Len(Unix[n]) \in Nat
  BY <1>5, SMTT(20)
<1>7. CopyAt(d, n, j, hdr)
  BY <1>1, <1>3, <1>4 DEF CopyAt
<1> HIDE DEF hdr, j
<1> QED
  BY <1>5, <1>6, <1>7 DEF hdr

(* The bytes under a name, on a disk that agrees.                          *)
LEMMA FileBytes ==
  ASSUME NEW d, TypedDisk(d), Sound(d), NEW n, Find(directory(d), n) # -1,
         NEW hdr, hdr = header(d, Find(directory(d), n))
  PROVE  /\ Whole(hdr)
         /\ FileOf(d, n) = [i \in 1 .. hdr.numBytes |-> DataByte(d, hdr, i - 1)]
         /\ Len(FileOf(d, n)) = hdr.numBytes
         /\ \A i \in 1 .. hdr.numBytes : FileOf(d, n)[i] = DataByte(d, hdr, i - 1)
<1> DEFINE j == Min(Found(directory(d), n))
<1>1. FileAt(d, n, j)
  BY FindLemma
<1>2. j \in LiveIn(d) /\ hdr = HdrOf(d, j)
  BY <1>1 DEF FileAt, HdrOf
<1>3. hdr.kind = "header"
  BY <1>2 DEF Sound
<1>4. Whole(hdr)
  <2>1. HdrOf(d, j).kind = "header"
    BY <1>2, <1>3
  <2>2. Whole(HdrOf(d, j))
    BY <1>2, <2>1, LiveWhole
  <2> QED
    BY <1>2, <2>2
<1>5. FileOf(d, n) = [i \in 1 .. hdr.numBytes |-> DataByte(d, hdr, i - 1)]
  BY <1>3 DEF FileOf, DataByte
<1>6. hdr.numBytes \in Nat
  BY <1>4 DEF Whole
<1> DEFINE f(i) == DataByte(d, hdr, i - 1)
           N == hdr.numBytes
           file == FileOf(d, n)
<1>7. file = [i \in 1 .. N |-> f(i)]
  BY <1>5
<1> HIDE DEF f, N, file
<1>8. Len(file) = N /\ \A i \in 1 .. N : file[i] = f(i)
  BY <1>6, <1>7, SMTT(20) DEF N
<1> QED
  BY <1>4, <1>5, <1>8 DEF f, N, file

(* What ReadAt returns is a part of the bytes of the file.                 *)
LEMMA ReadIsSlice ==
  ASSUME NEW d, TypedDisk(d), Sound(d), NEW n, Find(directory(d), n) # -1,
         NEW numBytes \in Nat, NEW position \in Nat
  PROVE  ReadsSlice(d, n, numBytes, position)
<1> DEFINE hdr == header(d, Find(directory(d), n))
           file == FileOf(d, n)
           N == hdr.numBytes
           e == Min({Len(file), position + numBytes})
<1>1. /\ Whole(hdr) /\ Len(file) = N
      /\ \A i \in 1 .. N : file[i] = DataByte(d, hdr, i - 1)
  BY FileBytes, SMTT(20)
<1>2. N \in Nat
  BY <1>1 DEF Whole
<1>3. e = IF N <= position + numBytes THEN N ELSE position + numBytes
  BY <1>1, <1>2, MinPair, SMTT(20)
<1>4. e \in Int /\ position + 1 \in Int
  BY <1>2, <1>3, SMTT(20)
<1>5. CASE numBytes <= 0 \/ position >= N
  <2>1. ReadAt(d, hdr, numBytes, position) = <<>>
    BY <1>5 DEF ReadAt
  <2>2. e < position + 1
    BY <1>2, <1>3, <1>5, SMTT(20)
  <2>3. SubSeq(file, position + 1, e) = <<>>
    <3> HIDE DEF e, file
    <3> QED
      BY <1>4, <2>2, SMTT(20)
  <2> QED
    BY <2>1, <2>3 DEF ReadsSlice
<1>6. CASE ~ (numBytes <= 0 \/ position >= N)
  <2> DEFINE m == Min({numBytes, N - position})
             g(i) == DataByte(d, hdr, position + i - 1)
             h(i) == file[i + (position + 1) - 1]
  <2>1. numBytes \in Nat \ {0} /\ position < N
    BY <1>2, <1>6, SMTT(20)
  <2>2. ReadsBytes(d, hdr, numBytes, position)
    BY <1>2, <2>1, ReadAtLemma
  <2>3. ReadAt(d, hdr, numBytes, position) = [i \in 1 .. m |-> g(i)]
    BY <2>2 DEF ReadsBytes
  <2>4. m = 1 + e - (position + 1)
    <3>1. m = IF numBytes <= N - position THEN numBytes ELSE N - position
      BY <1>2, MinPair, SMTT(20)
    <3> HIDE DEF m, e, N
    <3> QED
      BY <1>2, <1>3, <2>1, <3>1, SMTT(20)
  <2>5. ASSUME NEW i \in 1 .. m PROVE g(i) = h(i)
    <3>1. m <= N - position /\ m \in Int
      BY <1>2, MinPair, SMTT(20)
    <3> HIDE DEF m, N, file
    <3>2. i + (position + 1) - 1 \in 1 .. N /\ (i + (position + 1) - 1) - 1 = position + i - 1
      BY <1>2, <2>5, <3>1, SMTT(20)
    <3>3. file[i + (position + 1) - 1] = DataByte(d, hdr, (i + (position + 1) - 1) - 1)
      BY <1>1, <3>2
    <3> QED
      BY <3>2, <3>3
  <2>6. SubSeq(file, position + 1, e) = [i \in 1 .. m |-> h(i)]
    <3> HIDE DEF e, file, m
    <3>1. SubSeq(file, position + 1, e) = [i \in 1 .. (1 + e - (position + 1)) |-> h(i)]
      BY <1>4, SubSeqIs, SMTT(20)
    <3> QED
      BY <2>4, <3>1
  <2> HIDE DEF m, g, h, file, e
  <2>7. [i \in 1 .. m |-> g(i)] = [i \in 1 .. m |-> h(i)]
    BY <2>5
  <2> QED
    BY <2>3, <2>6, <2>7 DEF file, e, ReadsSlice
<1> QED
  BY <1>5, <1>6

(* A file whose entry and sectors are the same has the same bytes; ...     *)
LEMMA FileKept ==
  ASSUME NEW d, TypedDisk(d), Sound(d), NEW e, NEW i \in LiveIn(d), Kept(d, e, i)
  PROVE  SameBytes(d, e, directory(d)[i].name)
<1> DEFINE n == directory(d)[i].name
           s == directory(d)[i].sector
           F == Found(directory(e), n)
           hdr == header(d, s)
<1>1. Find(directory(d), n) = s /\ s # -1
  BY FindIs
<1>2. /\ i \in F /\ F \subseteq Entries /\ directory(e)[i].sector = s
      /\ \A k \in F : k \in LiveIn(e) /\ directory(e)[k].name = n
  BY DEF Found, LiveIn, Kept, SameEntry
<1>3. Min(F) \in F /\ Min(F) <= i /\ Min(F) \in Nat /\ i \in Nat
  BY <1>2, EntriesNat, MinLemma
<1>4. ~ (Min(F) < i)
  BY <1>2, <1>3 DEF Kept
<1>5. Min(F) = i
  BY <1>3, <1>4, SMTT(20)
<1>6. Find(directory(e), n) = s
  BY <1>2, <1>5 DEF Find
<1>7. header(e, s) = hdr /\ \A t \in SectorsOf(hdr) : e[t] = d[t]
  BY DEF Kept, Uses, HdrOf, header
<1>8. hdr.kind = "header" /\ Whole(hdr)
  <2>1. HdrOf(d, i).kind = "header"
    BY DEF Sound
  <2>2. Whole(HdrOf(d, i))
    BY <2>1, LiveWhole
  <2> QED
    BY <2>1, <2>2 DEF HdrOf
<1> DEFINE N == hdr.numBytes
           f(k) == DataByte(d, hdr, k - 1)
           g(k) == DataByte(e, hdr, k - 1)
<1>9. FileOf(e, n) = [k \in 1 .. N |-> g(k)]
  BY <1>1, <1>6, <1>7, <1>8 DEF FileOf, DataByte
<1>10. FileOf(d, n) = [k \in 1 .. N |-> f(k)]
  BY <1>1, <1>8 DEF FileOf, DataByte
<1>11. ASSUME NEW k \in 1 .. N PROVE f(k) = g(k)
  <2>1. N \in Nat
    BY <1>8 DEF Whole
  <2>2. k - 1 \in 0 .. N - 1
    BY <1>11, <2>1, SMTT(20)
  <2>3. ByteToSector(hdr, k - 1) \in SectorsOf(hdr)
    BY <1>8, <2>2, SectorOfByte
  <2>4. e[ByteToSector(hdr, k - 1)] = d[ByteToSector(hdr, k - 1)]
    BY <1>7, <2>3
  <2> QED
    BY <2>4 DEF DataByte, ByteOf
<1> HIDE DEF f, g, N
<1>12. [k \in 1 .. N |-> f(k)] = [k \in 1 .. N |-> g(k)]
  BY <1>11
<1> QED
  BY <1>1, <1>6, <1>9, <1>10, <1>12 DEF SameBytes

(* ... so have all files but one, ...                                      *)
LEMMA FilesStay ==
  ASSUME NEW d, TypedDisk(d), Sound(d), NEW e, NEW n, AllKept(d, e, n)
  PROVE  Stays(d, e, n)
<1> SUFFICES ASSUME NEW m, m # n, Find(directory(d), m) # -1 PROVE SameBytes(d, e, m)
  BY DEF Stays
<1>1. PICK i : FileAt(d, m, i)
  BY FindLemma
<1>2. i \in LiveIn(d) /\ directory(d)[i].name = m
  BY <1>1 DEF FileAt
<1>3. Kept(d, e, i)
  BY <1>2 DEF AllKept
<1> QED
  BY <1>2, <1>3, FileKept

(* ... and where no entry is new no file is.                               *)
LEMMA NoFileNew ==
  ASSUME NEW d, TypedDisk(d), NEW e, TypedDisk(e), NEW n, AllOld(d, e, n)
  PROVE  NoneNew(d, e, n)
<1> SUFFICES ASSUME NEW m, m # n, Find(directory(e), m) # -1
             PROVE  Find(directory(d), m) # -1
  BY DEF NoneNew
<1>1. PICK k : FileAt(e, m, k)
  BY FindLemma
<1>2. k \in LiveIn(e) /\ directory(e)[k].name = m
  BY <1>1 DEF FileAt
<1>3. PICK i \in LiveIn(d) : directory(d)[i].name = m
  BY <1>2 DEF AllOld
<1> QED
  BY <1>3, FindLemma
=============================================================================

----------------------------- MODULE AddrSpace ------------------------------
(***************************************************************************)
(* Address spaces (userprog/addrspace.cc, with RDATA and without USE_TLB)  *)
(* and the translation of addresses (machine/translate.cc).  The memory    *)
(* and the page table of the machine are fields of a record "m".           *)
(***************************************************************************)
EXTENDS Integers, Sequences

CONSTANTS PageSize, NumPhysPages, UserStackSize

ASSUME SpaceAssumption ==
  /\ PageSize \in Nat \ {0} /\ NumPhysPages \in Nat
  /\ UserStackSize \in Nat /\ UserStackSize >= 16

MemorySize == NumPhysPages * PageSize
divRoundUp(n, s) == (n + s - 1) \div s

(* A Segment of a NOFF file: where it goes, and the bytes that the file    *)
(* has for it (none for uninitialized data).                               *)
Covers(seg, addr) == seg.virtualAddr <= addr /\ addr < seg.virtualAddr + seg.size

numPages(noffH) ==
  divRoundUp(noffH.code.size + noffH.readonlyData.size + noffH.initData.size
               + noffH.uninitData.size + UserStackSize,
             PageSize)

(* AddrSpace::AddrSpace and Load: the memory is zeroed, then the segments  *)
(* are read into it, one after the other.                                  *)
Loaded(noffH) ==
  [addr \in 0 .. MemorySize - 1 |->
     LET at(seg) == seg.bytes[addr - seg.virtualAddr + 1] IN
     IF Covers(noffH.readonlyData, addr) THEN at(noffH.readonlyData)
     ELSE IF Covers(noffH.initData, addr) THEN at(noffH.initData)
     ELSE IF Covers(noffH.code, addr) THEN at(noffH.code) ELSE 0]

(* AddrSpace::AddrSpace: virtual page i is physical page i. *)
NewPageTable ==
  [i \in 0 .. NumPhysPages - 1 |->
     [physicalPage |-> i, valid |-> TRUE, readOnly |-> FALSE,
      use |-> FALSE, dirty |-> FALSE]]

(* AddrSpace::InitRegisters *)
InitialStack(noffH) == numPages(noffH) * PageSize - 16

-----------------------------------------------------------------------------
vpn(virtAddr) == virtAddr \div PageSize
PhysAddr(m, virtAddr) ==
  m.pageTable[vpn(virtAddr)].physicalPage * PageSize + (virtAddr % PageSize)

(* Machine::Translate: the exception; size is 1, 2 or 4. *)
Translate(m, virtAddr, size, writing) ==
  LET entry == m.pageTable[vpn(virtAddr)] IN
  IF virtAddr % size # 0 THEN "AddressError"
  ELSE IF vpn(virtAddr) >= m.pageTableSize THEN "AddressError"
  ELSE IF ~ entry.valid THEN "PageFault"
  ELSE IF entry.readOnly /\ writing THEN "ReadOnly"
  ELSE IF entry.physicalPage >= NumPhysPages THEN "BusError" ELSE "NoException"

(* Mutant: a write does not set the dirty bit. *)
TouchUse(m, virtAddr, writing) == [m EXCEPT !.pageTable[vpn(virtAddr)].use = TRUE]

(* ... and the use and dirty bits. *)
Touch(m, virtAddr, writing) ==
  [m EXCEPT !.pageTable[vpn(virtAddr)].use = TRUE,
            !.pageTable[vpn(virtAddr)].dirty = @ \/ writing]

(* AddrSpace::Translate: the exception.  The kernel may use it, though it  *)
(* does not yet; with no exception it sets the bits as Touch does.         *)
SpaceTranslate(m, vaddr, isReadWrite) ==
  LET pte == m.pageTable[vpn(vaddr)] IN
  IF vpn(vaddr) >= m.pageTableSize THEN "AddressError"
  ELSE IF isReadWrite /\ pte.readOnly THEN "ReadOnly"
  ELSE IF pte.physicalPage >= NumPhysPages THEN "BusError" ELSE "NoException"
=============================================================================

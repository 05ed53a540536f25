-------------------------------- MODULE Mips --------------------------------
(***************************************************************************)
(* The instructions of the simulated processor (machine/mipssim.cc, with   *)
(* SIM_FIX) as functions from a state of the machine to the next.  A state *)
(* "m" is a record: the registers, as unsigned words; the memory; the page *)
(* table; and the exception an instruction raised, if any.                 *)
(*                                                                         *)
(* The width is a parameter: a byte has ByteBits bits, a half word two     *)
(* bytes and a word four; ByteBits is 8 in the code.  TargetBits, 26 in    *)
(* the code, is the width of the target field of a jump.                   *)
(***************************************************************************)
EXTENDS AddrSpace, FiniteSets, Bitwise

CONSTANTS ByteBits, TargetBits

WordBits == 4 * ByteBits
Ones(bits) == 2^bits - 1

W(n) == n % 2^WordBits                     \* an int as an unsigned word
Negative(x) == x >= 2^(WordBits - 1)       \* x & SIGN_BIT
I(x) == IF Negative(x) THEN x - 2^WordBits ELSE x      \* a word as an int
Complement(x) == Ones(WordBits) - x        \* ~ x
ShiftLeft(x, n) == W(x * 2^n)
ShiftRight(x, n) == W(I(x) \div 2^n)       \* >> of an int
IndexToAddr(n) == W(4 * n)

R31 == 31
StackReg == 29
HiReg == 32
LoReg == 33
PCReg == 34
NextPCReg == 35
PrevPCReg == 36
LoadReg == 37
LoadValueReg == 38
BadVAddrReg == 39

Set(m, r, value) == [m EXCEPT !.registers[r] = value]

(* Machine::DelayedLoad *)
DelayedLoad(m, nextReg, nextValue) ==
  LET reg == m.registers
      loaded == [reg EXCEPT ![reg[LoadReg]] = reg[LoadValueReg]]
  IN [m EXCEPT !.registers = [loaded EXCEPT ![LoadReg] = nextReg,
                                            ![LoadValueReg] = nextValue,
                                            ![0] = 0]]

(* Machine::RaiseException, up to the exception handler. *)
Raise(m, which, badVAddr) ==
  [DelayedLoad(Set(m, BadVAddrReg, badVAddr), 0, 0) EXCEPT !.exception = which]

(* The end of OneInstruction: the delayed load, and the program counters.  *)
FinishLoad(m, pcAfter, nextLoadReg, nextLoadValue) ==
  LET n == DelayedLoad(m, nextLoadReg, nextLoadValue)
      reg == n.registers
  IN [n EXCEPT !.registers = [reg EXCEPT ![PrevPCReg] = reg[PCReg],
                                         ![PCReg] = reg[NextPCReg],
                                         ![NextPCReg] = pcAfter]]
Finish(m, pcAfter) == FinishLoad(m, pcAfter, 0, 0)

NextPC(m) == W(m.registers[NextPCReg] + 4)
SetAndFinish(m, r, value) == Finish(Set(m, r, value), NextPC(m))

-----------------------------------------------------------------------------
(* Machine::ReadMem: whether there is no exception, the machine after it   *)
(* and the value.  The memory is little-endian.                            *)
ReadMem(m, addr, size) ==
  LET exception == Translate(m, addr, size, FALSE)
      byte(k) == m.mainMemory[PhysAddr(m, addr) + k] * 2^(k * ByteBits)
      value == CASE size = 1 -> byte(0)
                 [] size = 2 -> byte(0) + byte(1)
                 [] size = 4 -> byte(0) + byte(1) + byte(2) + byte(3)
  IN IF exception # "NoException"
       THEN [ok |-> FALSE, machine |-> Raise(m, exception, addr), value |-> 0]
       ELSE [ok |-> TRUE, machine |-> Touch(m, addr, FALSE), value |-> value]

(* Machine::WriteMem, and the end of the instruction. *)
WriteMem(m, addr, size, value) ==
  LET exception == Translate(m, addr, size, TRUE)
      first == PhysAddr(m, addr)
      byte(k) == (value \div 2^(k * ByteBits)) % 2^ByteBits
  IN IF exception # "NoException" THEN Raise(m, exception, addr)
     ELSE Finish([Touch(m, addr, TRUE) EXCEPT
                    !.mainMemory = [a \in DOMAIN @ |->
                       IF a \in first .. first + size - 1 THEN byte(a - first) ELSE @[a]]],
                 NextPC(m))

-----------------------------------------------------------------------------
(* An instruction has an operation, registers rs, rt and rd, and "extra".  *)

rs(m, i) == m.registers[i.rs]
rt(m, i) == m.registers[i.rt]
Address(m, i) == W(rs(m, i) + i.extra)

(* ADD, ADDI, ADDIU, ADDU *)
AddOps(m, i) ==
  LET immediate == i.op \in {"ADDI", "ADDIU"}
      b == IF immediate THEN W(i.extra) ELSE rt(m, i)
      sum == W(rs(m, i) + b)
  IN IF /\ i.op \in {"ADD", "ADDI"}
        /\ ~ Negative(rs(m, i) ^^ b) /\ Negative(b ^^ sum)
       THEN Raise(m, "Overflow", 0)
       ELSE SetAndFinish(m, IF immediate THEN i.rt ELSE i.rd, sum)

(* AND, ANDI *)
AndOps(m, i) ==
  IF i.op = "AND" THEN SetAndFinish(m, i.rd, rs(m, i) & rt(m, i))
  ELSE SetAndFinish(m, i.rt, rs(m, i) & (W(i.extra) & Ones(2 * ByteBits)))

(* BEQ, BGEZAL, BGEZ, BGTZ, BLEZ, BLTZAL, BLTZ, BNE; those that link write *)
(* R31 first.                                                              *)
Branch(m, i) ==
  LET links == i.op \in {"BGEZAL", "BLTZAL"}
      n == IF links THEN Set(m, R31, NextPC(m)) ELSE m
      a == rs(n, i)
      taken == CASE i.op = "BEQ" -> a = rt(n, i)
                 [] i.op = "BNE" -> a # rt(n, i)
                 [] i.op \in {"BGEZ", "BGEZAL"} -> ~ Negative(a)
                 [] i.op \in {"BLTZ", "BLTZAL"} -> Negative(a)
                 [] i.op = "BGTZ" -> I(a) > 0
                 [] i.op = "BLEZ" -> I(a) <= 0
  IN Finish(n, IF taken THEN W(m.registers[NextPCReg] + IndexToAddr(i.extra))
               ELSE NextPC(m))

(* DIV, DIVU.  The division of the host truncates; its result is undefined *)
(* for the least int and -1, where an x86 traps and Nachos dies.           *)
Quotient(a, b) == LET q == (IF a < 0 THEN -a ELSE a) \div (IF b < 0 THEN -b ELSE b)
                  IN IF (a < 0) = (b < 0) THEN q ELSE -q
Divide(m, i) ==
  LET operand(x) == IF i.op = "DIV" THEN I(x) ELSE x
      a == operand(rs(m, i))
      b == operand(rt(m, i))
      q == IF b = 0 THEN 0 ELSE Quotient(a, b)
      r == IF b = 0 THEN 0 ELSE a - q * b
  IN IF b = -1 /\ a = -(2^(WordBits - 1)) THEN [m EXCEPT !.exception = "HostTrap"]
     ELSE Finish(Set(Set(m, LoReg, W(q)), HiReg, W(r)), NextPC(m))

(* JAL, J, JALR, JR *)
Jump(m, i) ==
  LET region == 2^(TargetBits + 2) IN
  CASE i.op \in {"J", "JAL"} ->
         Finish(IF i.op = "JAL" THEN Set(m, R31, NextPC(m)) ELSE m,
                region * (NextPC(m) \div region) + IndexToAddr(i.extra))
    [] i.op \in {"JR", "JALR"} ->
         LET n == IF i.op = "JALR" THEN Set(m, i.rd, NextPC(m)) ELSE m
         IN Finish(n, rs(n, i))

(* LB, LBU, LH, LHU, LW, which load after the next instruction, and LUI.   *)
(* An address that is not aligned raises the exception that Translate      *)
(* would.                                                                  *)
SignExtend(value, bits) ==
  IF value >= 2^(bits - 1) THEN W(value - 2^bits) ELSE value
Load(m, i) ==
  LET size == CASE i.op \in {"LB", "LBU"} -> 1
                [] i.op \in {"LH", "LHU"} -> 2
                [] i.op = "LW" -> 4
      extended(value) == IF i.op \in {"LB", "LH"} THEN SignExtend(value, size * ByteBits)
                         ELSE value
  IN IF i.op = "LUI" THEN SetAndFinish(m, i.rt, ShiftLeft(W(i.extra), 2 * ByteBits))
     ELSE LET read == ReadMem(m, Address(m, i), size) IN
          IF ~ read.ok THEN read.machine
          ELSE FinishLoad(read.machine, NextPC(m), i.rt, extended(read.value))

(* LWL and LWR merge the word they load with what the register holds, or   *)
(* will hold once the load before is done.                                 *)
Held(m, r) ==
  IF m.registers[LoadReg] = r THEN m.registers[LoadValueReg] ELSE m.registers[r]
LoadLeft(m, i) ==
  LET byte == Address(m, i) % 4
      kept == (3 - byte) * ByteBits
      read == ReadMem(m, Address(m, i) - byte, 4)
  IN IF ~ read.ok THEN read.machine
     ELSE FinishLoad(read.machine, NextPC(m), i.rt,
                     (Held(m, i.rt) & Ones(kept)) | ShiftLeft(read.value, kept))

(* Mutant: LWR merges with the register, not with the load before it. *)
LoadRightStale(m, i) ==
  LET byte == Address(m, i) % 4
      loaded == Ones((4 - byte) * ByteBits)
      read == ReadMem(m, Address(m, i) - byte, 4)
  IN IF ~ read.ok THEN read.machine
     ELSE FinishLoad(read.machine, NextPC(m), i.rt,
                     (rt(m, i) & Complement(loaded))
                       | (ShiftRight(read.value, byte * ByteBits) & loaded))

LoadRight(m, i) ==
  LET byte == Address(m, i) % 4
      loaded == Ones((4 - byte) * ByteBits)
      read == ReadMem(m, Address(m, i) - byte, 4)
  IN IF ~ read.ok THEN read.machine
     ELSE FinishLoad(read.machine, NextPC(m), i.rt,
                     (Held(m, i.rt) & Complement(loaded))
                       | (ShiftRight(read.value, byte * ByteBits) & loaded))

(* Mult: "a" is an int that is shifted right, the rest is unsigned. *)
Mult(a, b, signedArith) ==
  LET Abs(x) == IF signedArith /\ Negative(x) THEN W(-x) ELSE x
      negative == signedArith /\ Negative(a) # Negative(b)
      round[k \in 0 .. WordBits] ==
        IF k = 0
          THEN [a |-> Abs(a), bLo |-> Abs(b), bHi |-> 0, lo |-> 0, hi |-> 0, done |-> FALSE]
          ELSE LET s == round[k - 1]
                   add == s.a % 2 = 1
                   lo == IF add THEN W(s.lo + s.bLo) ELSE s.lo
                   carry == IF lo < s.bLo THEN 1 ELSE 0
                   hi == IF add THEN W(s.hi + carry + s.bHi) ELSE s.hi
               IN IF s.done THEN s
                  ELSE IF s.a = 1 THEN [s EXCEPT !.lo = lo, !.hi = hi, !.done = TRUE]
                  ELSE [a |-> ShiftRight(s.a, 1), bLo |-> W(2 * s.bLo),
                        bHi |-> W(2 * s.bHi) | (IF Negative(s.bLo) THEN 1 ELSE 0),
                        lo |-> lo, hi |-> hi, done |-> FALSE]
      s == round[WordBits]
      lo == W(Complement(s.lo) + 1)
  IN IF a = 0 \/ b = 0 THEN [hi |-> 0, lo |-> 0]
     ELSE IF ~ negative THEN [hi |-> s.hi, lo |-> s.lo]
     ELSE [hi |-> W(Complement(s.hi) + (IF lo = 0 THEN 1 ELSE 0)), lo |-> lo]

(* MFHI, MFLO, MTHI, MTLO, MULT, MULTU *)
HiLo(m, i) ==
  LET p == Mult(rs(m, i), rt(m, i), i.op = "MULT") IN
  CASE i.op = "MFHI" -> SetAndFinish(m, i.rd, m.registers[HiReg])
    [] i.op = "MFLO" -> SetAndFinish(m, i.rd, m.registers[LoReg])
    [] i.op = "MTHI" -> SetAndFinish(m, HiReg, rs(m, i))
    [] i.op = "MTLO" -> SetAndFinish(m, LoReg, rs(m, i))
    [] i.op \in {"MULT", "MULTU"} -> Finish(Set(Set(m, HiReg, p.hi), LoReg, p.lo), NextPC(m))

(* NOR, OR, ORI *)
OrOps(m, i) ==
  CASE i.op = "NOR" -> SetAndFinish(m, i.rd, Complement(rs(m, i) | rt(m, i)))
    [] i.op = "OR" -> SetAndFinish(m, i.rd, rs(m, i) | rt(m, i))
    [] i.op = "ORI" ->
         SetAndFinish(m, i.rt, rs(m, i) | (W(i.extra) & Ones(2 * ByteBits)))

(* SB, SH; SW *)
StoreShort(m, i) == WriteMem(m, Address(m, i), IF i.op = "SB" THEN 1 ELSE 2, rt(m, i))
StoreWord(m, i) == WriteMem(m, Address(m, i), 4, rt(m, i))

(* SLL, SLLV; SRA, SRAV, SRL, SRLV: the two last ones shift an int too *)
Amount(m, i) == IF i.op \in {"SLL", "SRA", "SRL"} THEN i.extra ELSE rs(m, i) % WordBits
LeftShifts(m, i) == SetAndFinish(m, i.rd, ShiftLeft(rt(m, i), Amount(m, i)))
RightShifts(m, i) == SetAndFinish(m, i.rd, ShiftRight(rt(m, i), Amount(m, i)))

(* SLT, SLTI, SLTIU, SLTU *)
Compare(m, i) ==
  LET immediate == i.op \in {"SLTI", "SLTIU"}
      b == IF immediate THEN W(i.extra) ELSE rt(m, i)
      less == IF i.op \in {"SLT", "SLTI"} THEN I(rs(m, i)) < I(b) ELSE rs(m, i) < b
  IN SetAndFinish(m, IF immediate THEN i.rt ELSE i.rd, IF less THEN 1 ELSE 0)

(* SUB, SUBU *)
SubOps(m, i) ==
  LET diff == W(rs(m, i) - rt(m, i)) IN
  IF /\ i.op = "SUB"
     /\ Negative(rs(m, i) ^^ rt(m, i)) /\ Negative(rs(m, i) ^^ diff)
    THEN Raise(m, "Overflow", 0)
    ELSE SetAndFinish(m, i.rd, diff)

(* SWL; SWR *)
StoreLeft(m, i) ==
  LET byte == Address(m, i) % 4
      stored == Ones((byte + 1) * ByteBits)
      read == ReadMem(m, Address(m, i) - byte, 4)
  IN IF ~ read.ok THEN read.machine
     ELSE WriteMem(read.machine, Address(m, i) - byte, 4,
                   (read.value & Complement(stored))
                     | (ShiftRight(rt(m, i), (3 - byte) * ByteBits) & stored))
StoreRight(m, i) ==
  LET byte == Address(m, i) % 4
      read == ReadMem(m, Address(m, i) - byte, 4)
  IN IF ~ read.ok THEN read.machine
     ELSE WriteMem(read.machine, Address(m, i) - byte, 4,
                   (read.value & Ones(byte * ByteBits))
                     | ShiftLeft(rt(m, i), byte * ByteBits))

(* XOR, XORI *)
XorOps(m, i) ==
  IF i.op = "XOR" THEN SetAndFinish(m, i.rd, rs(m, i) ^^ rt(m, i))
  ELSE SetAndFinish(m, i.rt, rs(m, i) ^^ (W(i.extra) & Ones(2 * ByteBits)))

(* SYSCALL, and the instructions that are reserved or not implemented. *)
Trap(m, i) == Raise(m, IF i.op = "SYSCALL" THEN "Syscall" ELSE "IllegalInstr", 0)

-----------------------------------------------------------------------------
(* The switch of Machine::OneInstruction. *)
Execute(m, i) ==
  CASE i.op \in {"ADD", "ADDI", "ADDIU", "ADDU"} -> AddOps(m, i)
    [] i.op \in {"AND", "ANDI"} -> AndOps(m, i)
    [] i.op \in {"BEQ", "BNE", "BGEZ", "BGEZAL", "BGTZ", "BLEZ", "BLTZ", "BLTZAL"} -> Branch(m, i)
    [] i.op \in {"DIV", "DIVU"} -> Divide(m, i)
    [] i.op \in {"J", "JAL", "JALR", "JR"} -> Jump(m, i)
    [] i.op \in {"LB", "LBU", "LH", "LHU", "LUI", "LW"} -> Load(m, i)
    [] i.op = "LWL" -> LoadLeft(m, i)
    [] i.op = "LWR" -> LoadRight(m, i)
    [] i.op \in {"MFHI", "MFLO", "MTHI", "MTLO", "MULT", "MULTU"} -> HiLo(m, i)
    [] i.op \in {"NOR", "OR", "ORI"} -> OrOps(m, i)
    [] i.op \in {"SB", "SH"} -> StoreShort(m, i)
    [] i.op = "SW" -> StoreWord(m, i)
    [] i.op \in {"SLL", "SLLV"} -> LeftShifts(m, i)
    [] i.op \in {"SRA", "SRAV", "SRL", "SRLV"} -> RightShifts(m, i)
    [] i.op \in {"SLT", "SLTI", "SLTIU", "SLTU"} -> Compare(m, i)
    [] i.op \in {"SUB", "SUBU"} -> SubOps(m, i)
    [] i.op = "SWL" -> StoreLeft(m, i)
    [] i.op = "SWR" -> StoreRight(m, i)
    [] i.op \in {"XOR", "XORI"} -> XorOps(m, i)
    [] i.op \in {"SYSCALL", "UNIMP", "RES"} -> Trap(m, i)

(* opTable, from bits 31:26, with the format: BCOND is IFMT, SPECIAL RFMT. *)
opTable ==
  <<"SPECIAL", "BCOND", "J", "JAL", "BEQ", "BNE", "BLEZ", "BGTZ",
    "ADDI", "ADDIU", "SLTI", "SLTIU", "ANDI", "ORI", "XORI", "LUI",
    "UNIMP", "UNIMP", "UNIMP", "UNIMP", "RES", "RES", "RES", "RES",
    "RES", "RES", "RES", "RES", "RES", "RES", "RES", "RES",
    "LB", "LH", "LWL", "LW", "LBU", "LHU", "LWR", "RES",
    "SB", "SH", "SWL", "SW", "RES", "RES", "SWR", "RES",
    "UNIMP", "UNIMP", "UNIMP", "UNIMP", "RES", "RES", "RES", "RES",
    "UNIMP", "UNIMP", "UNIMP", "UNIMP", "RES", "RES", "RES", "RES">>

(* specialTable, from the funct field. *)
specialTable ==
  <<"SLL", "RES", "SRL", "SRA", "SLLV", "RES", "SRLV", "SRAV",
    "JR", "JALR", "RES", "RES", "SYSCALL", "UNIMP", "RES", "RES",
    "MFHI", "MTHI", "MFLO", "MTLO", "RES", "RES", "RES", "RES",
    "MULT", "MULTU", "DIV", "DIVU", "RES", "RES", "RES", "RES",
    "ADD", "ADDU", "SUB", "SUBU", "AND", "OR", "XOR", "NOR",
    "RES", "RES", "SLT", "SLTU", "RES", "RES", "RES", "RES",
    "RES", "RES", "RES", "RES", "RES", "RES", "RES", "RES",
    "RES", "RES", "RES", "RES", "RES", "RES", "RES", "RES">>

(* Instruction::Decode; "value" is the word, by its fields. *)
Decode(value) ==
  LET entry == opTable[value.major + 1] IN
  [op |-> CASE entry = "SPECIAL" -> specialTable[value.funct + 1]
            [] entry = "BCOND" -> CASE value.rt = 0 -> "BLTZ"
                                    [] value.rt = 1 -> "BGEZ"
                                    [] value.rt = 16 -> "BLTZAL"
                                    [] value.rt = 17 -> "BGEZAL"
                                    [] OTHER -> "UNIMP"
            [] OTHER -> entry,
   rs |-> value.rs, rt |-> value.rt, rd |-> value.rd,
   extra |-> CASE entry = "SPECIAL" -> value.shamt
               [] entry \in {"J", "JAL"} -> value.target
               [] OTHER -> IF value.immediate >= 2^(2 * ByteBits - 1)
                             THEN value.immediate - 2^(2 * ByteBits)
                             ELSE value.immediate]

(* Machine::OneInstruction, where "value" is what is at the PC. *)
OneInstruction(m, value) ==
  LET read == ReadMem(m, m.registers[PCReg], 4) IN
  IF ~ read.ok THEN read.machine ELSE Execute(read.machine, Decode(value))
=============================================================================

------------------------------ MODULE MipsArch ------------------------------
(***************************************************************************)
(* What a program may rely on: the integer instructions of the MIPS R2000, *)
(* on registers that hold numbers and a memory of SpaceSize bytes.  A load *)
(* takes effect at once, and an instruction that traps has no effect.      *)
(***************************************************************************)
EXTENDS Integers, FiniteSets

CONSTANTS ByteBits, TargetBits, GPRegs

VARIABLES
  gpr, hi, lo,   \* the registers
  pc, npc,       \* the instruction to execute, and the one after it
  mem,           \* the bytes of the address space
  trap, bad,     \* the exception that stopped the program, and its address
  last           \* the last instruction

archVars == <<gpr, hi, lo, pc, npc, mem, trap, bad, last>>

Bits == 4 * ByteBits
W(n) == n % 2^Bits
I(x) == IF x >= 2^(Bits - 1) THEN x - 2^Bits ELSE x
Ints == -(2^(Bits - 1)) .. 2^(Bits - 1) - 1
BitsOf(x) == {k \in 0 .. Bits - 1 : (x \div 2^k) % 2 = 1}
FromBits(S) == CHOOSE x \in 0 .. 2^Bits - 1 : BitsOf(x) = S
ByteOf(x, k) == (x \div 2^(k * ByteBits)) % 2^ByteBits
FromBytes(b) == b[0] + b[1] * 2^ByteBits + b[2] * 2^(2 * ByteBits) + b[3] * 2^(3 * ByteBits)
Abs(n) == IF n < 0 THEN -n ELSE n

-----------------------------------------------------------------------------
Arith == {"ADD", "ADDU", "SUB", "SUBU", "AND", "OR", "XOR", "NOR", "SLT", "SLTU",
          "SLL", "SLLV", "SRA", "SRAV", "SRL", "SRLV", "MFHI", "MFLO"}
Immediate == {"ADDI", "ADDIU", "ANDI", "ORI", "XORI", "SLTI", "SLTIU", "LUI"}
Loads == {"LB", "LBU", "LH", "LHU", "LW", "LWL", "LWR"}
Stores == {"SB", "SH", "SW", "SWL", "SWR"}
Links == {"JAL", "BGEZAL", "BLTZAL"}

Size(i) == CASE i.op \in {"LB", "LBU", "SB"} -> 1
             [] i.op \in {"LH", "LHU", "SH"} -> 2
             [] OTHER -> 4
Address(i) == W(gpr[i.rs] + i.extra)
InSpace(addr) == addr \in DOMAIN mem

(* The operands: the second is a register or the immediate, which the      *)
(* logical instructions extend with zeros.                                 *)
A(i) == gpr[i.rs]
B(i) == IF i.op \notin Immediate THEN gpr[i.rt]
        ELSE IF i.op \in {"ANDI", "ORI", "XORI"} THEN i.extra % 2^(2 * ByteBits)
        ELSE W(i.extra)
Shift(i) == IF i.op \in {"SLL", "SRA", "SRL"} THEN i.extra ELSE A(i) % Bits

Exact(i) == IF i.op = "SUB" THEN I(A(i)) - I(B(i)) ELSE I(A(i)) + I(B(i))

Fault(i) ==
  IF ~ InSpace(pc) \/ pc % 4 # 0 THEN "AddressError"
  ELSE IF i.op = "SYSCALL" THEN "Syscall"
  ELSE IF i.op \in {"UNIMP", "RES"} THEN "IllegalInstr"
  ELSE IF i.op \in {"ADD", "ADDI", "SUB"} /\ Exact(i) \notin Ints THEN "Overflow"
  ELSE IF /\ i.op \in Loads \cup Stores
          /\ \/ ~ InSpace(Address(i))
             \/ i.op \notin {"LWL", "LWR", "SWL", "SWR"} /\ Address(i) % Size(i) # 0
         THEN "AddressError"
  ELSE "none"

FaultAddress(i) ==
  IF ~ InSpace(pc) \/ pc % 4 # 0 THEN pc
  ELSE IF Fault(i) # "AddressError" THEN 0
  ELSE IF i.op \in {"LWL", "LWR", "SWL", "SWR"} THEN Address(i) - (Address(i) % 4)
  ELSE Address(i)

Loaded(i) ==
  LET addr == Address(i)
      byte(k) == mem[addr + k]
      extend(x, n) == IF i.op \in {"LB", "LH"} /\ x >= 2^(n * ByteBits - 1)
                        THEN W(x - 2^(n * ByteBits)) ELSE x
  IN CASE i.op \in {"LB", "LBU"} -> extend(byte(0), 1)
       [] i.op \in {"LH", "LHU"} -> extend(byte(0) + byte(1) * 2^ByteBits, 2)
       [] i.op = "LW" -> FromBytes([k \in 0 .. 3 |-> byte(k)])
       [] i.op = "LWL" ->          \* the bytes up to addr are the most significant
            FromBytes([k \in 0 .. 3 |->
              IF 3 - k <= addr % 4 THEN mem[addr - (3 - k)] ELSE ByteOf(gpr[i.rt], k)])
       [] i.op = "LWR" ->          \* the bytes from addr on are the least significant
            FromBytes([k \in 0 .. 3 |->
              IF k <= 3 - (addr % 4) THEN mem[addr + k] ELSE ByteOf(gpr[i.rt], k)])

Stored(i, a) ==                    \* the byte at address a after a store
  LET addr == Address(i) IN
  CASE i.op \in {"SB", "SH", "SW"} /\ a \in addr .. addr + Size(i) - 1 ->
         ByteOf(gpr[i.rt], a - addr)
    [] i.op = "SWL" /\ a \in addr - (addr % 4) .. addr -> ByteOf(gpr[i.rt], 3 - (addr - a))
    [] i.op = "SWR" /\ a \in addr .. addr + 3 - (addr % 4) -> ByteOf(gpr[i.rt], a - addr)
    [] OTHER -> mem[a]

Result(i) ==
  LET shifted == gpr[i.rt] IN
  CASE i.op \in {"ADD", "ADDI", "ADDU", "ADDIU"} -> W(A(i) + B(i))
    [] i.op \in {"SUB", "SUBU"} -> W(A(i) - B(i))
    [] i.op \in {"AND", "ANDI"} -> FromBits(BitsOf(A(i)) \cap BitsOf(B(i)))
    [] i.op \in {"OR", "ORI"} -> FromBits(BitsOf(A(i)) \cup BitsOf(B(i)))
    [] i.op \in {"XOR", "XORI"} ->
         FromBits({k \in 0 .. Bits - 1 : (k \in BitsOf(A(i))) # (k \in BitsOf(B(i)))})
    [] i.op = "NOR" -> FromBits((0 .. Bits - 1) \ (BitsOf(A(i)) \cup BitsOf(B(i))))
    [] i.op \in {"SLT", "SLTI"} -> IF I(A(i)) < I(B(i)) THEN 1 ELSE 0
    [] i.op \in {"SLTU", "SLTIU"} -> IF A(i) < B(i) THEN 1 ELSE 0
    [] i.op \in {"SLL", "SLLV"} -> W(shifted * 2^Shift(i))
    [] i.op \in {"SRL", "SRLV"} -> shifted \div 2^Shift(i)
    [] i.op \in {"SRA", "SRAV"} -> W(I(shifted) \div 2^Shift(i))
    [] i.op = "LUI" -> W(i.extra * 2^(2 * ByteBits))
    [] i.op = "MFHI" -> hi
    [] i.op = "MFLO" -> lo
    [] i.op \in Loads -> Loaded(i)
    [] OTHER -> W(npc + 4)         \* the return address

Dest(i) ==
  CASE i.op \in Arith \cup {"JALR"} -> i.rd
    [] i.op \in Immediate \cup Loads -> i.rt
    [] i.op \in Links -> 31
    [] OTHER -> 0

Taken(i) ==
  CASE i.op = "BEQ" -> A(i) = gpr[i.rt]
    [] i.op = "BNE" -> A(i) # gpr[i.rt]
    [] i.op \in {"BGEZ", "BGEZAL"} -> I(A(i)) >= 0
    [] i.op \in {"BLTZ", "BLTZAL"} -> I(A(i)) < 0
    [] i.op = "BGTZ" -> I(A(i)) > 0
    [] i.op = "BLEZ" -> I(A(i)) <= 0
    [] OTHER -> FALSE

(* A branch is relative to its delay slot; a jump stays in its region. *)
Target(i) ==
  CASE i.op \in {"J", "JAL"} ->
         2^(TargetBits + 2) * (npc \div 2^(TargetBits + 2)) + 4 * i.extra
    [] i.op \in {"JR", "JALR"} -> A(i)
    [] OTHER -> IF Taken(i) THEN W(npc + 4 * i.extra) ELSE W(npc + 4)

Product(i) ==
  IF i.op = "MULT" THEN I(A(i)) * I(gpr[i.rt]) ELSE A(i) * gpr[i.rt]

(* A quotient and a remainder that has the sign of the dividend; they are  *)
(* not defined if the divisor is 0.                                        *)
Divided(i, q, r) ==
  LET a == IF i.op = "DIV" THEN I(A(i)) ELSE A(i)
      b == IF i.op = "DIV" THEN I(gpr[i.rt]) ELSE gpr[i.rt]
  IN b = 0 \/ \E x \in -(2^Bits) .. 2^Bits :
                /\ Abs(a - x * b) < Abs(b) /\ (a - x * b) * a >= 0
                /\ q = W(x) /\ r = W(a - x * b)

-----------------------------------------------------------------------------
(* Nothing is loaded yet. *)
Init == trap = "off"

Start ==
  /\ trap = "off" /\ trap' = "none"
  /\ gpr' = [r \in GPRegs |-> IF r = 29 THEN gpr'[r] ELSE 0]
  /\ pc' = 0 /\ npc' = 4
  /\ InSpace(gpr[29])'

Execute(i) ==
  /\ trap = "none" /\ last' = i
  /\ trap' = Fault(i)
  /\ IF Fault(i) # "none"
       THEN bad' = FaultAddress(i) /\ UNCHANGED <<gpr, hi, lo, pc, npc, mem>>
       ELSE /\ pc' = npc /\ npc' = Target(i)
            /\ gpr' = [r \in GPRegs |->
                         IF r = Dest(i) /\ r # 0 THEN Result(i) ELSE gpr[r]]
            /\ mem' = [a \in DOMAIN mem |->
                         IF i.op \in Stores THEN Stored(i, a) ELSE mem[a]]
            /\ CASE i.op \in {"MULT", "MULTU"} ->
                      hi' = W(Product(i) \div 2^Bits) /\ lo' = W(Product(i))
                 [] i.op \in {"DIV", "DIVU"} -> Divided(i, lo', hi')
                 [] OTHER -> /\ hi' = IF i.op = "MTHI" THEN A(i) ELSE hi
                             /\ lo' = IF i.op = "MTLO" THEN A(i) ELSE lo
            /\ UNCHANGED bad

(* A system call leaves its result in register 2. *)
Resume ==
  /\ trap = "Syscall" /\ trap' = "none"
  /\ pc' = npc /\ npc' = W(npc + 4)
  /\ gpr' = [gpr EXCEPT ![2] = gpr'[2]]
  /\ UNCHANGED <<hi, lo, mem, bad, last>>

Next == Start \/ Execute(last') \/ Resume

Spec == Init /\ [][Next]_archVars
=============================================================================

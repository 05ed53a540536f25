---------------------------- MODULE UserMachine -----------------------------
(***************************************************************************)
(* A user program on the simulated machine: AddrSpace::Load and Execute,   *)
(* Machine::Run, interrupts between instructions, exceptions and system    *)
(* calls.  The program is not fixed: "Code" is a sequence of sets, and the *)
(* n-th instruction that it executes, at whatever address, is in Code[n].  *)
(***************************************************************************)
EXTENDS Mips

CONSTANTS
  GPRegs,      \* the general registers in use, among them 0, 2, 29 and 31
  Code,        \* the instructions at each step, as [op, rs, rt, rd, extra]
  Executables  \* the headers of the files to load

VARIABLES
  m,          \* the machine
  executed,   \* the number of instructions executed
  last        \* the last one

machineVars == <<m, executed, last>>

Registers == GPRegs \cup 32 .. 39

(* The assembler: the fields of the word of an instruction. *)
Major == [J |-> 2, JAL |-> 3, BEQ |-> 4, BNE |-> 5, BLEZ |-> 6, BGTZ |-> 7, ADDI |-> 8,
          ADDIU |-> 9, SLTI |-> 10, SLTIU |-> 11, ANDI |-> 12, ORI |-> 13, XORI |-> 14,
          LUI |-> 15, LB |-> 32, LH |-> 33, LWL |-> 34, LW |-> 35, LBU |-> 36, LHU |-> 37,
          LWR |-> 38, SB |-> 40, SH |-> 41, SWL |-> 42, SW |-> 43, SWR |-> 46, RES |-> 63]
Cond == [BLTZ |-> 0, BGEZ |-> 1, BLTZAL |-> 16, BGEZAL |-> 17]
Funct == [SLL |-> 0, SRL |-> 2, SRA |-> 3, SLLV |-> 4, SRLV |-> 6, SRAV |-> 7, JR |-> 8,
          JALR |-> 9, SYSCALL |-> 12, UNIMP |-> 13, MFHI |-> 16, MTHI |-> 17, MFLO |-> 18,
          MTLO |-> 19, MULT |-> 24, MULTU |-> 25, DIV |-> 26, DIVU |-> 27, ADD |-> 32,
          ADDU |-> 33, SUB |-> 34, SUBU |-> 35, AND |-> 36, OR |-> 37, XOR |-> 38,
          NOR |-> 39, SLT |-> 42, SLTU |-> 43]
Assemble(i) ==
  [major |-> IF i.op \in DOMAIN Major THEN Major[i.op]
             ELSE IF i.op \in DOMAIN Cond THEN 1 ELSE 0,
   rs |-> i.rs, rt |-> IF i.op \in DOMAIN Cond THEN Cond[i.op] ELSE i.rt, rd |-> i.rd,
   shamt |-> i.extra % WordBits,
   funct |-> IF i.op \in DOMAIN Funct THEN Funct[i.op] ELSE 0,
   immediate |-> i.extra % 2^(2 * ByteBits), target |-> i.extra % 2^TargetBits]

-----------------------------------------------------------------------------
(* Machine::Machine *)
Init ==
  /\ m = [registers |-> [r \in Registers |-> 0],
          mainMemory |-> [a \in 0 .. MemorySize - 1 |-> 0],
          pageTable |-> NewPageTable, pageTableSize |-> 0, exception |-> "off"]
  /\ executed = 0
  /\ last = [op |-> "none"]

(* AddrSpace::Load, which asserts that the program fits, and Execute:      *)
(* InitRegisters, RestoreState, Machine::Run.                              *)
Exec(noffH) ==
  /\ m.exception = "off" /\ numPages(noffH) <= NumPhysPages
  /\ m' = [registers |-> [r \in Registers |->
                            IF r = NextPCReg THEN 4
                            ELSE IF r = StackReg THEN InitialStack(noffH) ELSE 0],
           mainMemory |-> Loaded(noffH), pageTable |-> NewPageTable,
           pageTableSize |-> numPages(noffH), exception |-> "none"]
  /\ UNCHANGED <<executed, last>>

(* What the architecture leaves undefined, and compilers do not generate:  *)
(* the use of a register, or a write to it as rd, in the instruction after *)
(* its load (but LWL and LWR may follow each other), a link register as a  *)
(* source, a branch or a system call in a delay slot, the quotient of the  *)
(* least int and -1.                                                       *)
Pending == m.registers[LoadReg]
Undefined(i) ==
  \/ /\ Pending \in {i.rs, i.rt, i.rd} \ {0}
     /\ ~ (i.op \in {"LWL", "LWR"} /\ Pending \notin {i.rs, i.rd})
  \/ i.op \in {"JAL", "BGEZAL", "BLTZAL"} /\ 31 \in {i.rs, Pending}
  \/ i.op = "JALR" /\ i.rd = i.rs
  \/ /\ i.op \in DOMAIN Cond \cup {"J", "JAL", "JR", "JALR", "BEQ", "BNE", "BLEZ", "BGTZ",
                                   "SYSCALL"}
     /\ m.registers[NextPCReg] # W(m.registers[PCReg] + 4)
  \/ /\ i.op = "DIV" /\ I(m.registers[i.rt]) = -1
     /\ I(m.registers[i.rs]) = -(2^(WordBits - 1))

(* The loop of Machine::Run. *)
Run(i) ==
  /\ m.exception = "none" /\ executed < Len(Code)
  /\ i \in Code[executed + 1] /\ ~ Undefined(i)
  /\ m' = OneInstruction(m, Assemble(i))
  /\ executed' = executed + 1
  /\ last' = i

(* Interrupt::CheckIfDue, between two instructions: "any delayed load must *)
(* get applied before we trap to the kernel" (machine/mipssim.cc).         *)
Interrupt ==
  /\ m.exception = "none"
  /\ m' = DelayedLoad(m, 0, 0)
  /\ UNCHANGED <<executed, last>>

(* The end of a system call in ExceptionHandler. *)
Return(result) ==
  LET pc == W(m.registers[PCReg] + 4) IN
  /\ m.exception = "Syscall"
  /\ m' = [m EXCEPT !.registers = [@ EXCEPT ![2] = result,
                                            ![PrevPCReg] = m.registers[PCReg],
                                            ![PCReg] = pc, ![NextPCReg] = W(pc + 4)],
                    !.exception = "none"]
  /\ UNCHANGED <<executed, last>>

Next ==
  \/ \E noffH \in Executables : Exec(noffH)
  \/ executed < Len(Code) /\ \E i \in Code[executed + 1] : Run(i)
  \/ Interrupt
  \/ \E result \in {0, W(-1)} : Return(result)

Spec == Init /\ [][Next]_machineVars

-----------------------------------------------------------------------------
(* The registers once the pending load is done. *)
Settled == DelayedLoad(m, 0, 0).registers

Arch ==
  INSTANCE MipsArch WITH
    gpr <- [r \in GPRegs |-> Settled[r]],
    hi <- m.registers[HiReg], lo <- m.registers[LoReg],
    pc <- m.registers[PCReg], npc <- m.registers[NextPCReg],
    mem <- [a \in 0 .. m.pageTableSize * PageSize - 1 |-> m.mainMemory[PhysAddr(m, a)]],
    trap <- m.exception, bad <- m.registers[BadVAddrReg]

(* A user program cannot tell the simulator from the processor: delayed    *)
(* loads, exceptions and the interrupts between any two instructions leave *)
(* the state that the architecture manual promises.  Two instructions do   *)
(* not, and the programs leave them out: SRL and SRLV of a negative word   *)
(* shift its sign in (machine/mipssim.cc:520).                             *)
ArchSpec == Arch!Spec

(* Whatever the program has done, an access that is translated lies in the *)
(* memory of the machine (the assertion at the end of Translate) and in    *)
(* the address space; the kernel's AddrSpace::Translate agrees with the    *)
(* machine about it; and a page that is no longer as it was loaded is      *)
(* marked used and dirty.                                                  *)
MemorySafe ==
  m.exception # "off" =>
    /\ \A addr \in 0 .. MemorySize + 3, size \in {1, 2, 4} :
         Translate(m, addr, size, TRUE) = "NoException" =>
           /\ addr + size <= m.pageTableSize * PageSize
           /\ PhysAddr(m, addr) + size <= MemorySize
           /\ SpaceTranslate(m, addr, TRUE) = "NoException"
    /\ \A addr \in 0 .. MemorySize + 3 :
         SpaceTranslate(m, addr, TRUE) = Translate(m, addr, 1, TRUE)
    /\ \E noffH \in Executables : \A addr \in DOMAIN m.mainMemory :
         m.mainMemory[addr] # Loaded(noffH)[addr] =>
           m.pageTable[vpn(addr)].dirty /\ m.pageTable[vpn(addr)].use
=============================================================================

--------------------------- MODULE MCUserMachine ----------------------------
(***************************************************************************)
(* Words of 8 bits, pages of 8 bytes.  A program builds a value in each of *)
(* registers 1 and 2, may start a load, executes any instruction on them,  *)
(* and then two more, so that a load and a branch take effect.             *)
(***************************************************************************)
EXTENDS UserMachine

Instr(ops, regs, extras) ==
  {[op |-> o, rs |-> r[1], rt |-> r[2], rd |-> r[3], extra |-> e] :
     o \in ops, r \in regs, e \in extras}

(* SRL and SRLV are tried on a positive number only, the stack pointer: of *)
(* a negative one the simulator shifts the sign in, not zeros.             *)
MCAll ==
  LET three == {<<1, 2, 3>>, <<2, 1, 1>>, <<1, 1, 0>>}
      two == {<<1, 2, 0>>, <<0, 3, 0>>, <<2, 2, 0>>}
  IN Instr({"ADD", "ADDU", "SUB", "SUBU", "AND", "OR", "XOR", "NOR", "SLT", "SLTU", "SLLV",
            "SRAV", "JALR", "JR", "MFHI", "MFLO", "MTHI", "MTLO", "MULT", "MULTU", "DIV",
            "DIVU"}, three, {0})
     \cup Instr({"SLL", "SRA"}, {<<0, 2, 3>>}, {0, 1, 5})
     \cup Instr({"SRL"}, {<<0, 29, 3>>}, {0, 1, 5}) \cup Instr({"SRLV"}, {<<1, 29, 3>>}, {0})
     \cup Instr({"ADDI", "ADDIU", "ANDI", "ORI", "XORI", "SLTI", "SLTIU", "LUI"}, two, {1, -3})
     \cup Instr({"LB", "LBU", "LH", "LHU", "LW", "LWL", "LWR", "SB", "SH", "SW", "SWL", "SWR"},
                two, {0, 1, 2, 3})
     \cup Instr({"BEQ", "BNE", "BLEZ", "BGTZ", "BLTZ", "BGEZ", "BLTZAL", "BGEZAL"},
                {<<1, 2, 0>>}, {2, -3})
     \cup Instr({"J", "JAL"}, {<<0, 0, 0>>}, {1, 9})
     \cup Instr({"SYSCALL", "UNIMP", "RES"}, {<<0, 0, 0>>}, {0})

Build(r, extras) ==
  <<Instr({"LUI"}, {<<0, r, 0>>}, {0, 7, -8}), Instr({"ADDIU"}, {<<r, r, 0>>}, extras)>>

MCCode ==
  Build(1, {0, 1, 7, -1}) \o Build(2, {0, -1})
    \o <<Instr({"LW"}, {<<0, 3, 0>>}, {4}) \cup Instr({"LWL"}, {<<0, 2, 0>>}, {5})
           \cup Instr({"MULT"}, {<<1, 2, 0>>}, {0}),
         MCAll,
         Instr({"LWR"}, {<<0, 2, 0>>}, {6}) \cup Instr({"ADDU"}, {<<1, 1, 1>>}, {0}),
         Instr({"ADDU"}, {<<1, 0, 3>>}, {0})>>

Segment(addr, bytes) == [virtualAddr |-> addr, size |-> Len(bytes), bytes |-> bytes]
MCExecutables ==
  {[code |-> Segment(0, <<1, 2, 3, 0, 2, 3, 1, 1>>), readonlyData |-> Segment(8, <<3>>),
    initData |-> Segment(9, <<2, 1>>), uninitData |-> [virtualAddr |-> 11, size |-> 3, bytes |-> <<>>]]}
=============================================================================

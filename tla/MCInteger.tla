----------------------------- MODULE MCInteger ------------------------------
(***************************************************************************)
(* Translation with three integer registers, bytes of one bit, and so      *)
(* registers of eight.                                                     *)
(***************************************************************************)
EXTENDS Translation

I(m, rd, rs1, rs2, imm) ==
  [mnem |-> m, rd |-> rd, rs1 |-> rs1, rs2 |-> rs2, rs3 |-> 0, imm |-> imm, rm |-> 0]

(* The instructions of a program lie one after another from 32 on. *)
Placed(is) == [j \in DOMAIN is |-> [addr |-> 28 + 4 * j, next |-> 32 + 4 * j] @@ is[j]]

Plain == DOMAIN Arithmetics \cup DOMAIN Shifts \cup (DOMAIN Products \ {"MULHSU"}) \cup {"SLT", "SLTU"}

(* The destination is another register, one of the operands, or x0; an     *)
(* operand may be x0, or both the same.                                    *)
Patterns == {<<3, 1, 2>>, <<1, 1, 2>>, <<2, 1, 2>>, <<3, 0, 1>>, <<3, 1, 0>>, <<0, 1, 2>>, <<3, 1, 1>>}

Singles ==
  {<<I(m, p[1], p[2], p[3], 0)>> : m \in Plain, p \in Patterns}
  \cup {<<I(m, p[1], p[2], 0, c)>> : m \in DOMAIN Immediates \cup {"SLTI", "SLTIU"},
                                     p \in {<<3, 1>>, <<1, 1>>, <<3, 0>>, <<0, 1>>}, c \in {-8, -1, 0, 1, 7}}
  \cup {<<I(m, p[1], p[2], 0, c)>> : m \in DOMAIN ShiftImmediates, p \in {<<3, 1>>, <<1, 1>>, <<3, 0>>}, c \in {0, 1, 3}}
  \cup {<<I(m, rd, 0, 0, c)>> : m \in DOMAIN Uppers, rd \in {0, 3}, c \in {-16, 16}}
  \cup {<<I(m, p[1], p[2], p[3], 0)>> : m \in DOMAIN Divisions, p \in {<<3, 1, 2>>, <<1, 1, 2>>, <<3, 1, 1>>}}

MemoryOps ==
  {<<I(m, rd, 1, 0, c)>> : m \in {"LB", "LH", "LW", "LD", "LBU", "LHU", "LWU"}, rd \in {1, 3}, c \in {0, 1, -1}}
  \cup {<<I(m, 0, p[1], p[2], c)>> : m \in {"SB", "SH", "SW", "SD"}, p \in {<<1, 2>>, <<1, 1>>, <<1, 0>>}, c \in {0, 1, -1}}
  \cup {<<I(m, rd, 1, 0, 0)>> : m \in DOMAIN Reserves, rd \in {1, 3}}
  \cup {<<I(m, rd, 1, 2, 0)>> : m \in DOMAIN Conditionals \cup {"AMOSWAPW"}, rd \in {2, 3}}
  \cup {<<I(m, rd, 1, 2, 0)>> : m \in {"AMOADDW", "AMOXORW", "AMOORW", "AMOANDW"}, rd \in {2, 3}}
  \cup {<<I("FENCE", 0, 0, 0, 0)>>}

Controls ==
  {<<I(m, 0, p[1], p[2], 16)>> : m \in DOMAIN Branches, p \in {<<1, 2>>, <<1, 0>>, <<0, 2>>, <<1, 1>>}}
  \cup {<<I("JAL", rd, 0, 0, 16)>> : rd \in {0, 1, 3}}
  \cup {<<I("JALR", p[1], p[2], 0, c)>> : p \in {<<0, 1>>, <<1, 1>>, <<3, 1>>, <<1, 2>>, <<0, 2>>}, c \in {0, 3}}
  \cup {<<I("ECALL", 0, 0, 0, 0)>>}

LI(rd, c) == I("ADDI", rd, 0, 0, c)

-----------------------------------------------------------------------------
(* Two instructions, of which the first one defines x3 or the memory that  *)
(* the second one uses; something may jump between them.                   *)

Firsts ==
  {I(m, 3, 1, 2, 0) : m \in {"ADD", "SUBW", "SRLW", "SLTU", "MUL"}}
  \cup {I(m, 3, 1, 0, 1) : m \in {"LD", "LBU", "LW", "SLLIW"}}
  \cup {I("AUIPC", 3, 0, 0, 16), LI(3, 2), LI(3, -8), I("LUI", 3, 0, 0, 16), I("SW", 0, 1, 2, 1), I("SCW", 3, 1, 2, 0)}

Seconds ==
  {I(m, 1, 3, 2, 0) : m \in {"ADD", "ADDW", "SLLW", "SRA", "SLT", "MULHU", "MULW", "DIVU"}}
  \cup {I(m, 3, 2, 3, 0) : m \in {"SUB", "SUBW", "SRL"}}
  \cup {I("ADDIW", 2, 3, 0, 1), I("SRAIW", 3, 3, 0, 1), I("LD", 2, 3, 0, 0), I("LHU", 2, 3, 0, 0), I("LW", 2, 1, 0, 1)}
  \cup {I(m, 0, 1, 3, 0) : m \in {"SB", "SW", "SD"}}
  \cup {I("JALR", 0, 3, 0, 2), I("JALR", 1, 3, 0, 0), I("ECALL", 0, 0, 0, 0)}
  \cup {I(m, 0, 3, 2, 12) : m \in {"BEQ", "BGE", "BLTU"}}

Pairs == {<<i, j>> : i \in Firsts, j \in Seconds}

-----------------------------------------------------------------------------
(* Programs with constants, which are folded.                              *)

Constants == {0, 1, -1, 5}

(* Two operations with a constant on either side, one on the other. *)
Doubles ==
  {<<LI(2, c), I(m, 3, p[1], p[2], 0), I(n, 3, q[1], q[2], 0)>> :
     c \in Constants, m \in {"ADD", "SUB", "SUBW", "AND", "XOR"}, n \in {"ADD", "SUB", "SUBW", "OR", "XOR"},
     p \in {<<1, 2>>, <<2, 1>>}, q \in {<<3, 2>>, <<2, 3>>}}
  \cup {<<I(m, 3, 1, 0, c), I(m, 3, 3, 0, d)>> :
          m \in DOMAIN Immediates, c \in Constants, d \in Constants}

(* Both operands are constants; a division by the same. *)
Folds ==
  {<<LI(2, c), LI(3, d), I(m, 3, 2, 3, 0)>> :
     c \in Constants, d \in Constants, m \in Plain}
  \cup {<<LI(2, c), I(m, 3, 2, 0, d)>> : c \in Constants, d \in {-1, 0, 5}, m \in {"SLTI", "SLTIU"}}
  \cup {<<LI(2, c), I(m, 3, 2, 2, 0)>> : c \in Constants, m \in DOMAIN Divisions}
  \cup {<<LI(2, c), I(m, 3, p[1], p[2], 0)>> :
          c \in Constants, m \in DOMAIN Shifts \cup {"MUL", "MULHU"}, p \in {<<1, 2>>, <<2, 1>>}}
  \cup {<<LI(2, c), I(m, 0, 2, 0, 12)>> : c \in {0, 1}, m \in DOMAIN Branches}
  \cup {<<LI(3, c), I("JALR", rd, 3, 0, 2)>> : c \in {30, 31}, rd \in {0, 1}}

(* Extensions that are cast again, and complements. *)
Casts ==
  {<<I(m, 3, 1, 0, 1), I(n, 3, 3, 0, 0)>> :
     m \in {"ADDIW", "SRLIW", "LBU", "LH"}, n \in {"ADDIW", "SLLIW"}}
  \cup {<<I(m, 3, 1, 0, 0), I(n, 0, 1, 3, 0)>> :
          m \in {"LB", "LBU", "LH", "LHU", "LW", "LWU"}, n \in {"SB", "SH", "SW"}}
  \cup {<<I("XORI", 3, 1, 0, -1), I("XORI", 3, 3, 0, -1), I(m, 3, 3, 2, 0)>> : m \in {"ADD", "ADDW"}}

(* Quotients of constants, which Folds leaves out. *)
Quotients == {<<LI(2, c), LI(3, d), I(m, 3, 2, 3, 0)>> : c \in {6}, d \in {2, 3}, m \in DOMAIN Divisions}

-----------------------------------------------------------------------------
(* Programs whose second instruction, or its parts, repeat the first one:  *)
(* the same operation, another output of it, the same address or memory    *)
(* that changed in between.  The third one reads both results.             *)

Into(rd) ==
  {I(m, rd, p[1], p[2], 0) : m \in {"ADD", "SUB", "SLTU", "SRLW", "ADDW", "DIVU", "REMU"}, p \in {<<1, 2>>, <<2, 1>>}}
  \cup {I("LW", rd, 1, 0, 1), I("LBU", rd, 1, 0, 1), I("ADDI", rd, 1, 0, 1), I("SRAIW", rd, 1, 0, 1)}

Repeats ==
  {<<i, j, I("XOR", 1, 1, 3, 0)>> : i \in Into(3), j \in Into(1)}
  \cup {<<I(m, 3, 1, 0, 1), I("SB", 0, 1, 2, 1), I(m, 2, 1, 0, 1), I("SUB", 3, 3, 2, 0)>> : m \in {"LB", "LW"}}
  \cup {<<I("ADD", 3, 1, 2, 0), I("SLLI", 3, 3, 0, 1), I("ADD", 1, 1, 2, 0), I(m, 1, 1, 0, c), I("SW", 0, 1, 3, 0)>> :
          m \in {"SLLI", "SRLI"}, c \in {1, 2}}

-----------------------------------------------------------------------------
Singly == {Placed(is) : is \in Singles \cup MemoryOps \cup Controls}
Paired == {Placed(is) : is \in Pairs}
Folded == {Placed(is) : is \in Doubles \cup Folds \cup Casts}

Repeated == {Placed(is) : is \in Repeats}

Quotiented == {Placed(is) : is \in Quotients}

MCPrograms == Singly \cup Paired \cup Folded \cup Repeated

MCSyscallArgs == <<1, 2, 3, 1, 2, 3>>
MCSyscall(args) == FoldLeft(LAMBDA s, a : (3 * s + a) % 256, 1, args)
MCFp(name, type, mode, x) == 0

Has(is, m) == \E j \in DOMAIN is : is[j].mnem = m

(* Leaving out loads has no place here for returns and system calls. *)
MCOptions(is) ==
  IF is \in Repeated THEN {{"dedup"}, {"fold", "dedup"}}
  ELSE IF is \in Folded THEN {{"fold"}, {"fold", "dedup"}} ELSE IF is \in Quotiented THEN {{}, {"fold"}}
  ELSE {{}, {"fold"}, {"fold", "dedup"}, {"callRet"}} \cup (IF Has(is, "ECALL") THEN {} ELSE {{"unusedStatic"}})

Values == {0, 1, 2, 127, 128, 200, 255}
Few    == {0, 2, 129, 254}
Reads(is) == UNION {{is[j].rs1, is[j].rs2} : j \in DOMAIN is}

(* A return address is even: lift_jalr does not mask it.                   *)
Returns(is) == \E j \in DOMAIN is : is[j].mnem = "JALR" /\ is[j].imm = 0

MCInputs(is) ==
  LET range == {v \in IF Len(is) = 1 THEN Values ELSE Few : Returns(is) => v % 2 = 0} IN
  {[s \in Statics |-> CASE s = 1 -> v1 [] s = 2 -> v2 [] s = 3 -> 77 [] OTHER -> 0] :
     v1 \in IF 1 \in Reads(is) THEN range ELSE {9}, v2 \in IF 2 \in Reads(is) THEN range ELSE {60}}
MCMemories(is) == {[a \in 0..(MemBytes - 1) |-> (a + a \div 3) % 2]}
MCSplits(is) == is \in Paired
=============================================================================

------------------------------ MODULE Lifting -------------------------------
(***************************************************************************)
(* The lifter's instructions (lifter/instructions/*, instruction_parser,   *)
(* lift_utils): how each RISC-V instruction becomes variables of the block *)
(* that is being lifted.  A handler is written as a script, the sequence   *)
(* of the variables it asks for, by names of its own.                      *)
(***************************************************************************)
EXTENDS Ir, SequencesExt

CONSTANTS
  Programs,       (* Straight-line code: sequences of instructions.         *)
  LinkRegs,       (* x1 and x5.                                             *)
  Options(_)      (* The sets of optimisations a program is translated with. *)

VARIABLE at  (* The next instruction of program. *)

liftVars == <<program, options, at, blocks>>

-----------------------------------------------------------------------------
(* Names for the steps of a script.  n names a variable from then on, or a *)
(* name that is rebound to a variable derived from it.                     *)

Imm(n, x)          == [do |-> "imm", n |-> n, val |-> x]
Get(n, s)          == [do |-> "get", n |-> n, s |-> s]
GetFloat(n, f)     == Get(n, Float(f))
Shrink(n, t)       == [do |-> "shrink", n |-> n, t |-> t]
Convert(n, t)      == [do |-> "convert", n |-> n, t |-> t]
Cast(n, t)         == [do |-> "cast", n |-> n, t |-> t]
Narrow(n, t)       == [do |-> "narrow", n |-> n, t |-> t]
Op(n, v, ins)      == [do |-> "op", n |-> n, v |-> v, ins |-> ins, rm |-> ""]
Rounded(op, rm)    == [op EXCEPT !.rm = rm]
Put(n, s)          == [do |-> "put", n |-> n, s |-> s]
PutFloat(n, f)     == Put(n, Float(f))

(* The variable of an operation; "first" stands for the type of its first  *)
(* operand that has one.                                                   *)
As(op, t, size) == OpVar(op, t, <<>>, size)

(* The names of the memory token and of fcsr stand for what they are       *)
(* mapped to.                                                              *)
IdOf(b, n) == CASE n = "mem"  -> b.map[Mem]
                [] n = "fcsr" -> b.map[Fcsr]
                [] OTHER      -> b.env[n]

VarOf(b, n) == b.vars[IdOf(b, n)]

FirstType(b, ins) ==
  LET typed == SelectSeq(ins, LAMBDA n : VarOf(b, n).type # "imm")
  IN  IF typed = <<>> THEN "i64" ELSE VarOf(b, Head(typed)).type

Bind(b, n, id) == [b EXCEPT !.env = (n :> id) @@ @]
AddVar(b, n, v) ==
  Bind([b EXCEPT !.vars = Append(@, [v EXCEPT !.addr = b.addr])], n, Len(b.vars) + 1)

(* get_from_mapping: x0 is a constant. *)
FromMapping(b, n, s) == IF s = 0 THEN AddVar(b, n, ImmVar(0)) ELSE Bind(b, n, b.map[s])

(* A cast, or an extension, of what n names. *)
Derive(b, op, n, t) ==
  AddVar(b, n, OpVar(op, t, <<IdOf(b, n)>>, VarOf(b, n).type))

(* get_from_mapping_and_shrink: an immediate counts as wide. *)
Shrunk(b, n, t) == IF Narrower(t, VarOf(b, n).type) THEN Derive(b, "cast", n, t) ELSE b

(* convert_type: immediates stay. *)
Converted(b, n, t) ==
  IF VarOf(b, n).type \in {t, "imm"} THEN b
  ELSE Derive(b, IF Narrower(VarOf(b, n).type, t) THEN "sign_extend" ELSE "cast", n, t)

(* Mutant: what is written to x0 is mapped. *)
WrittenAlways(b, n, s) ==
  LET r == IF s = 0 THEN 1 ELSE s IN
  [b EXCEPT !.map[r] = IdOf(b, n), !.vars[IdOf(b, n)].sid = r]

(* write_to_mapping: writes to x0 are ignored. *)
Written(b, n, s) ==
  IF s = 0 THEN b ELSE [b EXCEPT !.map[s] = IdOf(b, n), !.vars[IdOf(b, n)].sid = s]

Step(b, c) ==
  CASE c.do = "imm"     -> AddVar(b, c.n, ImmVar(c.val))
    [] c.do = "get"     -> FromMapping(b, c.n, c.s)
    [] c.do = "shrink"  -> Shrunk(b, c.n, c.t)
    [] c.do = "convert" -> Converted(b, c.n, c.t)
    [] c.do = "cast"    -> IF VarOf(b, c.n).type = c.t THEN b ELSE Derive(b, "cast", c.n, c.t)
    [] c.do = "narrow"  -> IF VarOf(b, c.n).type \in {"imm", "i32", c.t} THEN b
                           ELSE Derive(b, "cast", c.n, "i32")
    [] c.do = "op"      -> AddVar(b, c.n, [c.v EXCEPT
                             !.ins = [j \in DOMAIN c.ins |-> IdOf(b, c.ins[j])],
                             !.insize = IF @ = "first" THEN FirstType(b, c.ins) ELSE @,
                             !.rm = IF c.rm = "" THEN 0 ELSE IdOf(b, c.rm)])
    [] c.do = "put"     -> Written(b, c.n, c.s)

Built(bb, addr, script) ==
  FoldLeft(Step, [vars |-> bb.vars, map |-> bb.map, addr |-> addr, env |-> <<>>], script)

(* What the script makes of the block, its names forgotten. *)
Run(bb, addr, script) ==
  LET b == Built(bb, addr, script) IN [bb EXCEPT !.vars = b.vars, !.map = b.map]

(* A 32 bit result becomes 64 bits by its sign. *)
Widen(n, t, size) == IF t = "i32" THEN <<Op(n, As("sign_extend", "i64", size), <<n>>)>> ELSE <<>>

-----------------------------------------------------------------------------
(* Arithmetic, logic and shifts.                                           *)

Arithmetics ==
  [ADD  |-> <<"add", "i64">>, ADDW |-> <<"add", "i32">>, SUB |-> <<"sub", "i64">>,
   SUBW |-> <<"sub", "i32">>, AND  |-> <<"and", "i64">>, OR  |-> <<"or", "i64">>,
   XOR  |-> <<"xor", "i64">>]
Immediates ==
  [ADDI |-> <<"add", "i64">>, ADDIW |-> <<"add", "i32">>, ANDI |-> <<"and", "i64">>,
   ORI  |-> <<"or", "i64">>,  XORI  |-> <<"xor", "i64">>]
Shifts ==
  [SLL |-> <<"shl", "i64">>, SLLW |-> <<"shl", "i32">>, SRL |-> <<"shr", "i64">>,
   SRLW |-> <<"shr", "i32">>, SRA |-> <<"sar", "i64">>, SRAW |-> <<"sar", "i32">>]
ShiftImmediates ==
  [SLLI |-> <<"shl", "i64">>, SLLIW |-> <<"shl", "i32">>, SRLI |-> <<"shr", "i64">>,
   SRLIW |-> <<"shr", "i32">>, SRAI |-> <<"sar", "i64">>, SRAIW |-> <<"sar", "i32">>]

ArithmeticScript(i) ==
  LET op == Arithmetics[i.mnem][1]
      t  == Arithmetics[i.mnem][2]
  IN  <<Get("a", i.rs1), Get("b", i.rs2), Convert("a", t), Convert("b", t),
        Op("d", As(op, t, t), <<"a", "b">>)>> \o Widen("d", t, "none") \o <<Put("d", i.rd)>>

(* Without a first operand, addition only loads the immediate. *)
ImmediateScript(i) ==
  LET op == Immediates[i.mnem][1]
      t  == Immediates[i.mnem][2]
  IN  IF i.rs1 = 0 /\ op = "add" THEN <<Imm("b", i.imm), Put("b", i.rd)>>
      ELSE <<Imm("b", i.imm), Get("a", i.rs1), Convert("a", t), Op("d", As(op, t, t), <<"a", "b">>)>>
             \o Widen("d", t, "none") \o <<Put("d", i.rd)>>

(* lift_shift_shared. *)
Shifted(i, op, t) ==
  <<Get("a", i.rs1), Shrink("a", t), Op("d", As(op, t, t), <<"a", "n">>)>>
    \o Widen("d", t, "i32") \o <<Put("d", i.rd)>>

ShiftScript(i) ==
  LET op == Shifts[i.mnem][1]
      t  == Shifts[i.mnem][2]
  IN  <<Imm("mask", Width(t) - 1), Get("n", i.rs2), Cast("n", t),
        Op("n", As("and", t, "i64"), <<"n", "mask">>)>> \o Shifted(i, op, t)

ShiftImmediateScript(i) ==
  LET op == ShiftImmediates[i.mnem][1]
      t  == ShiftImmediates[i.mnem][2]
  IN  <<Imm("n", i.imm % Width(t))>> \o Shifted(i, op, t)

(* What is added to the address is known to the lifter, its sum left open. *)
Uppers == [LUI |-> "lui", AUIPC |-> "auipc"]

UpperScript(i) ==
  IF i.mnem = "LUI" THEN <<Imm("d", i.imm), Put("d", i.rd)>>
  ELSE <<Imm("offset", i.imm), Imm("ip", i.addr),
         Op("d", [As("add", "i64", "i64") EXCEPT !.sid = i.rd], <<"ip", "offset">>), Put("d", i.rd)>>

Compares ==
  [SLTI |-> "slt", SLTIU |-> "sltu", SLT |-> "slt", SLTU |-> "sltu"]

CompareScript(i) ==
  <<Get("a", i.rs1), IF i.mnem \in {"SLTI", "SLTIU"} THEN Imm("b", i.imm) ELSE Get("b", i.rs2),
    Imm("one", 1), Imm("zero", 0),
    Op("d", [As(Compares[i.mnem], "i64", "first") EXCEPT !.sid = i.rd], <<"a", "b", "one", "zero">>),
    Put("d", i.rd)>>

-----------------------------------------------------------------------------
(* Products and quotients.                                                 *)

Products ==
  [MUL |-> <<"mul_l", "i64">>, MULH |-> <<"ssmul_h", "i64">>, MULHU |-> <<"uumul_h", "i64">>,
   MULHSU |-> <<"sumul_h", "i64">>, MULW |-> <<"mul_l", "i32">>]
(* The third field is the output: 1 the quotient, 2 the remainder. *)
Divisions ==
  [DIV |-> <<"div", "i64", 1>>, DIVU |-> <<"udiv", "i64", 1>>, DIVW |-> <<"div", "i32", 1>>,
   DIVUW |-> <<"udiv", "i32", 1>>, REM |-> <<"div", "i64", 2>>, REMU |-> <<"udiv", "i64", 2>>,
   REMW |-> <<"div", "i32", 2>>, REMUW |-> <<"udiv", "i32", 2>>]

ProductScript(i) ==
  LET op == Products[i.mnem][1]
      t  == Products[i.mnem][2]
  IN  <<Get("a", i.rs1), Convert("a", t), Get("b", i.rs2), Convert("b", t),
        Op("d", As(op, t, t), <<"a", "b">>)>> \o Widen("d", t, "i32") \o <<Put("d", i.rd)>>

DivisionScript(i) ==
  LET op  == Divisions[i.mnem][1]
      t   == Divisions[i.mnem][2]
      out == Divisions[i.mnem][3]
  IN  <<Get("a", i.rs1), Convert("a", t), Get("b", i.rs2), Convert("b", t),
        Op("d", [As(op, t, t) EXCEPT !.out = out], <<"a", "b">>)>>
        \o Widen("d", t, "i32") \o <<Put("d", i.rd)>>

-----------------------------------------------------------------------------
(* Memory.                                                                 *)

Loads ==
  [LB  |-> <<"i8", "sign_extend">>,  LH  |-> <<"i16", "sign_extend">>, LW |-> <<"i32", "sign_extend">>,
   LD  |-> <<"i64", "sign_extend">>, LBU |-> <<"i8", "zero_extend">>, LHU |-> <<"i16", "zero_extend">>,
   LWU |-> <<"i32", "zero_extend">>, FLW |-> <<"f32", "zero_extend">>, FLD |-> <<"f64", "zero_extend">>]
Stores ==
  [SB |-> "i8", SH |-> "i16", SW |-> "i32", SD |-> "i64", FSW |-> "f32", FSD |-> "f64"]

AddressScript(i) ==
  IF i.imm = 0 THEN <<Get("addr", i.rs1)>>
  ELSE <<Imm("offset", i.imm), Get("base", i.rs1),
         Op("addr", As("add", "i64", "i64"), <<"base", "offset">>)>>

LoadScript(i) ==
  LET t   == Loads[i.mnem][1]
      ext == Loads[i.mnem][2]
  IN  AddressScript(i)
        \o <<Op("d", As("load", t, "i64"), <<"addr", "mem">>)>>
        \o (IF Narrower(t, "i64") THEN <<Op("d", As(ext, "i64", t), <<"d">>)>> ELSE <<>>)
        \o <<IF t \in Floats THEN PutFloat("d", i.rd) ELSE Put("d", i.rd)>>

(* Mutant: the memory token of the store is not mapped. *)
StoreOfUnmapped(i, t) ==
  AddressScript(i)
    \o <<IF t \in Floats THEN GetFloat("v", i.rs2) ELSE Get("v", i.rs2), Shrink("v", t),
         Op("m", As("store", "mt", t), <<"addr", "v", "mem">>)>>

StoreOf(i, t) ==
  AddressScript(i)
    \o <<IF t \in Floats THEN GetFloat("v", i.rs2) ELSE Get("v", i.rs2), Shrink("v", t),
         Op("m", As("store", "mt", t), <<"addr", "v", "mem">>), Put("m", Mem)>>

StoreScript(i) == StoreOf(i, Stores[i.mnem])

-----------------------------------------------------------------------------
(* Atomic operations, which are not atomic.                                *)

Reserves == [LRW |-> "i32", LRD |-> "i64"]
Conditionals == [SCW |-> "i32", SCD |-> "i64"]
Swaps == [AMOSWAPW |-> "i32", AMOSWAPD |-> "i64"]
Atomics ==
  [AMOADDW |-> <<"add", "i32">>, AMOADDD |-> <<"add", "i64">>, AMOXORW |-> <<"xor", "i32">>,
   AMOXORD |-> <<"xor", "i64">>, AMOORW |-> <<"or", "i32">>, AMOORD |-> <<"or", "i64">>,
   AMOANDW |-> <<"and", "i32">>, AMOANDD |-> <<"and", "i64">>, AMOMINW |-> <<"min", "i32">>,
   AMOMIND |-> <<"min", "i64">>, AMOMINUW |-> <<"umin", "i32">>, AMOMINUD |-> <<"umin", "i64">>,
   AMOMAXW |-> <<"max", "i32">>, AMOMAXD |-> <<"max", "i64">>, AMOMAXUW |-> <<"umax", "i32">>,
   AMOMAXUD |-> <<"umax", "i64">>]

(* load_rs1_to_rd: d stays what was loaded. *)
Reserved(i, t) ==
  <<Get("addr", i.rs1), Op("d", As("load", t, "none"), <<"addr", "mem">>)>>
    \o (IF t = "i32" THEN <<Op("w", As("sign_extend", "i64", t), <<"d">>), Put("w", i.rd)>>
                     ELSE <<Put("d", i.rd)>>)

(* store_val_to_rs1 lends rs2 to what is stored. *)
StoredBack(i, t, value) ==
  <<Get("real", i.rs2), Put(value, i.rs2)>>
    \o StoreOf([i EXCEPT !.imm = 0], t) \o <<Put("real", i.rs2)>>

ReserveScript(i) == Reserved(i, Reserves[i.mnem])

ConditionalScript(i) ==
  <<Get("old", i.rs2)>> \o StoredBack(i, Conditionals[i.mnem], "old")
    \o <<Imm("zero", 0), Put("zero", i.rd)>>

SwapScript(i) ==
  <<Get("old", i.rs2)>> \o Reserved(i, Swaps[i.mnem]) \o StoredBack(i, Swaps[i.mnem], "old")

AtomicScript(i) ==
  LET op == Atomics[i.mnem][1]
      t  == Atomics[i.mnem][2]
  IN  <<Get("old", i.rs2)>> \o Reserved(i, t)
        \o <<Narrow("old", t), Op("r", As(op, t, t), <<"d", "old">>)>> \o StoredBack(i, t, "r")

-----------------------------------------------------------------------------
(* fcsr: 1 names its flags, 2 its rounding mode and 3 all of it.           *)

I32(op) == As(op, "i32", "i32")

(* get_csr. *)
CsrRead(n, csr) ==
  CASE csr = 1 -> <<Imm("mask", 5), Op(n, I32("and"), <<"fcsr", "mask">>)>>
    [] csr = 2 -> <<Imm("width", 5), Op("shifted", I32("shr"), <<"fcsr", "width">>),
                    Imm("mask", 7), Op(n, I32("and"), <<"shifted", "mask">>)>>
    [] csr = 3 -> <<Get(n, Fcsr)>>

(* write_csr. *)
CsrWritten(n, csr) ==
  CASE csr = 1 -> <<Imm("mask", Pow("i32") - 32), Op("kept", I32("and"), <<"fcsr", "mask">>),
                    Imm("mask", 31), Op("flags", I32("and"), <<n, "mask">>),
                    Op("new", I32("or"), <<"kept", "flags">>), Put("new", Fcsr)>>
    [] csr = 2 -> <<Imm("width", 5), Op("shifted", I32("shl"), <<n, "width">>),
                    Imm("mask", Pow("i32") - 225), Op("kept", I32("and"), <<"fcsr", "mask">>),
                    Op("new", I32("or"), <<"kept", "shifted">>), Put("new", Fcsr)>>
    [] csr = 3 -> <<Put(n, Fcsr)>>

(* zero_extend_csr and the write to rd. *)
CsrToRegister(n, rd) == <<Op("x", As("zero_extend", "i64", "i32"), <<n>>), Put("x", rd)>>

(* The operand: a register, or rs1 itself. *)
CsrOperand(i) ==
  IF i.mnem \in {"CSRRW", "CSRRS", "CSRRC"} THEN <<Get("v", i.rs1), Shrink("v", "i32")>>
  ELSE <<Imm("v", i.rs1)>>

(* The exception flags are cleared. *)
FlagsCleared(n) == <<Imm("clear", 224), Op("masked", I32("and"), <<n, "clear">>)>>

CsrWrites == [CSRRW |-> "reg", CSRRWI |-> "imm"]
CsrSets   == [CSRRS |-> "reg", CSRRSI |-> "imm"]
CsrClears == [CSRRC |-> "reg", CSRRCI |-> "imm"]

CsrWriteScript(i) ==
  (IF i.rd = 0 THEN <<>> ELSE CsrRead("csr", i.imm) \o CsrToRegister("csr", i.rd))
    \o CsrOperand(i) \o <<Cast("v", "i32")>> \o FlagsCleared("v") \o CsrWritten("masked", i.imm)

CsrSetScript(i) ==
  CsrRead("csr", i.imm) \o CsrToRegister("csr", i.rd)
    \o (IF i.rs1 = 0 THEN <<>>
        ELSE CsrOperand(i) \o <<Op("set", I32("or"), <<"csr", "v">>)>> \o FlagsCleared("set")
               \o CsrWritten("masked", i.imm))

CsrClearScript(i) ==
  CsrRead("csr", i.imm) \o CsrToRegister("csr", i.rd)
    \o (IF i.rs1 = 0 THEN <<>>
        ELSE (IF i.mnem = "CSRRCI" THEN <<Imm("v", -1 - i.rs1)>>
              ELSE CsrOperand(i) \o <<Op("v", I32("not"), <<"v">>)>>)
               \o <<Op("new", I32("and"), <<"csr", "v">>)>> \o CsrWritten("new", i.imm))

-----------------------------------------------------------------------------
(* Floating point.                                                         *)

RoundingMode(rm) ==
  CASE rm \in {0, 4} -> "nearest" [] rm = 1 -> "zero" [] rm = 2 -> "down" [] rm = 3 -> "up"
    [] rm = 7 -> "dynamic"

Floatings ==
  [FADDS |-> <<"add", "f32">>, FSUBS |-> <<"sub", "f32">>, FMULS |-> <<"fmul", "f32">>,
   FDIVS |-> <<"fdiv", "f32">>, FMINS |-> <<"min", "f32">>, FMAXS |-> <<"max", "f32">>,
   FADDD |-> <<"add", "f64">>, FSUBD |-> <<"sub", "f64">>, FMULD |-> <<"fmul", "f64">>,
   FDIVD |-> <<"fdiv", "f64">>, FMIND |-> <<"min", "f64">>, FMAXD |-> <<"max", "f64">>]
Roots  == [FSQRTS |-> "f32", FSQRTD |-> "f64"]
Fused ==
  [FMADDS |-> <<"fmadd", "f32">>, FMSUBS |-> <<"fmsub", "f32">>, FNMSUBS |-> <<"fnmadd", "f32">>,
   FNMADDS |-> <<"fnmsub", "f32">>, FMADDD |-> <<"fmadd", "f64">>, FMSUBD |-> <<"fmsub", "f64">>,
   FNMSUBD |-> <<"fnmadd", "f64">>, FNMADDD |-> <<"fnmsub", "f64">>]
Conversions ==
  [FCVTWS |-> <<"convert", "f32", "i32">>, FCVTWUS |-> <<"uconvert", "f32", "i32">>,
   FCVTLS |-> <<"convert", "f32", "i64">>, FCVTLUS |-> <<"uconvert", "f32", "i64">>,
   FCVTSW |-> <<"convert", "i32", "f32">>, FCVTSWU |-> <<"uconvert", "i32", "f32">>,
   FCVTSL |-> <<"convert", "i64", "f32">>, FCVTSLU |-> <<"uconvert", "i64", "f32">>,
   FCVTSD |-> <<"convert", "f64", "f32">>, FCVTDS |-> <<"convert", "f32", "f64">>,
   FCVTWD |-> <<"convert", "f64", "i32">>, FCVTWUD |-> <<"uconvert", "f64", "i32">>,
   FCVTLD |-> <<"convert", "f64", "i64">>, FCVTLUD |-> <<"uconvert", "f64", "i64">>,
   FCVTDW |-> <<"convert", "i32", "f64">>, FCVTDWU |-> <<"uconvert", "i32", "f64">>,
   FCVTDL |-> <<"convert", "i64", "f64">>, FCVTDLU |-> <<"uconvert", "i64", "f64">>]
Injections ==
  [FSGNJS |-> "f32", FSGNJNS |-> "f32", FSGNJXS |-> "f32",
   FSGNJD |-> "f64", FSGNJND |-> "f64", FSGNJXD |-> "f64"]
Moves ==
  [FMVXW |-> <<"f32", "i32">>, FMVWX |-> <<"i32", "f32">>, FMVXD |-> <<"f64", "i64">>,
   FMVDX |-> <<"i64", "f64">>]
Orders ==
  [FLES |-> <<"sle", "f32">>, FLTS |-> <<"slt", "f32">>, FEQS |-> <<"seq", "f32">>,
   FLED |-> <<"sle", "f64">>, FLTD |-> <<"slt", "f64">>, FEQD |-> <<"seq", "f64">>]
Classes == [FCLASSS |-> "f32", FCLASSD |-> "f64"]

Operand(n, r, t) == <<IF t \in Floats THEN GetFloat(n, r) ELSE Get(n, r), Shrink(n, t)>>
Returned(n, r, t) == <<IF t \in Floats THEN PutFloat(n, r) ELSE Put(n, r)>>

FloatingScript(i) ==
  LET t == Floatings[i.mnem][2]
  IN  Operand("a", i.rs1, t) \o Operand("b", i.rs2, t)
        \o <<Op("d", As(Floatings[i.mnem][1], t, t), <<"a", "b">>), PutFloat("d", i.rd)>>

RootScript(i) ==
  LET t == Roots[i.mnem]
  IN  Operand("a", i.rs1, t) \o <<Op("d", As("fsqrt", t, t), <<"a">>), PutFloat("d", i.rd)>>

FusedScript(i) ==
  LET t == Fused[i.mnem][2]
  IN  Operand("a", i.rs1, t) \o Operand("b", i.rs2, t) \o Operand("c", i.rs3, t)
        \o <<Op("d", As(Fused[i.mnem][1], t, t), <<"a", "b", "c">>), PutFloat("d", i.rd)>>

(* The only operations that have a rounding mode. *)
ConversionScript(i) ==
  LET from == Conversions[i.mnem][2]
      to   == Conversions[i.mnem][3]
      op   == Op("d", [As(Conversions[i.mnem][1], to, from) EXCEPT !.rounding = RoundingMode(i.rm)], <<"a">>)
  IN  (IF i.rm = 7 THEN CsrRead("rm", 2) ELSE <<>>) \o Operand("a", i.rs1, from)
        \o <<IF i.rm = 7 THEN Rounded(op, "rm") ELSE op>> \o Widen("d", to, "i32") \o Returned("d", i.rd, to)

InjectionScript(i) ==
  LET t   == Injections[i.mnem]
      u   == IntOf(t)
      bin(n, op, a, b) == Op(n, As(op, u, u), <<a, b>>)
  IN  <<Imm("sign", SignBit(t)), Imm("rest", SignBit(t) - 1)>>
        \o Operand("a", i.rs1, t) \o Operand("b", i.rs2, t)
        \o <<Op("a", As("cast", u, t), <<"a">>), Op("b", As("cast", u, t), <<"b">>),
             bin("new", "and", "b", "sign")>>
        \o (CASE i.mnem \in {"FSGNJS", "FSGNJD"}   -> <<>>
              [] i.mnem \in {"FSGNJNS", "FSGNJND"} -> <<bin("new", "xor", "new", "sign")>>
              [] i.mnem \in {"FSGNJXS", "FSGNJXD"} -> <<bin("old", "and", "a", "sign"),
                                                       bin("new", "xor", "old", "new")>>)
        \o <<bin("a", "and", "a", "rest"), bin("a", "or", "a", "new"),
             Op("d", As("cast", t, u), <<"a">>), PutFloat("d", i.rd)>>

MoveScript(i) ==
  LET from == Moves[i.mnem][1]
      to   == Moves[i.mnem][2]
  IN  Operand("a", i.rs1, from) \o <<Op("d", As("cast", to, from), <<"a">>)>>
        \o (IF to = "i32" THEN <<Convert("d", "i64")>> ELSE <<>>) \o Returned("d", i.rd, to)

OrderScript(i) ==
  LET t == Orders[i.mnem][2]
  IN  Operand("a", i.rs1, t) \o Operand("b", i.rs2, t)
        \o <<Imm("zero", 0), Imm("one", 1),
             Op("d", As(Orders[i.mnem][1], "i64", t), <<"a", "b", "one", "zero">>), Put("d", i.rd)>>

(* The classes of lift_fclass, each a bit, are built from masks for those  *)
(* that a test of the pattern leaves possible.                             *)
ClassMasks(t) ==
  <<Imm("zero", 0), Imm("is0", 1), Imm("is3", 8), Imm("is4", 16), Imm("is7", 128), Imm("is8", 256),
    Imm("is9", 512), Imm("is12", 6), Imm("is56", 96), Imm("is16", 66), Imm("is25", 36),
    Imm("is89", 768), Imm("is258", 292), Imm("expmask", ExponentMask(t)),
    Imm("manmask", MantissaMask(t)), Imm("signshift", Width(t) - 1), Imm("msbshift", Mantissa(t) - 1),
    Imm("ninf", SignBit(t) + Infinity(t)), Imm("pinf", Infinity(t)), Imm("nzero", SignBit(t))>>

ClassTests(u) ==
  LET bin(n, op, a, b)    == Op(n, As(op, u, u), <<a, b>>)
      seq(n, a, b, c, d)  == Op(n, As("seq", u, u), <<a, b, c, d>>)
  IN  <<bin("sign", "shr", "i", "signshift"),
        seq("negative", "sign", "zero", "zero", "is12"), seq("positive", "sign", "zero", "is56", "zero"),
        bin("exp", "and", "i", "expmask"),
        seq("exp0", "exp", "zero", "is25", "zero"), seq("expnot0", "exp", "zero", "zero", "is16"),
        seq("expmax", "exp", "expmask", "is89", "zero"), seq("expnotmax", "exp", "expmask", "zero", "is16"),
        bin("man", "and", "i", "manmask"), bin("msb", "shr", "man", "msbshift"),
        seq("mannot0", "man", "zero", "zero", "is258"),
        seq("msb0", "msb", "zero", "is8", "zero"), seq("msb1", "msb", "zero", "zero", "is9")>>

ClassMerges(u) ==
  LET bin(n, op, a, b)    == Op(n, As(op, u, u), <<a, b>>)
      seq(n, a, b, c, d)  == Op(n, As("seq", u, u), <<a, b, c, d>>)
  IN  <<bin("normal", "and", "expnot0", "expnotmax"), bin("subnormal", "and", "exp0", "mannot0"),
        seq("t0", "i", "ninf", "is0", "zero"), bin("t1", "and", "normal", "negative"),
        bin("t2", "and", "subnormal", "negative"), seq("t3", "i", "nzero", "is3", "zero"),
        seq("t4", "i", "zero", "is4", "zero"), bin("t5", "and", "subnormal", "positive"),
        bin("t6", "and", "normal", "positive"), seq("t7", "i", "pinf", "is7", "zero"),
        bin("t8", "and", "msb0", "mannot0"), bin("t8", "and", "t8", "expmax"),
        bin("t9", "and", "expmax", "msb1"),
        bin("t0", "or", "t0", "t1"), bin("t2", "or", "t2", "t3"), bin("t4", "or", "t4", "t5"),
        bin("t6", "or", "t6", "t7"), bin("t8", "or", "t8", "t9"), bin("t0", "or", "t0", "t2"),
        bin("t4", "or", "t4", "t6"), bin("t0", "or", "t0", "t4"), bin("d", "or", "t0", "t8")>>

(* The result keeps its 32 bits in a register of 64. *)
ClassScript(i) ==
  LET t == Classes[i.mnem]
      u == IntOf(t)
  IN  ClassMasks(t) \o Operand("f", i.rs1, t) \o <<Op("i", As("cast", u, t), <<"f">>)>>
        \o ClassTests(u) \o ClassMerges(u) \o <<Put("d", i.rd)>>

-----------------------------------------------------------------------------
(* The end of the block.                                                   *)

(* zero_extend_all_f32. *)
Extended(b) ==
  FoldLeft(LAMBDA c, s : IF c.vars[c.map[s]].type = "f32"
                         THEN Written(Derive(Bind(c, "x", c.map[s]), "zero_extend", "x", "f64"), "x", s)
                         ELSE c,
           b, [f \in 1..FloatRegs |-> Float(f - 1)])

(* static_id of the variables that statics are mapped to. *)
Identified(vars, map) ==
  [id \in DOMAIN vars |->
     LET S == {s \in Statics : map[s] = id} IN
     [vars[id] EXCEPT !.sid = IF S = {} THEN @ ELSE CHOOSE s \in S : TRUE]]

(* The control flow operations get the variables by their names, and every *)
(* static the variable mapped to it; a return is not extended for.         *)
Closed(bb, b, cfs) ==
  LET e == IF cfs[1].type = "return" THEN b ELSE Extended(b) IN
  [bb EXCEPT !.vars  = Identified(e.vars, e.map),
             !.map   = e.map,
             !.order = [j \in DOMAIN e.vars |-> j],
             !.cfs   = [k \in DOMAIN cfs |->
                          [cfs[k] EXCEPT !.ins = [j \in DOMAIN @ |-> IdOf(e, @[j])], !.args = e.map]]]

Branches ==
  [BEQ |-> <<"eq", FALSE>>, BNE |-> <<"eq", TRUE>>, BLT |-> <<"slt", FALSE>>, BGE |-> <<"slt", TRUE>>,
   BLTU |-> <<"lt", FALSE>>, BGEU |-> <<"lt", TRUE>>]

BranchScript(i) ==
  <<Imm("jump", i.addr + i.imm), Imm("next", i.next), Get("a", i.rs1), Get("b", i.rs2)>>

(* Mutant: only the target of the branch is exchanged, not where it goes   *)
(* on.                                                                     *)
BranchCfsHalf(i) ==
  LET reverse == Branches[i.mnem][2] IN
  <<Cf("cjump", Branches[i.mnem][1], <<"a", "b", IF reverse THEN "next" ELSE "jump">>,
       IF reverse THEN i.next ELSE i.addr + i.imm),
    Cf("jump", "none", <<"next">>, i.next)>>

(* A reversed branch jumps to the next instruction and goes on elsewhere.  *)
BranchCfs(i) ==
  LET reverse == Branches[i.mnem][2]
      jump    == i.addr + i.imm
  IN
  IF reverse
  THEN <<Cf("cjump", Branches[i.mnem][1], <<"a", "b", "next">>, i.next), Cf("jump", "none", <<"jump">>, jump)>>
  ELSE <<Cf("cjump", Branches[i.mnem][1], <<"a", "b", "jump">>, jump), Cf("jump", "none", <<"next">>, i.next)>>

Links(i) == "callRet" \in options /\ i.rd \in LinkRegs

JalScript(i) ==
  <<Imm("jump", i.addr + i.imm)>>
    \o (IF i.rd = 0 THEN <<>> ELSE <<Imm("link", i.next), Put("link", i.rd)>>)

JalCfs(i) == <<Cf(IF Links(i) THEN "call" ELSE "jump", "none", <<"jump">>, i.addr + i.imm)>>

IsReturn(i) == "callRet" \in options /\ i.imm = 0 /\ i.rs1 \in LinkRegs /\ i.rd = 0

JalrScript(i) ==
  IF IsReturn(i) THEN <<Get("to", i.rs1), Convert("to", "i64")>>
  ELSE <<Imm("offset", i.imm), Get("base", i.rs1), Op("sum", As("add", "i64", "i64"), <<"base", "offset">>),
         Imm("mask", -2), Op("to", As("and", "i64", "i64"), <<"sum", "mask">>)>>
         \o (IF i.rd = 0 THEN <<>> ELSE <<Imm("link", i.next), Put("link", i.rd)>>)

JalrCfs(i) ==
  <<Cf(IF IsReturn(i) THEN "return" ELSE IF Links(i) THEN "icall" ELSE "ijump", "none", <<"to">>, 0)>>

EcallScript(i) ==
  <<Get("n", SyscallNumber)>> \o [j \in DOMAIN SyscallArgs |-> Get(ToString(j), SyscallArgs[j])]

(* The continuation gets the results in the first two arguments' statics.  *)
EcallCfs(i) ==
  <<Cf("syscall", "none", <<"n">> \o [j \in DOMAIN SyscallArgs |-> ToString(j)], i.next)>>

Jumps == [JAL |-> "jal"]
IndirectJumps == [JALR |-> "jalr"]
Ecalls == [ECALL |-> "ecall"]
Fences == [FENCE |-> "fence", FENCEI |-> "fence"]

FenceScript(i) == <<>>

-----------------------------------------------------------------------------
(* One instruction, parse_instruction, up to the end of the loop of lift.  *)

InstrAt(Table) == at <= Len(program) /\ program[at].mnem \in DOMAIN Table

Lift(Table, Script(_)) ==
  /\ InstrAt(Table)
  /\ LET i == program[at] IN blocks' = [blocks EXCEPT ![1] = Run(@, i.addr, Script(i))]
  /\ at' = at + 1
  /\ UNCHANGED <<program, options>>

LiftEnd(Table, Script(_), Cfs(_)) ==
  /\ InstrAt(Table)
  /\ LET i == program[at] IN
     blocks' = [blocks EXCEPT ![1] = Closed(@, Built(@, i.addr, Script(i)), Cfs(i))]
  /\ at' = Len(program) + 2
  /\ UNCHANGED <<program, options>>

LiftArithmetic     == Lift(Arithmetics, ArithmeticScript)
LiftImmediate      == Lift(Immediates, ImmediateScript)
LiftShift          == Lift(Shifts, ShiftScript)
LiftShiftImmediate == Lift(ShiftImmediates, ShiftImmediateScript)
LiftUpper          == Lift(Uppers, UpperScript)
LiftCompare        == Lift(Compares, CompareScript)
LiftProduct        == Lift(Products, ProductScript)
LiftDivision       == Lift(Divisions, DivisionScript)
LiftLoad           == Lift(Loads, LoadScript)
LiftStore          == Lift(Stores, StoreScript)
LiftReserve        == Lift(Reserves, ReserveScript)
LiftConditional    == Lift(Conditionals, ConditionalScript)
LiftSwap           == Lift(Swaps, SwapScript)
LiftAtomic         == Lift(Atomics, AtomicScript)
LiftFence          == Lift(Fences, FenceScript)
LiftCsrWrite       == Lift(CsrWrites, CsrWriteScript)
LiftCsrSet         == Lift(CsrSets, CsrSetScript)
LiftCsrClear       == Lift(CsrClears, CsrClearScript)
LiftFloating       == Lift(Floatings, FloatingScript)
LiftRoot           == Lift(Roots, RootScript)
LiftFused          == Lift(Fused, FusedScript)
LiftConversion     == Lift(Conversions, ConversionScript)
LiftInjection      == Lift(Injections, InjectionScript)
LiftMove           == Lift(Moves, MoveScript)
LiftOrder          == Lift(Orders, OrderScript)
LiftClass          == Lift(Classes, ClassScript)
LiftBranch         == LiftEnd(Branches, BranchScript, BranchCfs)
LiftJal            == LiftEnd(Jumps, JalScript, JalCfs)
LiftJalr           == LiftEnd(IndirectJumps, JalrScript, JalrCfs)
LiftEcall          == LiftEnd(Ecalls, EcallScript, EcallCfs)

(* create_new_bb: the next instruction starts a block; nothing is extended. *)
FellThrough(bb, next) ==
  [bb EXCEPT !.vars  = Identified(bb.vars, bb.map),
             !.order = [j \in DOMAIN bb.vars |-> j],
             !.cfs   = <<[Cf("jump", "none", <<>>, next) EXCEPT !.args = bb.map]>>]

LiftFallThrough ==
  /\ at = Len(program) + 1
  /\ blocks' = [blocks EXCEPT ![1] = FellThrough(@, program[at - 1].next)]
  /\ at' = at + 1
  /\ UNCHANGED <<program, options>>

LiftInit ==
  /\ program \in Programs
  /\ options \in Options(program)
  /\ at = 1
  /\ blocks = <<NewBlock(program[1].addr)>>

LiftInteger ==
  \/ LiftArithmetic \/ LiftImmediate \/ LiftShift \/ LiftShiftImmediate \/ LiftUpper \/ LiftCompare
  \/ LiftProduct \/ LiftDivision \/ LiftLoad \/ LiftStore \/ LiftFence
  \/ LiftReserve \/ LiftConditional \/ LiftSwap \/ LiftAtomic

LiftFloat ==
  \/ LiftCsrWrite \/ LiftCsrSet \/ LiftCsrClear \/ LiftFloating \/ LiftRoot \/ LiftFused
  \/ LiftConversion \/ LiftInjection \/ LiftMove \/ LiftOrder \/ LiftClass

LiftControl == LiftBranch \/ LiftJal \/ LiftJalr \/ LiftEcall \/ LiftFallThrough

LiftNext == LiftInteger \/ LiftFloat \/ LiftControl

(* The block is complete. *)
IsLifted == at = Len(program) + 2
=============================================================================

------------------------------ MODULE Emitted -------------------------------
(***************************************************************************)
(* What the assembly of the generator (generator/x86_64/generator.cpp)     *)
(* computes for a block: every variable has a slot on the stack, an        *)
(* operation loads its operands into registers that were cleared, and the  *)
(* control flow operations write the statics one after another.            *)
(***************************************************************************)
EXTENDS Ir, SequencesExt

(* A machine: the statics but the memory token, the memory and the         *)
(* rounding mode of mxcsr; trap tells that the processor stopped it, next  *)
(* where it goes on.                                                       *)
Machine(statics, mem) ==
  [statics |-> statics, mem |-> mem, mxcsr |-> "nearest", trap |-> FALSE, next |-> 0]

-----------------------------------------------------------------------------
(* Operations.  x are the operands, filled up with zeros.                  *)

(* The type whose registers an operand of type t is compared and shifted   *)
(* in: immediates are 64 bits wide.                                        *)
RegType(t) == IF t = "imm" THEN "i64" ELSE t

(* Of two compared operands, an immediate takes the width of the other. *)
CompareType(t, u) == IF t = "imm" THEN RegType(u) ELSE t

(* The condition codes after comis: what is unordered sets them all. *)
Comis(op, t, a, b) ==
  CASE op = "slt" -> Order(t, a, b) \in {"less", "unordered"}
    [] op = "sle" -> Order(t, a, b) \in {"less", "equal", "unordered"}
    [] op = "seq" -> Order(t, a, b) \in {"equal", "unordered"}

Cmp(op, t, a, b) ==
  CASE op = "slt"  -> Signed(t, a) < Signed(t, b)
    [] op = "sltu" -> Word(t, a) < Word(t, b)
    [] op = "sle"  -> Signed(t, a) <= Signed(t, b)
    [] op = "seq"  -> Word(t, a) = Word(t, b)

SetIf(v, ts, x) ==
  LET t == CompareType(ts[1], ts[2])
      c == IF t \in Floats THEN Comis(v.op, t, x[1], x[2]) ELSE Cmp(v.op, t, x[1], x[2])
  IN  Word(v.type, IF c THEN x[3] ELSE x[4])

(* idiv works in the width of the result, div always in 64 bits. *)
DivisionType(v) == IF v.op = "div" /\ v.type = "i32" THEN "i32" ELSE "i64"

DivisionTraps(v, x) ==
  LET t == DivisionType(v) IN
  \/ Word(t, x[2]) = 0
  \/ v.op = "div" /\ Signed(t, x[1]) = -(Pow(t) \div 2) /\ Signed(t, x[2]) = -1

Divided(v, x) ==
  LET t    == DivisionType(v)
      read == [j \in 1..2 |-> IF v.op = "div" THEN Signed(t, x[j]) ELSE Word(t, x[j])]
  IN  IF v.out = 1 THEN Quotient(read[1], read[2]) ELSE Remainder(read[1], read[2])

(* x86 converts to signed integers only. *)
ToInt(v, t, mode, x) == Fp("toint", v.type, mode, <<t, x>>)
FromInt(v, t, mode, x) == Fp("fromint", v.type, mode, <<t, x>>)

(* Mutant: an unsigned 32 bit integer is converted like a signed one. *)
UnsignedSigned(v, t, mode, x) == IF t \in Floats THEN ToInt(v, t, mode, x) ELSE FromInt(v, t, mode, x)

(* An unsigned result is forced to zero by the sign of the operand; an     *)
(* unsigned operand of 64 bits is halved, its last bit kept, and doubled.  *)
Unsigned(v, t, mode, x) ==
  IF t \in Floats THEN IF Negative(t, x) THEN 0 ELSE ToInt(v, t, mode, x)
  ELSE IF t = "i32" THEN FromInt(v, "i64", mode, x)
  ELSE LET half == FromInt(v, "i64", mode, Or("i64", Shr("i64", x, 1), x % 2))
       IN  Fp("add", v.type, mode, <<half, half>>)

Converts(v, ts, mode, x) ==
  CASE v.op = "uconvert"                              -> Unsigned(v, ts[1], mode, x[1])
    [] v.op = "convert" /\ v.type \in Ints            -> ToInt(v, ts[1], mode, x[1])
    [] v.op = "convert" /\ ts[1] \in Ints \cup {"imm"} -> FromInt(v, RegType(ts[1]), mode, x[1])
    [] OTHER                                          -> Fp("resize", v.type, mode, x)

Floated(v, mode, x) ==
  LET fp(op, a, b) == Fp(op, v.type, mode, <<a, b>>)
      product      == fp("fmul", x[1], x[2])
  IN
  CASE v.op \in {"add", "sub", "fmul", "fdiv"} -> fp(v.op, x[1], x[2])
    [] v.op = "min"    -> IF Order(v.type, x[1], x[2]) = "less" THEN x[1] ELSE x[2]
    [] v.op = "max"    -> IF Order(v.type, x[1], x[2]) = "greater" THEN x[1] ELSE x[2]
    [] v.op = "fsqrt"  -> Fp("fsqrt", v.type, mode, x)
    [] v.op = "fmadd"  -> fp("add", product, x[3])
    [] v.op = "fmsub"  -> fp("sub", product, x[3])
    [] v.op = "fnmadd" -> fp("add", Sign(v.type, product), x[3])
    [] v.op = "fnmsub" -> fp("sub", Sign(v.type, product), x[3])
    [] OTHER           -> x[1]        (* cast and zero_extend *)

ShiftedWord(op, t, x, n) ==
  CASE op = "shl" -> Shl(t, x, n) [] op = "shr" -> Shr(t, x, n) [] op = "sar" -> Sar(t, x, n)

(* The minima and maxima move the other operand in on the wrong condition. *)
Integral(v, ts, x) ==
  CASE v.op = "add"     -> x[1] + x[2]
    [] v.op = "sub"     -> x[1] - x[2]
    [] v.op = "mul_l"   -> x[1] * x[2]
    [] v.op = "ssmul_h" -> High("i64", Signed("i64", x[1]) * Signed("i64", x[2]))
    [] v.op = "uumul_h" -> High("i64", x[1] * x[2])
    [] v.op \in {"div", "udiv"} -> Divided(v, x)
    [] v.op \in {"shl", "shr", "sar"} -> ShiftedWord(v.op, RegType(ts[1]), x[1], x[2])
    [] v.op = "or"      -> Or("i64", x[1], x[2])
    [] v.op = "and"     -> And("i64", x[1], x[2])
    [] v.op = "xor"     -> Xor("i64", x[1], x[2])
    [] v.op = "not"     -> Not("i64", x[1])
    [] v.op \in {"cast", "zero_extend"} -> x[1]
    [] v.op = "sign_extend" -> Signed(RegType(ts[1]), x[1])
    [] v.op = "umax"    -> IF x[1] > x[2] THEN x[2] ELSE x[1]
    [] v.op = "umin"    -> IF x[1] < x[2] THEN x[2] ELSE x[1]
    [] v.op = "max"     -> IF Signed(ts[1], x[1]) > Signed(ts[1], x[2]) THEN x[2] ELSE x[1]
    [] v.op = "min"     -> IF Signed(ts[1], x[1]) < Signed(ts[1], x[2]) THEN x[2] ELSE x[1]

Result(v, ts, mode, x) ==
  CASE v.op \in {"slt", "sltu", "sle", "seq"} -> SetIf(v, ts, x)
    [] v.op \in {"convert", "uconvert"}       -> Word(v.type, Converts(v, ts, mode, x))
    [] v.type \in Floats                      -> Word(v.type, Floated(v, mode, x))
    [] OTHER                                  -> Word(v.type, Integral(v, ts, x))

-----------------------------------------------------------------------------
(* The variables of a block, one after another.  e.val is what their slots *)
(* hold; a slot that was not written holds junk.                           *)

(* The load of a static that no operation reads is left out. *)
Skipped(bb, id) ==
  /\ "unusedStatic" \in options /\ IsStatic(bb.vars[id])
  /\ \A j \in DOMAIN bb.order : LET v == bb.vars[bb.order[j]] IN
       IsOp(v) => id \notin Range(v.ins)

(* compile_rounding_mode: for conversions to integers, and never restored. *)
SetsRounding(v, ts) ==
  \/ v.op = "convert" /\ v.type \in Ints
  \/ v.op = "uconvert" /\ ts[1] \in Floats

(* Every load into xmm0 has the width of the memory token's, 64 bits. *)
LoadBytes(v) == IF v.type \in Floats THEN 8 ELSE Bytes(v.type)

Operation(e, id, v, ts, x) ==
  LET mode == IF SetsRounding(v, ts) THEN v.rounding ELSE e.mxcsr IN
  CASE v.op = "load" /\ Within(x[1], LoadBytes(v)) ->
         [e EXCEPT !.val[id] = Loaded(e.mem, x[1], Bytes(v.type))]
    [] v.op = "store" /\ Within(x[1], Bytes(ts[2])) ->
         [e EXCEPT !.mem = Stored(@, x[1], Bytes(ts[2]), x[2])]
    [] v.op \in {"load", "store"} /\ ~Within(x[1], IF v.op = "load" THEN LoadBytes(v) ELSE Bytes(ts[2])) ->
         [e EXCEPT !.trap = TRUE]
    [] v.op \in {"div", "udiv"} /\ DivisionTraps(v, x) -> [e EXCEPT !.trap = TRUE]
    [] OTHER -> [e EXCEPT !.val[id] = Result(v, ts, mode, x), !.mxcsr = mode]

(* A slot is read in the width of its variable into a cleared register. *)
Slot(bb, e, id) == IF bb.vars[id].type = "mt" THEN 0 ELSE Word(RegType(bb.vars[id].type), e.val[id])

Computed(bb, e, id) ==
  LET v  == bb.vars[id]
      ts == [j \in DOMAIN v.ins |-> bb.vars[v.ins[j]].type]
      x  == [j \in 1..4 |-> IF j \in DOMAIN v.ins THEN Slot(bb, e, v.ins[j]) ELSE 0]
  IN
  CASE e.trap -> e
    [] ~e.trap /\ IsImm(v)    -> [e EXCEPT !.val[id] = v.val]
    [] ~e.trap /\ IsStatic(v) -> IF v.type = "mt" \/ Skipped(bb, id) THEN e
                                 ELSE [e EXCEPT !.val[id] = e.statics[v.val]]
    [] ~e.trap /\ IsOp(v)     -> Operation(e, id, v, ts, x)

-----------------------------------------------------------------------------
(* The control flow operations.                                            *)

(* A static whose load may be left out is read where it is needed. *)
Direct(bb, e, id) ==
  IF "unusedStatic" \in options /\ IsStatic(bb.vars[id])
  THEN Word(bb.vars[id].type, e.statics[bb.vars[id].val]) ELSE Slot(bb, e, id)

(* Mutant: the values are read from their slots, whether they were loaded  *)
(* or not.                                                                 *)
PassedFromSlots(bb, e, args) ==
  LET put(st, s) == IF s = Mem THEN st ELSE [st EXCEPT ![s] = Slot(bb, e, args[s])]
  IN  [e EXCEPT !.statics = FoldLeft(put, @, [s \in Statics |-> s])]

(* The statics are written one after another, and each value is read when  *)
(* its turn comes.                                                         *)
Passed(bb, e, args) ==
  LET put(st, s) == IF s = Mem THEN st
                    ELSE [st EXCEPT ![s] = Direct(bb, [e EXCEPT !.statics = st], args[s])]
  IN  [e EXCEPT !.statics = FoldLeft(put, @, [s \in Statics |-> s])]

(* The operands of a conditional jump are compared as 64 bits. *)
Taken(bb, e, cf) ==
  \/ cf.type # "cjump"
  \/ LET a == Direct(bb, e, cf.ins[1])
         b == Direct(bb, e, cf.ins[2])
     IN  CASE cf.cond = "eq"  -> a = b
           [] cf.cond = "lt"  -> a < b
           [] cf.cond = "slt" -> Signed("i64", a) < Signed("i64", b)

(* Six arguments are passed in registers, the seventh from its slot. *)
SyscallResult(bb, e, ins) ==
  Syscall([j \in DOMAIN ins |-> IF j <= 6 THEN Direct(bb, e, ins[j]) ELSE Slot(bb, e, ins[j])])

Left(bb, e, cf) ==
  LET p == Passed(bb, e, cf.args) IN
  CASE cf.type \in {"jump", "cjump", "call"} -> [p EXCEPT !.next = cf.target]
    [] cf.type \in {"return", "ijump", "icall"} -> [p EXCEPT !.next = Slot(bb, p, cf.ins[1])]
    [] cf.type = "syscall" ->
         [p EXCEPT !.next = cf.target, !.statics[SyscallArgs[1]] = SyscallResult(bb, p, cf.ins)]

(* compile_block. *)
Executed(bb, m, junk) ==
  LET start == [val |-> [id \in DOMAIN bb.vars |-> junk]] @@ m
      e     == FoldLeft(LAMBDA c, id : Computed(bb, c, id), start, bb.order)
      left  == IF e.trap THEN e ELSE Left(bb, e, Head(SelectSeq(bb.cfs, LAMBDA cf : Taken(bb, e, cf))))
  IN  [f \in DOMAIN m |-> left[f]]
=============================================================================

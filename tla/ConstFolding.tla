---------------------------- MODULE ConstFolding ----------------------------
(***************************************************************************)
(* Constant folding (ir/optimizer/const_folding.cpp) with the evaluation   *)
(* of operations (ir/eval.cpp) and the rewriting of what was replaced      *)
(* (ir/optimizer/common.cpp).                                              *)
(***************************************************************************)
EXTENDS Ir, SequencesExt

VARIABLE fold   (* The pass: the block, the next position in its order,     *)
                (* the variables that were replaced by others, and whether  *)
                (* the pass died of a division.                             *)

FoldStart == [block |-> 1, at |-> 1, rewrite |-> <<>>, died |-> FALSE]

BinaryOps   == {"add", "sub", "mul_l", "ssmul_h", "uumul_h", "sumul_h", "shl", "shr", "sar", "or", "and",
                "xor", "max", "umax", "min", "umin"}
MorphingOps == {"sign_extend", "zero_extend", "cast"}
Conditions  == {"slt", "sltu", "sle", "seq"}
Commutative == {"add", "and", "or", "xor"}

-----------------------------------------------------------------------------
(* eval.cpp.                                                               *)

EvalBinary(op, t, a, b) ==
  LET x         == Word(t, a)
      y         == Word(t, b)
      signed(z) == Signed(t, z)
      plain(z)  == z
  IN
  CASE op = "add"     -> Word(t, x + y)
    [] op = "sub"     -> Word(t, x - y)
    [] op = "mul_l"   -> Word(t, x * y)
    [] op = "ssmul_h" -> High(t, signed(x) * signed(y))
    [] op = "uumul_h" -> High(t, x * y)
    [] op = "sumul_h" -> High(t, signed(x) * y)
    [] op = "shl"     -> Shl(t, x, y)
    [] op = "shr"     -> Shr(t, x, y)
    [] op = "sar"     -> Sar(t, x, y)
    [] op = "or"      -> Or(t, x, y)
    [] op = "and"     -> And(t, x, y)
    [] op = "xor"     -> Xor(t, x, y)
    [] op = "umax"    -> Greatest(x, y, plain)
    [] op = "max"     -> Greatest(x, y, signed)
    [] op = "umin"    -> Least(x, y, plain)
    [] op = "min"     -> Least(x, y, signed)

EvalMorph(op, from, to, x) ==
  IF op = "sign_extend" THEN Extend(from, to, x) ELSE Word(to, Word(from, x))

(* Dividing by zero and overflowing kill the pass. *)
DivisionDies(op, t, a, b) ==
  Word(t, b) = 0 \/ (op = "div" /\ Signed(t, a) = -(Pow(t) \div 2) /\ Signed(t, b) = -1)

EvalDiv(op, t, a, b) ==
  LET x == IF op = "div" THEN Signed(t, a) ELSE Word(t, a)
      y == IF op = "div" THEN Signed(t, b) ELSE Word(t, b)
  IN  <<Word(t, Quotient(x, y)), Word(t, Remainder(x, y))>>

(* typed_compare; words that are compared unsigned are compared whole. *)
Compared(op, t, a, b) ==
  CASE op = "slt"  -> Signed(t, a) < Signed(t, b)
    [] op = "sle"  -> Signed(t, a) <= Signed(t, b)
    [] op = "sltu" -> a < b
    [] op = "seq"  -> a = b

-----------------------------------------------------------------------------
(* The block and the variable the pass is at.                              *)

Block   == blocks[fold.block]
Folding == ~fold.died /\ fold.block \in DOMAIN blocks /\ fold.at \in DOMAIN Block.order
Id      == Block.order[fold.at]

Current == RenamedVar(fold.rewrite, Block.vars[Id])

In(v, j)   == Block.vars[v.ins[j]]
Foldable(t) == t \in Ints \cup {"imm"}

(* Mutant: an operand without a type is not handled. *)
CanHandleTyped(v, n) == \A j \in 1..n : In(v, j).type \in Ints

(* can_handle_types, of the first n operands. *)
CanHandle(v, n) == \A j \in 1..n : Foldable(In(v, j).type)

(* resolve_simple_op_type: the largest type that is not imm. *)
Resolved(v) ==
  LET S == ({In(v, j).type : j \in DOMAIN v.ins} \cup {v.type}) \ {"imm"} IN
  IF S = {} THEN "i64" ELSE CHOOSE t \in S : \A u \in S : Bytes(t) >= Bytes(u)

(* What becomes of the current variable, in the block bb that has n more   *)
(* variables before it.                                                    *)
Becomes(bb, n, v, rewrite) ==
  /\ blocks' = [blocks EXCEPT ![fold.block] = [bb EXCEPT !.vars[Id] = v]]
  /\ fold' = [fold EXCEPT !.at = @ + n + 1, !.rewrite = rewrite]

Stays(v)       == Becomes(Block, 0, v, fold.rewrite)
Immediate(v, x) == [v EXCEPT !.kind = "imm", !.val = x, !.op = "none", !.ins = <<>>, !.rm = 0]
Replaced(id)   == (Id :> id) @@ fold.rewrite

-----------------------------------------------------------------------------
(* An operation on an immediate and an operation on an immediate.          *)

NoDouble == [op |-> "none", val |-> 0, first |-> TRUE]
Double(op, val, first) == [op |-> op, val |-> val, first |-> first]

(* simplify_double_op_*: the outer operation cins has the immediate c, the *)
(* inner one pins has p, on its left if pleft; first tells on which side   *)
(* the new immediate is.                                                   *)
DoubleComm(cins, t, c, pins, p, pleft) ==
  CASE cins = "add" /\ pins = "add"            -> Double("add", EvalBinary("add", t, p, c), TRUE)
    [] cins = "add" /\ pins = "sub" /\ pleft   -> Double("sub", EvalBinary("add", t, p, c), TRUE)
    [] cins = "add" /\ pins = "sub" /\ ~pleft  -> Double("add", EvalBinary("sub", t, c, p), TRUE)
    [] cins \in {"and", "or", "xor"} /\ pins = cins -> Double(cins, EvalBinary(cins, t, p, c), TRUE)
    [] OTHER                                   -> NoDouble

DoubleLeft(cins, t, c, pins, p, pleft) ==
  CASE cins \in Commutative                    -> DoubleComm(cins, t, c, pins, p, pleft)
    [] cins = "sub" /\ pins = "add"            -> Double("sub", EvalBinary("sub", t, c, p), TRUE)
    [] cins = "sub" /\ pins = "sub" /\ pleft   -> Double("add", EvalBinary("sub", t, c, p), TRUE)
    [] cins = "sub" /\ pins = "sub" /\ ~pleft  -> Double("sub", EvalBinary("add", t, p, c), TRUE)
    [] OTHER                                   -> NoDouble

(* Mutant: the constant that is subtracted twice is taken off once. *)
DoubleRightOnce(cins, t, c, pins, p, pleft) ==
  CASE cins \in Commutative                    -> DoubleComm(cins, t, c, pins, p, pleft)
    [] cins = "sub" /\ pins = "add"            -> Double("add", EvalBinary("sub", t, p, c), TRUE)
    [] cins = "sub" /\ pins = "sub" /\ pleft   -> Double("sub", EvalBinary("sub", t, p, c), TRUE)
    [] cins = "sub" /\ pins = "sub" /\ ~pleft  -> Double("sub", EvalBinary("sub", t, p, c), FALSE)
    [] OTHER                                   -> NoDouble

DoubleRight(cins, t, c, pins, p, pleft) ==
  CASE cins \in Commutative                    -> DoubleComm(cins, t, c, pins, p, pleft)
    [] cins = "sub" /\ pins = "add"            -> Double("add", EvalBinary("sub", t, p, c), TRUE)
    [] cins = "sub" /\ pins = "sub" /\ pleft   -> Double("sub", EvalBinary("sub", t, p, c), TRUE)
    [] cins = "sub" /\ pins = "sub" /\ ~pleft  -> Double("sub", EvalBinary("add", t, p, c), FALSE)
    [] OTHER                                   -> NoDouble

(* The operand of v at j is an operation with one immediate. *)
Inner(v, j) ==
  /\ IsOp(In(v, j)) /\ In(v, j).op \in BinaryOps
  /\ \A k \in 1..2 : Foldable(Block.vars[In(v, j).ins[k]].type)
  /\ \E k \in 1..2 : IsImm(Block.vars[In(v, j).ins[k]])

(* Both are immediates: what the pass asserts not to meet. *)
InnerConstant(v, j) == Inner(v, j) /\ \A k \in 1..2 : IsImm(Block.vars[In(v, j).ins[k]])

(* Mutant: the new immediate lies behind the operation that reads it. *)
WithConstantBehind(c) ==
  [Block EXCEPT !.vars = Append(@, c), !.order = InsertAt(@, fold.at + 1, Len(Block.vars) + 1)]

(* The block with the new immediate c in front of the current operation. *)
WithConstant(c) ==
  [Block EXCEPT !.vars = Append(@, c), !.order = InsertAt(@, fold.at, Len(Block.vars) + 1)]

(* v after simplify_double_op, with the new immediate in the block. *)
Reassociated(v, t) ==
  LET left  == IsImm(In(v, 1)) /\ IsOp(In(v, 2))
      right == ~left /\ IsImm(In(v, 2)) /\ IsOp(In(v, 1))
      c     == IF left THEN 1 ELSE 2
      o     == 3 - c
  IN
  IF ~(left \/ right) \/ ~Inner(v, o) THEN [bb |-> Block, v |-> v, n |-> 0]
  ELSE LET inner == In(v, o)
           pleft == IsImm(Block.vars[inner.ins[1]])
           p     == Block.vars[inner.ins[IF pleft THEN 1 ELSE 2]].val
           other == inner.ins[IF pleft THEN 2 ELSE 1]
           d     == IF left THEN DoubleLeft(v.op, t, In(v, c).val, inner.op, p, pleft)
                    ELSE DoubleRight(v.op, t, In(v, c).val, inner.op, p, pleft)
           new   == Len(Block.vars) + 1
       IN  IF d = NoDouble THEN [bb |-> Block, v |-> v, n |-> 0]
           ELSE [bb |-> WithConstant([ImmVar(d.val) EXCEPT !.type = t, !.addr = v.addr]),
                 v  |-> [v EXCEPT !.op = d.op, !.ins = IF d.first THEN <<new, other>> ELSE <<other, new>>],
                 n  |-> 1]

-----------------------------------------------------------------------------
(* An operation with an immediate c of type t that does nothing, or always *)
(* the same.                                                               *)

KeepOp   == [do |-> "keep", val |-> 0]
Same     == [do |-> "same", val |-> 0]
Negated  == [do |-> "not", val |-> 0]
Gives(x) == [do |-> "imm", val |-> x]

NeutralComm(op, t, c) ==
  LET none == Word(t, c) = 0
      all  == Word(t, c) = Pow(t) - 1
  IN
  CASE op = "add" /\ c = 0  -> Same
    [] op = "and" /\ all    -> Same
    [] op = "and" /\ none   -> Gives(0)
    [] op = "or" /\ all     -> Gives(Pow(t) - 1)
    [] op = "or" /\ none    -> Same
    [] op = "xor" /\ none   -> Same
    [] op = "xor" /\ all    -> Negated
    [] OTHER                -> KeepOp

NeutralLeft(op, t, c) ==
  CASE op \in Commutative                               -> NeutralComm(op, t, c)
    [] op \in {"shl", "shr", "sar"} /\ Word(t, c) = 0   -> Gives(0)
    [] OTHER                                            -> KeepOp

NeutralRight(op, t, c) ==
  CASE op \in Commutative                                    -> NeutralComm(op, t, c)
    [] op \in {"sub", "shl", "shr", "sar"} /\ Word(t, c) = 0 -> Same
    [] OTHER                                                 -> KeepOp

(* What simplify_bi_* makes of r, the result of Reassociated. *)
Simplified(r, t) ==
  LET v    == r.v
      a    == r.bb.vars[v.ins[1]]
      b    == r.bb.vars[v.ins[2]]
      does == CASE IsImm(a)              -> NeutralLeft(v.op, t, a.val)
                [] ~IsImm(a) /\ IsImm(b) -> NeutralRight(v.op, t, b.val)
                [] OTHER                 -> KeepOp
      other == v.ins[IF IsImm(a) THEN 2 ELSE 1]
  IN
  CASE v.op \in {"xor", "sub"} /\ v.ins[1] = v.ins[2] -> Becomes(r.bb, r.n, Immediate(v, 0), fold.rewrite)
    [] does.do = "same" -> Becomes(r.bb, r.n, v, Replaced(other))
    [] does.do = "imm"  -> Becomes(r.bb, r.n, Immediate(v, does.val), fold.rewrite)
    [] does.do = "not"  -> Becomes(r.bb, r.n, [v EXCEPT !.op = "not", !.ins = <<other>>], fold.rewrite)
    [] OTHER            -> Becomes(r.bb, r.n, v, fold.rewrite)

-----------------------------------------------------------------------------
(* process_block, one variable at a time.                                  *)

(* Statics, immediates and the operations that are not folded. *)
FoldOther ==
  /\ Folding
  /\ LET v == Current IN
     /\ ~IsOp(v) \/ v.op \notin BinaryOps \cup MorphingOps \cup Conditions \cup {"not", "div", "udiv"}
     /\ Stays(v)

FoldBinary ==
  /\ Folding /\ Current.op \in BinaryOps
  /\ LET v == Current
         t == Resolved(v)
     IN
     CASE ~CanHandle(v, 2) -> Stays(v)
       [] CanHandle(v, 2) /\ IsImm(In(v, 1)) /\ IsImm(In(v, 2)) ->
            Stays(Immediate(v, EvalBinary(v.op, t, In(v, 1).val, In(v, 2).val)))
       [] OTHER -> Simplified(Reassociated(v, t), t)

FoldNot ==
  /\ Folding /\ Current.op = "not"
  /\ LET v  == Current
         in == In(v, 1)
     IN
     CASE CanHandle(v, 1) /\ IsImm(in) -> Stays(Immediate(v, Not(Resolved(v), in.val)))
       [] CanHandle(v, 1) /\ IsOp(in) /\ in.op = "not" ->
            Becomes(Block, 0, v, Replaced(in.ins[1]))
       [] OTHER -> Stays(v)

(* A cast of an extension reads what was extended. *)
FoldMorph ==
  /\ Folding /\ Current.op \in MorphingOps
  /\ LET v      == Current
         in     == In(v, 1)
         undoes == IsOp(in) /\ v.op = "cast" /\ in.op \in {"sign_extend", "zero_extend"}
         pin    == in.ins[1]
         w      == IF undoes /\ Castable(Block.vars[pin].type, v.type) THEN [v EXCEPT !.ins[1] = pin] ELSE v
     IN
     CASE ~CanHandle(v, 1) \/ ~Foldable(v.type) -> Stays(v)
       [] CanHandle(v, 1) /\ Foldable(v.type) /\ IsImm(in) ->
            Stays(Immediate(v, EvalMorph(v.op, IF in.type = "imm" THEN v.type ELSE in.type, v.type, in.val)))
       [] CanHandle(v, 1) /\ Foldable(v.type) /\ ~IsImm(in) ->
            CASE undoes /\ Block.vars[pin].type = v.type -> Becomes(Block, 0, v, Replaced(pin))
              [] ~(undoes /\ Block.vars[pin].type = v.type) /\ in.type = v.type ->
                   Becomes(Block, 0, w, Replaced(w.ins[1]))
              [] OTHER -> Stays(w)

(* The operands are handed over in the wrong order. *)
FoldDivision ==
  /\ Folding /\ Current.op \in {"div", "udiv"}
  /\ LET v == Current
         a == In(v, 1)
         b == In(v, 2)
         t == Resolved(v)
     IN
     CASE ~CanHandle(v, 2) \/ ~IsImm(a) \/ ~IsImm(b) -> Stays(v)
       [] CanHandle(v, 2) /\ IsImm(a) /\ IsImm(b) /\ DivisionDies(v.op, t, b.val, a.val) ->
            fold' = [fold EXCEPT !.died = TRUE] /\ UNCHANGED blocks
       [] OTHER -> Stays(Immediate(v, EvalDiv(v.op, t, b.val, a.val)[v.out]))

FoldCondition ==
  /\ Folding /\ Current.op \in Conditions
  /\ LET v == Current
         a == In(v, 1)
         b == In(v, 2)
         u == IF Narrower(a.type, b.type) THEN b.type ELSE a.type
         t == IF u = "imm" THEN "i64" ELSE u
     IN  IF ~CanHandle(v, 2) \/ ~IsImm(a) \/ ~IsImm(b) THEN Stays(v)
         ELSE Becomes(Block, 0, v, Replaced(v.ins[IF Compared(v.op, t, a.val, b.val) THEN 3 ELSE 4]))

(* The control flow operations follow, and the next block. *)
FoldBlockEnd ==
  /\ ~fold.died /\ fold.block \in DOMAIN blocks /\ fold.at = Len(Block.order) + 1
  /\ blocks' = [blocks EXCEPT ![fold.block].cfs = [k \in DOMAIN @ |-> RenamedCf(fold.rewrite, @[k])]]
  /\ fold' = [fold EXCEPT !.block = @ + 1, !.at = 1, !.rewrite = <<>>]

FoldNext ==
  \/ FoldOther \/ FoldBinary \/ FoldNot \/ FoldMorph \/ FoldDivision \/ FoldCondition \/ FoldBlockEnd

IsFolded == ~fold.died /\ fold.block = Len(blocks) + 1

(* const_fold, last: an immediate on the left changes sides. *)
Swappable == {"add", "or", "and", "xor", "umax", "umin", "max", "min", "mul_l", "ssmul_h", "uumul_h"}

SwappedImmediates(bb) ==
  [bb EXCEPT !.vars = [id \in DOMAIN @ |->
     LET v == @[id] IN
     IF IsOp(v) /\ v.op \in Swappable /\ IsImm(@[v.ins[1]]) /\ ~IsImm(@[v.ins[2]])
     THEN [v EXCEPT !.ins = <<v.ins[2], v.ins[1]>>] ELSE v]]

FoldSwap ==
  /\ IsFolded
  /\ blocks' = [b \in DOMAIN blocks |-> SwappedImmediates(blocks[b])]
  /\ fold' = [fold EXCEPT !.block = @ + 1]
=============================================================================

----------------------------- MODULE MCDeadCode -----------------------------
(* Instances of DeadCode for TLC: programs of three blocks.                *)
EXTENDS DeadCode

V(kind, ins, rm) == [kind |-> kind, ins |-> ins, rm |-> rm]
P                == V("static", {}, 0)
Op(ins)          == V("op", ins, 0)
C(type, ins, target, cont) == [type |-> type, ins |-> ins, target |-> target, cont |-> cont]

(* The variables of a block with what the statics are mapped to at its     *)
(* end: nothing happens; a move; a value that may be unused and what it    *)
(* was computed from; a store; an exchange.                                *)
Bodies ==
  {[vars |-> <<P, P>>, out |-> <<1, 2>>],
   [vars |-> <<P, P>>, out |-> <<2, 2>>],
   [vars |-> <<P, P, Op({}), Op({2, 3})>>, out |-> <<1, 4>>],
   [vars |-> <<P, P, Op({2}), V("store", {1}, 0)>>, out |-> <<3, 1>>]}

(* A conversion whose rounding mode is read from the second static. *)
Rounding == [vars |-> <<P, P, Op({2}), V("op", {1}, 3)>>, out |-> <<4, 2>>]

(* How it ends. *)
Jumps    == {<<C("jump", {}, t, 0)>> : t \in Blocks}
Branches == {<<C("cjump", {v}, t, 0), C("jump", {}, u, 0)>> : v \in {1}, t \in Blocks, u \in Blocks}
Calls    == {<<C("syscall", {2}, t, 0)>> : t \in Blocks}
              \cup {<<C("call", {}, t, u)>> : t \in Blocks, u \in Blocks}
Escapes  == {<<C("return", {}, 0, 0)>>, <<C("ijump", {1}, 0, 0)>>, <<C("icall", {2}, 0, 2)>>,
             <<C("unreachable", {}, 0, 0)>>}

Code(B, K) == {[vars |-> b.vars, out |-> b.out, cfs |-> k] : b \in B, k \in K}

Three(A, B, D) == {<<a, b, d>> : a \in A, b \in B, d \in D}

Move  == CHOOSE b \in Bodies : b.out = <<2, 2>>

SmallPrograms ==
  Three(Code(Bodies, Branches), Code(Bodies, Jumps \cup Calls), Code({Move}, Escapes))
    \cup Three(Code({Rounding}, Jumps), Code(Bodies, Branches), Code(Bodies, Jumps))
=============================================================================

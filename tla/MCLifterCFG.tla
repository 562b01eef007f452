---------------------------- MODULE MCLifterCFG ----------------------------
(* Instances of LifterCFG for TLC: which instructions the programs of a    *)
(* run consist of.  Every program of N of them is an initial state.        *)
EXTENDS LifterCFG

Ins(kinds, T) == [kind : kinds, t : T]

Op == Ins({"op"}, {0})

(* Loops and branches into each other's blocks. *)
BranchInstrs == Op \cup Ins({"beq"}, {1, 3}) \cup Ins({"bne"}, {2}) \cup Ins({"jal"}, {5})

(* All control flow, every slot an instruction, calls inside the program.  *)
IndirectInstrs ==
  Op \cup Ins({"ijump", "icall", "ret", "ecall"}, {0}) \cup Ins({"table", "beq"}, {2, 3})
     \cup Ins({"call", "jal"}, {1, 4}) \cup Ins({"bne"}, {3})
=============================================================================

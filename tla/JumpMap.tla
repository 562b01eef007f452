------------------------------ MODULE JumpMap -------------------------------
(***************************************************************************)
(* What the lookup of an indirect jump promises: translated code that      *)
(* jumps to an address goes on at the block that may be entered there, and *)
(* in the interpreter when there is none.  The interpreter asks the same   *)
(* question; it may be told to go on interpreting although a block exists, *)
(* which is slow but right.                                                *)
(***************************************************************************)
CONSTANTS
  Addrs,       (* The addresses a program may jump to.                      *)
  Interpreter  (* The answer that names no block.                           *)

VARIABLES
  blocks,  (* The addresses at which a block may be entered.                *)
  state,   (* "building", "ready" or, when the translator gave up, "failed". *)
  last     (* The last lookup: by whom, of which address, and the answer.     *)

vars == <<blocks, state, last>>

NoLookup == [by |-> "none", addr |-> Interpreter, answer |-> Interpreter]

(* The block at address a is named by its address. *)
Meant(a) == IF a \in blocks THEN a ELSE Interpreter

Init ==
  /\ blocks \in SUBSET Addrs
  /\ state = "building"
  /\ last = NoLookup

Finish ==
  /\ state = "building"
  /\ state' \in {"ready", "failed"}
  /\ UNCHANGED <<blocks, last>>

(* Translated code jumps to a. *)
Jump(a) ==
  /\ state = "ready"
  /\ last' = [by |-> "code", addr |-> a, answer |-> Meant(a)]
  /\ UNCHANGED <<blocks, state>>

(* The interpreter has executed a jump to a. *)
Ask(a) ==
  /\ state = "ready"
  /\ \E answer \in {Meant(a), Interpreter} : last' = [by |-> "interpreter", addr |-> a, answer |-> answer]
  /\ UNCHANGED <<blocks, state>>

Next == Finish \/ \E a \in Addrs : Jump(a) \/ Ask(a)

Spec == Init /\ [][Next]_vars
=============================================================================

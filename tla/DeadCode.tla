------------------------------ MODULE DeadCode ------------------------------
(***************************************************************************)
(* Dead code elimination (ir/optimizer/dce.cpp): one pass that removes     *)
(* unreferenced variables and marks what has side effects, a work list     *)
(* that carries the marks against the control flow, one pass that removes  *)
(* parameters without a mark, one that removes the variables left over.    *)
(*                                                                         *)
(* Variables of a block are numbered.  The first Statics of them are its   *)
(* parameters, one per static; an operation that enters a block passes for *)
(* each of the block's parameters the variable mapped to that static.      *)
(***************************************************************************)
EXTENDS Naturals, Sequences, FiniteSets

CONSTANTS
  NBlocks,   (* Number of blocks.                                           *)
  Statics,   (* Number of statics that blocks pass on.                      *)
  Programs,  (* What the lifter may hand over: for each block its variables,*)
             (* the variable mapped to each static at its end, and its      *)
             (* control flow operations.                                    *)
  Repeats    (* How often a block may be listed as one predecessor: a split *)
             (* of a block whose operations share a target lists it twice.  *)

Blocks == 1..NBlocks
Null   == 0

Direct   == {"jump", "cjump", "syscall", "call"}
Escaping == {"ijump", "icall", "return"}

Var(n) == [kind : {"static", "op", "store"}, ins : SUBSET (1..n), rm : 0..n]
Cf(n)  == [type : Direct \cup Escaping \cup {"unreachable"}, ins : SUBSET (1..n),
           target : Blocks \cup {Null}, cont : Blocks \cup {Null}]

CodeOk(c) ==
  LET n == Len(c.vars) IN
  /\ Statics <= n
  /\ c.vars \in Seq(Var(n)) /\ c.cfs \in Seq(Cf(n)) /\ c.out \in [1..Statics -> 1..n]
  /\ \A v \in 1..n : /\ c.vars[v].ins \cup {c.vars[v].rm} \subseteq 0..(v - 1)
                     /\ c.vars[v].kind = "static" => c.vars[v].ins = {} /\ c.vars[v].rm = 0
                     /\ v <= Statics => c.vars[v].kind = "static"
  /\ \A k \in DOMAIN c.cfs : c.cfs[k].type \in Direct <=> c.cfs[k].target # Null

ASSUME SizesAssumption    == NBlocks \in Nat \ {0} /\ Statics \in Nat
ASSUME ProgramsAssumption == \A p \in Programs : DOMAIN p = Blocks /\ \A b \in Blocks : CodeOk(p[b])
ASSUME RepeatsAssumption  == Repeats \subseteq {1, 2} /\ Repeats # {}

VARIABLES
  prog,     (* The program as it was handed over.                           *)
  preds,    (* predecessors: how often each block is listed in each.        *)
  inputs,   (* bb->inputs.                                                  *)
  args,     (* target_inputs, or continuation_mapping of a syscall, of each *)
            (* operation.                                                   *)
  alive,    (* bb->variables.                                               *)
  usage,    (* The marks.                                                   *)
  pending,  (* pending_blocks.                                              *)
  phase,    (* The loop being executed,                                     *)
  at        (* and its block.                                               *)

vars == <<prog, preds, inputs, args, alive, usage, pending, phase, at>>

-----------------------------------------------------------------------------
(* A block and what refers to what in it.                                  *)

Ids(b)     == 1..Len(prog[b].vars)
Cfs(b)     == prog[b].cfs
Of(b, K)   == {v \in Ids(b) : prog[b].vars[v].kind \in K}
Params     == 1..Statics
InVars(b)  == [v \in Ids(b) |-> prog[b].vars[v].ins]

(* The operands of variable v, the one with its rounding mode included. *)
Refs(b)    == [v \in Ids(b) |-> prog[b].vars[v].ins \cup ({prog[b].vars[v].rm} \ {0})]

RangeOf(s) == {s[i] : i \in DOMAIN s}

(* What the operation itself reads: in_vars, and the mapping it stores for *)
(* a target that is not known.                                             *)
SideEffects(b) ==
  UNION {Cfs(b)[k].ins \cup (IF Cfs(b)[k].type \in Escaping THEN RangeOf(prog[b].out) ELSE {}) :
           k \in DOMAIN Cfs(b)}

CfRefs(b) == SideEffects(b) \cup UNION {RangeOf(args[b][k]) : k \in DOMAIN Cfs(b)}

(* What is reached from the variables S of block b along the edges E.  A   *)
(* variable only refers to earlier ones, so one walk in descending order   *)
(* or a queue visit it all.                                                *)
Reached(b, S, E) ==
  {v \in Ids(b) : \A M \in SUBSET Ids(b) :
                    S \subseteq M /\ (\A w \in M : E[w] \subseteq M) => v \in M}

(* Mutant: stores have no side effect. *)
MarkedNoStores(b) == Reached(b, SideEffects(b), InVars(b))

(* The marks of the first loop: operands of the marked operations and of   *)
(* stores, but not rounding modes.                                         *)
Marked(b) ==
  Reached(b, SideEffects(b) \cup UNION {InVars(b)[w] : w \in alive[b] \cap Of(b, {"store"})}, InVars(b))

(* Mutant: the sweep leaves out the operands of what it spares. *)
SurvivorsShallow(b, spared) == alive[b] \cap (spared \cup CfRefs(b))

(* The loop over bb->variables from the back, which erases what nothing    *)
(* refers to and what only erased variables referred to.                   *)
Survivors(b, spared) == alive[b] \cap Reached(b, alive[b] \cap (spared \cup CfRefs(b)), Refs(b))

-----------------------------------------------------------------------------
(* Predecessors and parameters.                                            *)

Targets(p) == {Cfs(p)[k].target : k \in DOMAIN Cfs(p)} \ {Null}
Conts(p)   == {Cfs(p)[k].cont : k \in DOMAIN Cfs(p)} \ {Null}

(* The predecessors with an operation that enters t directly. *)
ValidPreds(t) == {p \in Blocks : preds[t][p] > 0 /\ t \in Targets(p)}

(* check_target_input_removable for a valid predecessor: no operation of p *)
(* may reach t in a way that does not list arguments.                      *)
Removable(p, t) ==
  \A k \in DOMAIN Cfs(p) : /\ Cfs(p)[k].type \notin Escaping
                           /\ ~(Cfs(p)[k].type = "call" /\ Cfs(p)[k].cont = t)

Pinned(t) == \E p \in ValidPreds(t) : ~Removable(p, t)

(* remove_indices_sorted. *)
Without(s, I) ==
  LET kept == DOMAIN s \ I
  IN  [j \in 1..Cardinality(kept) |->
         s[CHOOSE i \in kept : Cardinality({h \in kept : h < i}) = j - 1]]

(* Mutant: only the first operation that enters the block is shortened. *)
ShortenFirst(t, I) ==
  [p \in Blocks |-> [k \in DOMAIN Cfs(p) |->
     IF p \in ValidPreds(t) /\ Cfs(p)[k].target = t /\ \A l \in 1..(k - 1) : Cfs(p)[l].target # t
     THEN Without(args[p][k], I) ELSE args[p][k]]]

(* remove_target_inputs for every listing of every valid predecessor. *)
Shorten(t, I) ==
  [p \in Blocks |-> [k \in DOMAIN Cfs(p) |->
     IF p \in ValidPreds(t) /\ Cfs(p)[k].target = t
     THEN IF preds[t][p] = 1 THEN Without(args[p][k], I)
                             ELSE Without(Without(args[p][k], I), I)
     ELSE args[p][k]]]

Remove(t, I) ==
  /\ args' = Shorten(t, I)
  /\ inputs' = [inputs EXCEPT ![t] = Without(@, I)]

-----------------------------------------------------------------------------
InitialArgs(p) ==
  [b \in Blocks |-> [k \in DOMAIN p[b].cfs |->
     IF p[b].cfs[k].type \in Direct THEN p[b].out ELSE <<>>]]

Connected(p, b) ==
  UNION {{p[b].cfs[k].target, p[b].cfs[k].cont} : k \in DOMAIN p[b].cfs}

Init ==
  /\ prog \in Programs
  /\ \E r \in [Blocks -> [Blocks -> Repeats]] :
       preds = [t \in Blocks |-> [p \in Blocks |-> IF t \in Connected(prog, p) THEN r[t][p] ELSE 0]]
  /\ inputs = [b \in Blocks |-> [i \in Params |-> i]]
  /\ args = InitialArgs(prog)
  /\ alive = [b \in Blocks |-> Ids(b)]
  /\ usage = [b \in Blocks |-> {}]
  /\ pending = {}
  /\ phase = "track" /\ at = 1

(* Mutant: the loop does not stop behind the last block. *)
NextBlockPast(then) ==
  IF at <= NBlocks THEN at' = at + 1 /\ phase' = phase ELSE at' = 1 /\ phase' = then

(* The three loops over ir->basic_blocks. *)
NextBlock(then) ==
  IF at < NBlocks THEN at' = at + 1 /\ phase' = phase ELSE at' = 1 /\ phase' = then

(* One block of the first loop. *)
Track ==
  LET b      == at
      left   == Survivors(b, Of(b, {"static", "store"}))
      unused == {i \in DOMAIN inputs[b] :
                   /\ inputs[b][i] \notin CfRefs(b)
                   /\ \A w \in left : inputs[b][i] \notin Refs(b)[w]}
      marks  == Marked(b) \cup (IF Pinned(b) THEN RangeOf(inputs[b]) ELSE {})
      shrink == ~Pinned(b) /\ unused # {}
      queue  == Pinned(b) \/ shrink \/ RangeOf(inputs[b]) \cap marks # {}
  IN
  /\ phase = "track"
  /\ alive' = [alive EXCEPT ![b] = left]
  /\ usage' = [usage EXCEPT ![b] = marks]
  /\ IF shrink THEN Remove(b, unused) ELSE UNCHANGED <<args, inputs>>
  /\ pending' = IF queue THEN pending \cup ValidPreds(b) ELSE pending
  /\ NextBlock("propagate")
  /\ UNCHANGED <<prog, preds>>

(* Mutant: only the last operation of the block passes marks on. *)
AskedForLast(b) ==
  LET k == Len(Cfs(b)) IN
  {args[b][k][i] : i \in {j \in DOMAIN args[b][k] :
                            inputs[Cfs(b)[k].target][j] \in usage[Cfs(b)[k].target]}}

(* The arguments for marked parameters of the blocks that b enters. *)
AskedFor(b) ==
  UNION {{args[b][k][i] : i \in {j \in DOMAIN args[b][k] :
                                   inputs[Cfs(b)[k].target][j] \in usage[Cfs(b)[k].target]}} :
           k \in DOMAIN Cfs(b)}

(* Mutant: a block that is visited queues its predecessors in any case. *)
RequeueAlways(b, new) == TRUE

(* A parameter among the newly marked variables concerns the predecessors. *)
Requeue(b, new) == new \cap Of(b, {"static"}) # {}

(* One pass of the work list; the set is ordered by address, so any block  *)
(* may be the first.  Each variable is visited when it becomes marked.     *)
Propagate(b) ==
  LET new == Reached(b, AskedFor(b) \ usage[b], [v \in Ids(b) |-> Refs(b)[v] \ usage[b]])
  IN
  /\ phase = "propagate"
  /\ b \in pending
  /\ usage' = [usage EXCEPT ![b] = @ \cup new]
  /\ pending' = (pending \ {b}) \cup (IF Requeue(b, new) THEN ValidPreds(b) ELSE {})
  /\ UNCHANGED <<prog, preds, inputs, args, alive, phase, at>>

Propagated ==
  /\ phase = "propagate"
  /\ pending = {}
  /\ phase' = "remove"
  /\ UNCHANGED <<prog, preds, inputs, args, alive, usage, pending, at>>

(* One block of the loop that removes parameters. *)
RemoveInputs ==
  LET b      == at
      unused == {i \in DOMAIN inputs[b] : inputs[b][i] \notin usage[b]}
  IN
  /\ phase = "remove"
  /\ IF unused # {} /\ ~Pinned(b) THEN Remove(b, unused) ELSE UNCHANGED <<args, inputs>>
  /\ usage' = IF unused # {} /\ Pinned(b)
              THEN [usage EXCEPT ![b] = @ \cup RangeOf(inputs[b])] ELSE usage
  /\ NextBlock("erase")
  /\ UNCHANGED <<prog, preds, alive, pending>>

(* One block of the last loop. *)
Erase ==
  /\ phase = "erase"
  /\ alive' = [alive EXCEPT ![at] = Survivors(at, usage[at] \cup Of(at, {"store"}))]
  /\ NextBlock("done")
  /\ UNCHANGED <<prog, preds, inputs, args, usage, pending>>

Next == Track \/ (\E b \in Blocks : Propagate(b)) \/ Propagated \/ RemoveInputs \/ Erase

Spec     == Init /\ [][Next]_vars
FairSpec == Spec /\ WF_vars(Next)

-----------------------------------------------------------------------------
(* Properties.                                                             *)

(* Every field keeps to the block it belongs to. *)
TypeOK ==
  /\ preds \in [Blocks -> [Blocks -> 0..2]]
  /\ DOMAIN inputs = Blocks /\ DOMAIN args = Blocks
  /\ \A b \in Blocks :
       /\ inputs[b] \in Seq(Params)
       /\ DOMAIN args[b] = DOMAIN Cfs(b) /\ \A k \in DOMAIN Cfs(b) : args[b][k] \in Seq(Ids(b))
       /\ alive[b] \subseteq Ids(b) /\ usage[b] \subseteq Ids(b)
  /\ DOMAIN alive = Blocks /\ DOMAIN usage = Blocks
  /\ pending \subseteq Blocks
  /\ phase \in {"track", "propagate", "remove", "erase", "done"}
  /\ at \in Blocks

(* Whatever has been removed on either side, the i-th argument of a jump,  *)
(* call or syscall is the variable mapped to the static of the target's    *)
(* i-th parameter, and there are as many (the assertions in                *)
(* remove_target_inputs and propagate_from_successors).                    *)
ArgsFollowInputs ==
  \A b \in Blocks : \A k \in DOMAIN Cfs(b) : Cfs(b)[k].type \in Direct =>
    args[b][k] = [i \in DOMAIN inputs[Cfs(b)[k].target] |-> prog[b].out[inputs[Cfs(b)[k].target][i]]]

(* What has a side effect itself. *)
Seeds ==
  UNION {{<<b, v>> : v \in SideEffects(b) \cup Of(b, {"store"}) \cup (IF Pinned(b) THEN Params ELSE {})} :
           b \in Blocks}

(* What variable x[2] of block x[1] is computed from: its operands, its    *)
(* rounding mode, and the variables that enter a parameter.                *)
Feeds(x) ==
  {<<x[1], v>> : v \in Refs(x[1])[x[2]]}
    \cup (IF x[2] \in Params THEN {<<p, prog[p].out[x[2]]>> : p \in ValidPreds(x[1])} ELSE {})

(* A set with everything that what is in it, or a side effect, needs. *)
Closed(M) == Seeds \subseteq M /\ \A x \in M : Feeds(x) \subseteq M

Left == UNION {{<<b, v>> : v \in alive[b]} : b \in Blocks}

(* In whichever order the work list is processed, exactly what some side   *)
(* effect needs is left: "all unmarked variables and inputs can be         *)
(* deleted", and nothing else (Ausarbeitung.tex:774).  It is closed, and   *)
(* no part of it could go.                                                 *)
LeavesTheNeeded ==
  phase = "done" =>
    /\ Closed(Left)
    /\ \A M \in SUBSET (Left \ Seeds) : Closed(Left \ M) => M = {}
    /\ \A b \in Blocks : RangeOf(inputs[b]) = alive[b] \cap Params

(* "Remove all parameters which do not participate in any side effect"     *)
(* (dce.cpp:407): a parameter that something left in the block reads is    *)
(* still a parameter of the block.                                         *)
ReadsArePassed ==
  phase = "done" =>
    \A b \in Blocks :
      Params \cap (CfRefs(b) \cup UNION {Refs(b)[v] : v \in alive[b]}) \subseteq RangeOf(inputs[b])

(* While variables are erased, what is left only refers to what is left:   *)
(* the raw pointers in inputs and the pass that erases by marks included.  *)
NothingDangles ==
  \A b \in Blocks :
    RangeOf(inputs[b]) \cup CfRefs(b) \cup UNION {Refs(b)[v] : v \in alive[b]} \subseteq alive[b]

(* The work list runs empty, also in programs that loop. *)
Terminates == <>(phase = "done")
=============================================================================

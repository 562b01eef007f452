------------------------------- MODULE Dedup --------------------------------
(***************************************************************************)
(* Deduplication (ir/optimizer/dedup.cpp): of the variables of a block     *)
(* that are computed alike only the first one stays.                       *)
(***************************************************************************)
EXTENDS Ir, SequencesExt

(* Two modes are compared; a mode that lies in a variable is never equal   *)
(* to another one, since its id is compared with a pointer.                *)
SameRounding(v, w) == v.rm = 0 /\ w.rm = 0 /\ v.rounding = w.rounding

(* Mutant: every output of an operation is the same. *)
TwinsOfAnyOutput(v, w) ==
  /\ v.kind = w.kind /\ v.type = w.type
  /\ ~IsOp(v) => v.val = w.val
  /\ IsOp(v) => v.op = w.op /\ v.ins = w.ins /\ SameRounding(v, w)

(* VarMeta's ==: v and w hold the same immediate, are the same static or   *)
(* the same output of the same operation.                                  *)
Twins(v, w) ==
  /\ v.kind = w.kind /\ v.type = w.type
  /\ ~IsOp(v) => v.val = w.val
  /\ IsOp(v) => /\ v.op = w.op /\ v.ins = w.ins /\ v.out = w.out
                /\ SameRounding(v, w)

(* Memory may have changed between two accesses that look alike. *)
TouchesMemory(v) == v.op \in {"load", "store"}

(* Mutant: a variable is looked up by the operands it had. *)
VisitedAsItWas(s, id) ==
  LET v     == RenamedVar(s.to, s.vars[id])
      twins == {u \in Range(s.order) : Twins(s.vars[u], s.vars[id])}
      t     == [s EXCEPT !.vars[id] = v]
  IN
  IF TouchesMemory(v) \/ twins = {} THEN [t EXCEPT !.order = Append(@, id)]
  ELSE [t EXCEPT !.to = (id :> CHOOSE u \in twins : TRUE) @@ @]

(* The next variable is kept or stands for its twin from now on. *)
Visited(s, id) ==
  LET v     == RenamedVar(s.to, s.vars[id])
      twins == {u \in Range(s.order) : Twins(s.vars[u], v)}
      t     == [s EXCEPT !.vars[id] = v]
  IN
  IF TouchesMemory(v) \/ twins = {} THEN [t EXCEPT !.order = Append(@, id)]
  ELSE [t EXCEPT !.to = (id :> CHOOSE u \in twins : TRUE) @@ @]

(* dedup, of one block. *)
Deduplicated(bb) ==
  LET s == FoldLeft(Visited, [vars |-> bb.vars, order |-> <<>>, to |-> <<>>], bb.order) IN
  [bb EXCEPT !.vars = s.vars, !.order = s.order, !.cfs = [k \in DOMAIN @ |-> RenamedCf(s.to, @[k])]]
=============================================================================

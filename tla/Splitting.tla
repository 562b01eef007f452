----------------------------- MODULE Splitting ------------------------------
(***************************************************************************)
(* How split_basic_block divides the variables of a block at an address    *)
(* that something jumps to: the mapping at that address is recovered from  *)
(* what the variables remember, and what the second half read of the first *)
(* one is read from its inputs.                                            *)
(***************************************************************************)
EXTENDS Lifting

VARIABLE splitAt   (* Where the block was split, 0 for nowhere. *)

splitVars == <<liftVars, splitAt>>

Before(bb, id, addr) == bb.vars[id].addr < addr

(* Mutant: the first variable of a static is taken, not the last one. *)
RecoveredFirst(bb, addr) ==
  [s \in Statics |->
     LET S == {id \in DOMAIN bb.vars : Before(bb, id, addr) /\ bb.vars[id].sid = s} IN
     CHOOSE id \in S : \A other \in S : id <= other]

(* The mapping at addr: the last variable before it that is assigned to a  *)
(* static.                                                                 *)
Recovered(bb, addr) ==
  [s \in Statics |->
     LET S == {id \in DOMAIN bb.vars : Before(bb, id, addr) /\ bb.vars[id].sid = s} IN
     CHOOSE id \in S : \A other \in S : id >= other]

(* Only variables that are assigned to registers may be met. *)
SplitAsserts(bb, addr) == \A id \in DOMAIN bb.vars : Before(bb, id, addr) => bb.vars[id].sid # 0

(* The first half, which passes that mapping on. *)
FirstHalf(bb, addr) ==
  LET n    == Cardinality({id \in DOMAIN bb.vars : Before(bb, id, addr)})
      kept == [vars |-> SubSeq(bb.vars, 1, n), map |-> Recovered(bb, addr), addr |-> addr, env |-> <<>>]
      e    == Extended(kept)
  IN  [bb EXCEPT !.vars  = e.vars,
                 !.map   = e.map,
                 !.order = [j \in DOMAIN e.vars |-> j],
                 !.cfs   = <<[Cf("jump", "none", <<>>, addr) EXCEPT !.args = e.map]>>]

(* c is the second half so far: its variables, its mapping, and the new    *)
(* names of the variables that were moved.  What an operation v of it      *)
(* reads of the first half is the static's input if it was one, else what  *)
(* the static is mapped to by now.                                         *)
Source(bb, c, in) == IF IsStatic(bb.vars[in]) THEN bb.vars[in].sid ELSE c.map[bb.vars[in].sid]

NeedsCast(bb, c, v, in) ==
  LET old == bb.vars[in]
      new == c.vars[Source(bb, c, in)]
  IN  \/ IsImm(old) /\ old.type = "imm" /\ v.op # "cast" /\ new.type # v.insize
      \/ Narrower(old.type, new.type)

MovedOperand(bb, addr, v, c, j) ==
  LET in == v.ins[j] IN
  IF ~Before(bb, in, addr) THEN [c EXCEPT !.ins = Append(@, c.name[in])]
  ELSE LET source == Source(bb, c, in) IN
       IF NeedsCast(bb, c, v, in)
       THEN [c EXCEPT !.vars = Append(@, [OpVar("cast", v.insize, <<source>>, c.vars[source].type)
                                            EXCEPT !.addr = v.addr]),
                      !.ins  = Append(@, Len(c.vars) + 1)]
       ELSE [c EXCEPT !.ins = Append(@, source)]

(* The next variable of the second half; rounding_info is not adjusted. *)
Moved(bb, addr, c, id) ==
  LET v    == bb.vars[id]
      read == FoldLeft(LAMBDA d, j : MovedOperand(bb, addr, v, d, j), [c EXCEPT !.ins = <<>>],
                       [j \in DOMAIN v.ins |-> j])
      new  == Len(read.vars) + 1
      rm   == IF v.rm = 0 \/ Before(bb, v.rm, addr) THEN v.rm ELSE c.name[v.rm]
  IN  [read EXCEPT !.vars = Append(@, [v EXCEPT !.ins = read.ins, !.rm = rm]),
                   !.map  = IF v.sid \in {0, None} THEN @ ELSE [@ EXCEPT ![v.sid] = new],
                   !.name = (id :> new) @@ @]

SecondHalf(bb, addr) ==
  LET start == NewBlock(addr)
      later == SelectSeq(bb.order, LAMBDA id : ~Before(bb, id, addr))
      c     == FoldLeft(LAMBDA d, id : Moved(bb, addr, d, id),
                        [vars |-> start.vars, map |-> start.map, name |-> <<>>, ins |-> <<>>], later)
      named(id) == IF Before(bb, id, addr) THEN c.map[bb.vars[id].sid] ELSE c.name[id]
  IN  [start EXCEPT !.vars  = Identified(c.vars, c.map),
                    !.map   = c.map,
                    !.order = [j \in DOMAIN c.vars |-> j],
                    !.cfs   = [k \in DOMAIN bb.cfs |->
                                 [bb.cfs[k] EXCEPT !.ins  = [j \in DOMAIN @ |-> named(@[j])],
                                                   !.args = c.map]]]

(* split_basic_block, at an instruction of the block. *)
Split ==
  /\ IsLifted /\ splitAt = 0
  /\ \E j \in 2..Len(program) :
       LET addr == program[j].addr IN
       /\ SplitAsserts(blocks[1], addr)
       /\ blocks' = <<FirstHalf(blocks[1], addr), SecondHalf(blocks[1], addr)>>
       /\ splitAt' = addr
  /\ UNCHANGED <<program, options, at>>
=============================================================================

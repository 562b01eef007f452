--------------------------- MODULE LifterFaithful ---------------------------
(***************************************************************************)
(* The graph that lifting leaves executes like the program (FaithfulCFG),  *)
(* for the programs LifterJumps is about in which no jump back leads over  *)
(* undecodable bytes.  A block that ends at such bytes gets no end, so a   *)
(* later jump into it finds no block to split and is made a trap.          *)
(***************************************************************************)
EXTENDS LifterEdges

(* Between an instruction that jumps and an earlier target nothing is      *)
(* undecodable.                                                            *)
JumpsBack ==
  \A i \in Slots : prog[i].kind \in {"jal", "beq", "bne", "call"} /\ IsInstr(prog[i].t) =>
    \A j \in (prog[i].t)..i : IsInstr(j)

-----------------------------------------------------------------------------
(* The inductive invariant.                                                *)

(* A block that only traps. *)
Hollow(x) == x.code = {} /\ 1 \in DOMAIN x.cfs /\ x.cfs[1].type = "unreachable"

(* What a block at address a may be: one that starts somewhere (with Good: *)
(* at a), or a trap if there is no instruction.                            *)
Serves(x, a) == IF IsInstr(a) THEN x.start # 0 ELSE Hollow(x)

(* The target and the continuation of an operation are the blocks for its  *)
(* addresses.                                                              *)
Leads(cf, B) ==
  /\ Direct(cf) /\ cf.target # Null /\ cf.jump # 0 => Serves(B[cf.target], cf.jump)
  /\ cf.cont # Null => B[cf.cont].start = cf.instr + 1

AllLead(B) == \A b \in 1..Len(B) : \A k \in DOMAIN B[b].cfs : Leads(B[b].cfs[k], B)

(* Operation cf is the operation I of an instruction, or traps because I   *)
(* goes where no instruction is.                                           *)
Makes(cf, I) ==
  /\ cf.instr = I.instr
  /\ \/ cf.type = I.type /\ (Direct(I) => cf.jump = I.jump)
     \/ cf.type = "unreachable" /\ I.type \in {"jump", "cjump", "call"} /\ ~IsInstr(I.jump)

Made(cfs, I) == Len(cfs) = Len(I) /\ \A k \in DOMAIN cfs : Makes(cfs[k], I[k])

(* The operation goes on behind slot l. *)
Falls(cf, l) ==
  \/ cf.type = "jump" /\ cf.jump = l + 1 /\ cf.target # Null
  \/ cf.type = "unreachable" /\ ~IsInstr(l + 1)

(* Block x, whose last instruction is at slot l, goes on as that says.     *)
GoesOn(x, l, open) ==
  IF prog[l].kind \in Terminators
  THEN x.end = l /\ Made(x.cfs, CfsOf(prog[l], l))
  ELSE \/ Len(x.cfs) = 0 /\ (open \/ l = N)
       \/ /\ l < N /\ Len(x.cfs) = 1 /\ Falls(x.cfs[1], l)
          /\ x.end = 0 => ~IsInstr(l + 1)

(* It holds the slots up to l, and only the last one may change the control*)
(* flow.                                                                   *)
Ends(x, l, open) ==
  /\ x.start \in 1..l /\ x.code = x.start..l
  /\ \A i \in x.start..(l - 1) : prog[i].kind \notin Terminators
  /\ GoesOn(x, l, open)

Formed(x, open) ==
  IF x.code = {} THEN open \/ x.start = 0 \/ Hollow(x)
                 ELSE \E l \in Slots : Ends(x, l, open)

(* The blocks B, of which o is still open. *)
Graph(B, o) == AllLead(B) /\ \A b \in 1..Len(B) : Formed(B[b], b = o)

Open == IF phase = "scan" THEN cur ELSE Null

(* A jump to an instruction has a block to go to, or will get one. *)
Found(cf) == Direct(cf) /\ cf.target = Null /\ IsInstr(cf.jump) => ptr[cf.jump] # Null \/ Awaits(cf.jump)

AllFound == \A b \in 1..Len(bbs) : \A k \in DOMAIN bbs[b].cfs : Waiting(b, k) \/ Found(bbs[b].cfs[k])

(* postprocess gives every direct jump a target and every call a block to  *)
(* continue in.                                                            *)
Done(cf) == (Direct(cf) => cf.target # Null) /\ (cf.type \in CallTypes => cf.cont # Null)

AllDone ==
  ~Lifting => \A b \in 1..Len(bbs) : \A k \in DOMAIN bbs[b].cfs :
                (phase = "post" /\ <<b, k>> \in todo) \/ Done(bbs[b].cfs[k])

Faith == phase # "crashed" => Graph(bbs, Open) /\ AllFound /\ AllDone

-----------------------------------------------------------------------------
(* The parts of the invariant under a step.                                *)

(* They are about the program, which never changes. *)
LEMMA SamePredicates ==
  ASSUME prog' = prog
  PROVE  /\ \A a : IsInstr(a)' <=> IsInstr(a)
         /\ \A cf, B : Leads(cf, B)' <=> Leads(cf, B)
         /\ \A x, open : Formed(x, open)' <=> Formed(x, open)
<1>1. \A a : IsInstr(a)' <=> IsInstr(a)
  BY DEF IsInstr
<1>2. \A x, a : Serves(x, a)' <=> Serves(x, a)
  BY <1>1 DEF Serves, Hollow
<1>3. \A cf, B : Leads(cf, B)' <=> Leads(cf, B)
  BY <1>2 DEF Leads, Direct
<1>4. \A cf, I : Makes(cf, I)' <=> Makes(cf, I)
  BY <1>1 DEF Makes, Direct
<1>5. \A cf, l : Falls(cf, l)' <=> Falls(cf, l)
  BY <1>1 DEF Falls
<1>6. \A x, l, open : GoesOn(x, l, open)' <=> GoesOn(x, l, open)
  BY <1>1, <1>4, <1>5 DEF GoesOn, Made
<1>7. \A x, l, open : Ends(x, l, open)' <=> Ends(x, l, open)
  BY <1>6 DEF Ends
<1>8. \A x, open : Formed(x, open)' <=> Formed(x, open)
  BY <1>7 DEF Formed, Hollow
<1> QED
  BY <1>1, <1>3, <1>8

LEMMA PrimedGraph ==
  ASSUME prog' = prog, NEW C, C = bbs', NEW o, o = Open', Graph(C, o)
  PROVE  Graph(bbs, Open)'
<1>1. \A cf, B : Leads(cf, B)' <=> Leads(cf, B)
  BY SamePredicates
<1>2. \A x, open : Formed(x, open)' <=> Formed(x, open)
  BY SamePredicates
<1> HIDE DEF Leads, Formed, Open
<1>3. \A b \in 1..Len(C) : \A k \in DOMAIN C[b].cfs : Leads(C[b].cfs[k], C)'
  BY <1>1 DEF Graph, AllLead
<1>4. \A b \in 1..Len(C) : Formed(C[b], b = o)'
  BY <1>2 DEF Graph
<1> QED
  BY <1>3, <1>4 DEF Graph, AllLead

(* The addresses of blocks stay, and what traps goes on trapping. *)
LEMMA LeadsKept ==
  ASSUME NEW B, NEW C, \A t \in 1..Len(B) : C[t].start = B[t].start /\ (Hollow(B[t]) => Hollow(C[t])),
         NEW cf, WfCf(cf, Len(B)), Len(B) \in Nat, Leads(cf, B)
  PROVE  Leads(cf, C)
<1>1. cf.target # Null => cf.target \in 1..Len(B)
  BY DEF WfCf, Null
<1>2. cf.cont # Null => cf.cont \in 1..Len(B)
  BY DEF WfCf, Null
<1> HIDE DEF Hollow, WfCf
<1> QED
  BY <1>1, <1>2 DEF Leads, Serves

(* What may become of an operation.  A jump to no instruction becomes a    *)
(* trap if it has no target.                                               *)
Kin(old, new) ==
  /\ new.instr = old.instr
  /\ \/ /\ new.type = old.type
        /\ Direct(old) => new.jump = old.jump
        /\ old.target # Null => new.target # Null
     \/ /\ new.type = "unreachable" /\ old.type \in {"jump", "cjump", "call"}
        /\ old.target = Null /\ ~IsInstr(old.jump)

Kins(x, y) == Len(y.cfs) = Len(x.cfs) /\ \A k \in DOMAIN x.cfs : Kin(x.cfs[k], y.cfs[k])

LEMMA KinSelf == \A cf : Kin(cf, cf)
BY DEF Kin

LEMMA KinMakes ==
  ASSUME NEW old, NEW new, Kin(old, new)
  PROVE  /\ \A I : Makes(old, I) => Makes(new, I)
         /\ \A l : Falls(old, l) => Falls(new, l)
         /\ old.type = "unreachable" => new.type = "unreachable"
<1> HIDE DEF IsInstr
<1>1. \A I : Makes(old, I) => Makes(new, I)
  <2> SUFFICES ASSUME NEW I, Makes(old, I) PROVE Makes(new, I)
    OBVIOUS
  <2> QED
    BY DEF Kin, Makes, Direct
<1>2. \A l : Falls(old, l) => Falls(new, l)
  BY DEF Kin, Falls, Direct
<1> QED
  BY <1>1, <1>2 DEF Kin

(* The same operations go on the same way. *)
LEMMA KinGoesOn ==
  ASSUME NEW n, NEW x, NEW y, WfCfs(x.cfs, n), WfCfs(y.cfs, n), Kins(x, y), y.end = x.end
  PROVE  \A l, open : GoesOn(x, l, open) => GoesOn(y, l, open)
<1>1. /\ Len(x.cfs) \in Nat /\ Len(y.cfs) = Len(x.cfs)
      /\ DOMAIN x.cfs = 1..Len(x.cfs) /\ DOMAIN y.cfs = 1..Len(x.cfs)
  BY DEF WfCfs, IsSeq, Kins
<1>2. \A k \in DOMAIN x.cfs :
        /\ \A I : Makes(x.cfs[k], I) => Makes(y.cfs[k], I)
        /\ \A l : Falls(x.cfs[k], l) => Falls(y.cfs[k], l)
  BY KinMakes DEF Kins
<1> HIDE DEF Makes, Falls, IsInstr, Kins, WfCfs
<1>3. \A I : Made(x.cfs, I) => Made(y.cfs, I)
  <2> SUFFICES ASSUME NEW I, Made(x.cfs, I) PROVE Made(y.cfs, I)
    OBVIOUS
  <2> QED
    BY <1>1, <1>2 DEF Made
<1> SUFFICES ASSUME NEW l, NEW open, GoesOn(x, l, open)
             PROVE  GoesOn(y, l, open)
  OBVIOUS
<1>4. Len(x.cfs) = 1 => 1 \in DOMAIN x.cfs
  BY <1>1
<1> HIDE DEF Made
<1> QED
  BY <1>1, <1>2, <1>3, <1>4 DEF GoesOn

(* The same block with other operations. *)
LEMMA KinFormed ==
  ASSUME NEW n, NEW x, NEW y, WfCfs(x.cfs, n), WfCfs(y.cfs, n), Kins(x, y),
         y.start = x.start, y.end = x.end, y.code = x.code
  PROVE  /\ \A open : Formed(x, open) => Formed(y, open)
         /\ Hollow(x) => Hollow(y)
<1>1. /\ Len(x.cfs) \in Nat /\ Len(y.cfs) = Len(x.cfs)
      /\ DOMAIN x.cfs = 1..Len(x.cfs) /\ DOMAIN y.cfs = 1..Len(x.cfs)
  BY DEF WfCfs, IsSeq, Kins
<1>2. \A k \in DOMAIN x.cfs : x.cfs[k].type = "unreachable" => y.cfs[k].type = "unreachable"
  BY KinMakes DEF Kins
<1>3. Hollow(x) => Hollow(y)
  BY <1>1, <1>2 DEF Hollow
<1> HIDE DEF GoesOn, Hollow, Kins, WfCfs
<1>4. \A l, open : GoesOn(x, l, open) => GoesOn(y, l, open)
  BY KinGoesOn
<1>5. \A l, open : Ends(x, l, open) => Ends(y, l, open)
  BY <1>4 DEF Ends
<1>6. \A open : Formed(x, open) => Formed(y, open)
  <2> HIDE DEF Ends
  <2> QED
    BY <1>3, <1>5 DEF Formed
<1> QED
  BY <1>3, <1>6


(* Block b of the blocks C is as it was in B, but for operations replaced  *)
(* by their kin.                                                           *)
Stays(B, C, b) ==
  /\ C[b].end = B[b].end /\ C[b].code = B[b].code
  /\ Kins(B[b], C[b])
  /\ \A k \in DOMAIN B[b].cfs : C[b].cfs[k] = B[b].cfs[k] \/ Leads(C[b].cfs[k], C)

(* It is as it should be; r is the open block. *)
Rebuilt(C, b, r) ==
  /\ Formed(C[b], b = r)
  /\ \A k \in DOMAIN C[b].cfs : Leads(C[b].cfs[k], C)

(* C is B with more blocks; the new ones and those in S are rebuilt, which *)
(* closes o and opens r.                                                   *)
Rebuilds(B, C, o, r, S) ==
  /\ Len(B) <= Len(C)
  /\ \A b \in 1..Len(B) :
       /\ C[b].start = B[b].start
       /\ b \in S => B[b].code # {}
       /\ b \notin S => (b = o <=> b = r) /\ Stays(B, C, b)
  /\ \A b \in 1..Len(C) : b \in S \/ b > Len(B) => Rebuilt(C, b, r)

LEMMA RebuiltGraph ==
  ASSUME NEW B, WfBlocks(B), NEW o, Graph(B, o), NEW C, WfBlocks(C), NEW S, NEW r, Rebuilds(B, C, o, r, S)
  PROVE  Graph(C, r)
<1>0. /\ Len(B) <= Len(C)
      /\ \A b \in 1..Len(B) : C[b].start = B[b].start
      /\ \A b \in 1..Len(B) : b \in S => B[b].code # {}
      /\ \A b \in 1..Len(B) : b \notin S => (b = o <=> b = r) /\ Stays(B, C, b)
      /\ \A b \in 1..Len(C) : b \in S \/ b > Len(B) => Rebuilt(C, b, r)
  <2> HIDE DEF Stays, Rebuilt
  <2> QED
    BY DEF Rebuilds
<1>1. /\ Len(B) \in Nat /\ Len(C) \in Nat
      /\ \A b \in 1..Len(B) : WfCfs(B[b].cfs, Len(B)) /\ b \in 1..Len(C) /\ WfCfs(C[b].cfs, Len(C))
  BY <1>0 DEF WfBlocks, WfBlock, IsSeq
<1>2. \A b \in 1..Len(B) : WfCfs(B[b].cfs, Len(C))
  BY <1>0, <1>1, WfGrows
<1>3. \A b \in 1..Len(B) : b \in S => ~Hollow(B[b])
  BY <1>0 DEF Hollow
<1> HIDE DEF Kins, Leads, Hollow, Formed
<1>4. \A b \in 1..Len(B) : b \notin S =>
        /\ \A open : Formed(B[b], open) => Formed(C[b], open)
        /\ Hollow(B[b]) => Hollow(C[b])
        /\ DOMAIN C[b].cfs = DOMAIN B[b].cfs
  <2> SUFFICES ASSUME NEW b \in 1..Len(B), b \notin S
               PROVE  /\ \A open : Formed(B[b], open) => Formed(C[b], open)
                      /\ Hollow(B[b]) => Hollow(C[b])
                      /\ DOMAIN C[b].cfs = DOMAIN B[b].cfs
    OBVIOUS
  <2>1. DOMAIN C[b].cfs = DOMAIN B[b].cfs
    BY <1>0, <1>1 DEF WfCfs, IsSeq, Kins, Stays
  <2>2. PICK x, y : x = B[b] /\ y = C[b]
    OBVIOUS
  <2>3. WfCfs(x.cfs, Len(C)) /\ WfCfs(y.cfs, Len(C)) /\ Kins(x, y)
        /\ y.start = x.start /\ y.end = x.end /\ y.code = x.code
    BY <1>0, <1>1, <1>2, <2>2 DEF Stays
  <2> QED
    BY <2>1, <2>2, <2>3, KinFormed
<1>5. ASSUME NEW b \in 1..Len(C), NEW k \in DOMAIN C[b].cfs
      PROVE  Leads(C[b].cfs[k], C)
  <2>1. CASE b \in 1..Len(B) /\ b \notin S /\ C[b].cfs[k] = B[b].cfs[k]
    <3>1. k \in DOMAIN B[b].cfs
      BY <1>4, <2>1
    <3>2. WfCf(B[b].cfs[k], Len(B)) /\ Leads(B[b].cfs[k], B)
      BY <1>1, <2>1, <3>1 DEF WfCfs, Graph, AllLead
    <3>3. \A t \in 1..Len(B) : C[t].start = B[t].start /\ (Hollow(B[t]) => Hollow(C[t]))
      BY <1>0, <1>3, <1>4
    <3>4. PICK cf : cf = B[b].cfs[k]
      OBVIOUS
    <3> QED
      BY <1>1, <2>1, <3>2, <3>3, <3>4, LeadsKept
  <2>2. CASE b \in 1..Len(B) /\ b \notin S /\ C[b].cfs[k] # B[b].cfs[k]
    BY <1>0, <1>4, <2>2 DEF Stays
  <2>3. CASE b \in S \/ b > Len(B)
    BY <1>0, <2>3 DEF Rebuilt
  <2> QED
    BY <1>1, <2>1, <2>2, <2>3
<1>6. ASSUME NEW b \in 1..Len(C)
      PROVE  Formed(C[b], b = r)
  <2>1. CASE b \in 1..Len(B) /\ b \notin S
    <3>1. Formed(B[b], b = o)
      BY <2>1 DEF Graph
    <3>2. (b = o) = (b = r)
      BY <1>0, <2>1
    <3> QED
      BY <1>4, <2>1, <3>1, <3>2
  <2>2. CASE b \in S \/ b > Len(B)
    BY <1>0, <2>2 DEF Rebuilt
  <2> QED
    BY <1>1, <2>1, <2>2
<1> QED
  BY <1>5, <1>6 DEF Graph, AllLead

(* C is B with more blocks, edges, flags, and with operations replaced;    *)
(* blocks that are added have no code and are traps or have no address.    *)
LEMMA GraphStep ==
  ASSUME NEW B, WfBlocks(B), NEW o, Graph(B, o), NEW C, WfBlocks(C), Extends(B, C), o \in 0..Len(B),
         \A b \in 1..Len(B) : Kins(B[b], C[b]),
         \A b \in 1..Len(B) : \A k \in DOMAIN B[b].cfs :
           C[b].cfs[k] = B[b].cfs[k] \/ Leads(C[b].cfs[k], C),
         \A b \in (Len(B) + 1)..Len(C) :
           /\ C[b].start = 0 \/ Hollow(C[b])
           /\ \A k \in DOMAIN C[b].cfs : Leads(C[b].cfs[k], C)
  PROVE  Graph(C, o)
<1>1. /\ Len(B) \in Nat /\ Len(C) \in Nat /\ Len(B) <= Len(C)
      /\ \A b \in 1..Len(B) : C[b].start = B[b].start /\ C[b].end = B[b].end /\ C[b].code = B[b].code
      /\ \A b \in (Len(B) + 1)..Len(C) : C[b].code = {}
  BY DEF WfBlocks, IsSeq, Extends
<1> HIDE DEF Kins, Leads, Hollow
<1>2. \A b \in 1..Len(C) : b > Len(B) => Rebuilt(C, b, o)
  BY <1>1 DEF Formed, Rebuilt
<1>3. \A b \in 1..Len(B) : Stays(B, C, b)
  BY <1>1 DEF Stays
<1>4. PICK S : S = {}
  OBVIOUS
<1>5. Rebuilds(B, C, o, o, S)
  <2> HIDE DEF Rebuilt, Stays
  <2> QED
    BY <1>1, <1>2, <1>3, <1>4 DEF Rebuilds
<1> HIDE DEF Formed, Graph, Rebuilds
<1> QED
  BY <1>5, RebuiltGraph

(* No operation changes. *)
LEMMA SameGraph ==
  ASSUME NEW B, WfBlocks(B), NEW o \in 0..Len(B), Graph(B, o), NEW C, SameExtent(B, C),
         \A c \in 1..Len(B) : C[c].cfs = B[c].cfs
  PROVE  Graph(C, o)
<1>1. WfBlocks(C) /\ Len(C) = Len(B) /\ Extends(B, C) /\ Len(B) \in Nat
  BY DEF SameExtent, WfBlocks, IsSeq
<1>2. \A b \in 1..Len(B) : Kins(B[b], C[b])
  BY KinSelf DEF Kins
<1>3. \A b \in (Len(B) + 1)..Len(C) : FALSE
  BY <1>1
<1> HIDE DEF Kins, Leads, Hollow, Graph
<1> QED
  BY <1>1, <1>2, <1>3, GraphStep

(* One operation changes. *)
LEMMA PatchGraph ==
  ASSUME NEW B, WfBlocks(B), NEW o \in 0..Len(B), Graph(B, o), NEW C, SameExtent(B, C),
         NEW b \in 1..Len(B), NEW k \in DOMAIN B[b].cfs, NEW cf, Kin(B[b].cfs[k], cf), Leads(cf, C),
         \A c \in 1..Len(B) : C[c].cfs = CfsBut(B, b, k, cf, c)
  PROVE  Graph(C, o)
<1>1. WfBlocks(C) /\ Len(C) = Len(B) /\ Extends(B, C) /\ Len(B) \in Nat
  BY DEF SameExtent, WfBlocks, IsSeq
<1>2. \A c \in 1..Len(B) : IsSeq(B[c].cfs) /\ DOMAIN B[c].cfs = 1..Len(B[c].cfs)
  BY DEF WfBlocks, WfBlock, WfCfs, IsSeq
<1>3. \A c \in 1..Len(B) : \A l \in DOMAIN B[c].cfs :
        C[c].cfs[l] = IF c = b /\ l = k THEN cf ELSE B[c].cfs[l]
  BY <1>2 DEF CfsBut
<1>4. \A c \in 1..Len(B) : Len(C[c].cfs) = Len(B[c].cfs)
  BY <1>2, ExceptIsSeq DEF CfsBut
<1> HIDE DEF Kin, Leads, Hollow, Graph
<1>5. \A c \in 1..Len(B) : Kins(B[c], C[c])
  BY <1>3, <1>4, KinSelf DEF Kins
<1>6. \A c \in 1..Len(B) : \A l \in DOMAIN B[c].cfs : C[c].cfs[l] = B[c].cfs[l] \/ Leads(C[c].cfs[l], C)
  BY <1>3
<1>7. \A c \in (Len(B) + 1)..Len(C) : FALSE
  BY <1>1
<1> HIDE DEF Kins, CfsBut
<1> QED
  BY <1>1, <1>5, <1>6, <1>7, GraphStep

(* One more block, without code. *)
LEMMA AppendGraph ==
  ASSUME NEW B, WfBlocks(B), NEW o \in 0..Len(B), Graph(B, o), NEW x, WfBlock(x, Len(B) + 1),
         x.code = {}, x.start = 0 \/ Hollow(x), \A k \in DOMAIN x.cfs : Leads(x.cfs[k], Append(B, x))
  PROVE  Graph(Append(B, x), o)
<1>1. PICK C : C = Append(B, x)
  OBVIOUS
<1>2. IsSeq(B) /\ Len(B) \in Nat
  BY DEF WfBlocks, IsSeq
<1>3. /\ WfBlocks(C) /\ Len(C) = Len(B) + 1 /\ C[Len(B) + 1] = x
      /\ \A b \in 1..Len(B) : C[b] = B[b]
  BY <1>1, <1>2, AppendBlockWf, AppendIsSeq
<1>4. Extends(B, C)
  BY <1>2, <1>3 DEF Extends
<1>5. \A b \in 1..Len(B) : Kins(B[b], C[b])
  BY <1>3, KinSelf DEF Kins
<1>6. \A b \in (Len(B) + 1)..Len(C) : C[b] = x
  BY <1>2, <1>3
<1> HIDE DEF Kins, Leads, Hollow, Graph
<1>7. \A b \in (Len(B) + 1)..Len(C) :
           /\ C[b].start = 0 \/ Hollow(C[b])
           /\ \A k \in DOMAIN C[b].cfs : Leads(C[b].cfs[k], C)
  BY <1>1, <1>6
<1> QED
  BY <1>1, <1>3, <1>4, <1>5, <1>7, GraphStep

(* A block that is found at an address serves it. *)
LEMMA FoundServes ==
  ASSUME NEW B, WfBlocks(B), NEW p \in [Slots -> 0..Len(B)], OwnCode(B, p, 0), Disjoint(B),
         NEW o, Graph(B, o), NEW a \in Slots, p[a] # Null, p[a] # o
  PROVE  p[a] \in 1..Len(B) /\ Serves(B[p[a]], a)
<1>1. PICK x : x = B[p[a]]
  OBVIOUS
<1>2. Len(B) \in Nat /\ p[a] \in 1..Len(B) /\ a \in Int /\ a # 0
  BY NAssumption DEF WfBlocks, IsSeq, Null, Slots
<1>3. a \in x.code \/ (a = x.start /\ ~IsInstr(a))
  BY <1>1, <1>2 DEF OwnCode
<1>4. \A i \in x.code : IsInstr(i)
  BY <1>1, <1>2 DEF Disjoint
<1>5. Formed(x, FALSE)
  BY <1>1, <1>2 DEF Graph
<1> HIDE DEF IsInstr, Hollow
<1>6. x.code # {} => /\ x.start \in x.code /\ x.start # 0
  <2> SUFFICES ASSUME x.code # {} PROVE x.start \in x.code /\ x.start # 0
    OBVIOUS
  <2>1. PICK l \in Slots : Ends(x, l, FALSE)
    BY <1>5 DEF Formed
  <2>2. l \in Int /\ x.start \in 1..l /\ x.code = x.start..l
    BY <2>1, NAssumption DEF Ends, Slots
  <2> QED
    BY <2>2
<1> QED
  BY <1>1, <1>2, <1>3, <1>4, <1>5, <1>6 DEF Serves, Formed

-----------------------------------------------------------------------------
(* The scan.                                                               *)

(* No instruction of the open block changes the control flow. *)
LEMMA OpenClear ==
  ASSUME Inv, Pointers, Faith, phase = "scan", cur # Null
  PROVE  /\ cur \in 1..Len(bbs) /\ bbs[cur].end = 0 /\ bbs[cur].start \in 1..(pos - 1)
         /\ bbs[cur].code = bbs[cur].start..(pos - 1) /\ bbs[cur].cfs = <<>>
         /\ \A i \in bbs[cur].start..(pos - 1) : prog[i].kind \notin Terminators
<1>1. PICK x : x = bbs[cur]
  OBVIOUS
<1>2. cur \in 1..Len(bbs) /\ pos \in 1..(N + 1) /\ N \in Nat
  BY NAssumption DEF Inv, Typed, Null, WfBlocks, IsSeq
<1>3. /\ x.end = 0 /\ x.start \in 1..(pos - 1) /\ x.code = x.start..(pos - 1) /\ x.cfs = <<>>
      /\ prog[pos - 1].kind \notin Terminators
  BY <1>1, <1>2 DEF Pointers, OpenBlock
<1>4. Formed(x, TRUE)
  BY <1>1, <1>2 DEF Faith, Graph, Open
<1>5. PICK l \in Slots : x.code = x.start..l /\ \A i \in x.start..(l - 1) : prog[i].kind \notin Terminators
  <2>1. x.code # {}
    BY <1>2, <1>3
  <2>2. PICK l \in Slots : Ends(x, l, TRUE)
    BY <1>4, <2>1 DEF Formed
  <2> QED
    BY <2>2 DEF Ends
<1>6. l = pos - 1
  BY <1>2, <1>3, <1>5 DEF Slots
<1>7. \A i \in x.start..(pos - 1) : prog[i].kind \notin Terminators
  BY <1>2, <1>3, <1>5, <1>6
<1> QED
  BY <1>1, <1>2, <1>3, <1>7

(* It may end in front of slot pos. *)
LEMMA ClosedFormed ==
  ASSUME Inv, Pointers, Faith, phase = "scan", pos <= N, cur # Null,
         NEW x, x.start = bbs[cur].start, x.code = bbs[cur].code, Len(x.cfs) = 1, Falls(x.cfs[1], pos - 1),
         x.end = 0 => ~IsInstr(pos)
  PROVE  \A open : Formed(x, open)
<1>1. /\ x.start \in 1..(pos - 1) /\ x.code = x.start..(pos - 1)
      /\ \A i \in x.start..(pos - 1) : prog[i].kind \notin Terminators
  BY OpenClear
<1>2. pos \in 1..N /\ N \in Nat /\ pos - 1 \in Slots /\ pos \in Int /\ pos - 1 + 1 = pos
  BY <1>1, NAssumption DEF Inv, Typed, Slots
<1>3. x.code # {}
  BY <1>1, <1>2
<1> HIDE DEF Falls, IsInstr
<1>4. prog[pos - 1].kind \notin Terminators
  BY <1>1, <1>2
<1>5. \A open : GoesOn(x, pos - 1, open)
  BY <1>2, <1>4 DEF GoesOn
<1>6. \A open : Ends(x, pos - 1, open)
  <2> HIDE DEF GoesOn
  <2> QED
    BY <1>1, <1>2, <1>5 DEF Ends
<1> QED
  BY <1>2, <1>3, <1>6 DEF Formed

(* A jump stays able to find its block. *)
LEMMA FoundKept ==
  ASSUME prog' = prog, \A a \in Slots : ptr[a] # Null => ptr'[a] # Null,
         \A a \in Slots : Awaits(a) => ptr'[a] # Null \/ Awaits(a)'
  PROVE  \A cf : Found(cf) => Found(cf)'
<1>1. \A a : IsInstr(a)' <=> IsInstr(a)
  BY DEF IsInstr
<1>2. \A a : IsInstr(a) => a \in Slots
  BY DEF IsInstr
<1> HIDE DEF Awaits, IsInstr
<1> QED
  BY <1>1, <1>2 DEF Found, Direct

(* An operation that was there, or that needs no block. *)
Settles(cf) ==
  \/ \E c \in 1..Len(bbs) : \E l \in DOMAIN bbs[c].cfs : cf = bbs[c].cfs[l]
  \/ ~Direct(cf) \/ cf.target # Null

LEMMA ScannedFaith ==
  ASSUME Faith, phase = "scan", phase' \in {"scan", "cf"}, prog' = prog,
         NEW C, C = bbs', NEW o, o = Open', Graph(C, o),
         \A a \in Slots : ptr[a] # Null => ptr'[a] # Null,
         \A a \in Slots : Awaits(a) => ptr'[a] # Null \/ Awaits(a)',
         \A b \in 1..Len(C) : \A k \in DOMAIN C[b].cfs : Waiting(b, k)' \/ Settles(C[b].cfs[k])
  PROVE  Faith'
<1>1. Graph(bbs, Open)'
  BY PrimedGraph
<1>2. \A cf : Found(cf) => Found(cf)'
  BY FoundKept
<1>3. \A c \in 1..Len(bbs) : \A l \in DOMAIN bbs[c].cfs : Found(bbs[c].cfs[l])
  BY DEF Faith, AllFound, Waiting
<1>4. \A cf : ~Direct(cf) \/ cf.target # Null => Found(cf)'
  BY DEF Found, Direct
<1>5. \A cf : Settles(cf) => Found(cf)'
  <2> HIDE DEF Found
  <2> QED
    BY <1>2, <1>3, <1>4 DEF Settles
<1>6. AllFound'
  <2>1. \A b \in 1..Len(C) : \A k \in DOMAIN C[b].cfs : Waiting(b, k)' \/ Found(C[b].cfs[k])'
    <3> HIDE DEF Found, Settles, Waiting
    <3> QED
      BY <1>5
  <2> QED
    BY <2>1 DEF AllFound
<1>7. AllDone'
  BY DEF AllDone, Lifting
<1> QED
  BY <1>1, <1>6, <1>7 DEF Faith

(* Undecodable bytes end a block. *)
LEMMA UnreachableTraps ==
  ASSUME NEW B, WfBlocks(B), NEW b \in 1..Len(B), NEW i \in 0..N, B[b].cfs = <<>>, NEW C, C = Unreachable(B, b, i)
  PROVE  /\ WfBlocks(C) /\ Len(C) = Len(B)
         /\ \A c \in 1..Len(B) : /\ C[c].start = B[c].start /\ C[c].end = B[c].end /\ C[c].code = B[c].code
                                 /\ c # b => C[c].cfs = B[c].cfs
         /\ DOMAIN C[b].cfs = {1} /\ Len(C[b].cfs) = 1 /\ C[b].cfs[1] = Cf("unreachable", i, 0, Null)
<1> HIDE DEF Cf, Unreachable
<1>1. /\ SameExtent(B, C)
      /\ \A c \in 1..Len(B) : C[c].cfs = IF c = b THEN Append(B[b].cfs, Cf("unreachable", i, 0, Null)) ELSE B[c].cfs
  BY UnreachableSame
<1>2. PICK u : u = Cf("unreachable", i, 0, Null)
  OBVIOUS
<1>3. C[b].cfs = Append(<<>>, u)
  BY <1>1, <1>2
<1>4. DOMAIN C[b].cfs = {1} /\ Len(C[b].cfs) = 1 /\ C[b].cfs[1] = u
  BY <1>3, EmptyIsSeq, AppendIsSeq
<1> QED
  BY <1>1, <1>2, <1>4 DEF SameExtent, Extends

(* What the scan adds to the operations needs no block: a trap, and the    *)
(* jump of a block to the one that is opened behind it.                    *)
LEMMA ScanOpsLead ==
  /\ \A i, B : Leads(Cf("unreachable", i, 0, Null), B)
  /\ \A i : Settles(Cf("unreachable", i, 0, Null))
  /\ \A l : ~IsInstr(l + 1) => Falls(Cf("unreachable", l + 1, 0, Null), l)
  /\ \A l, n : n # Null => Falls(Cf("jump", l, l + 1, n), l)
  /\ \A i, j, n : n # Null => Settles(Cf("jump", i, j, n))
  /\ \A i, j, n, B : Serves(B[n], j) => Leads(Cf("jump", i, j, n), B)
BY DEF Leads, Direct, Cf, Null, Settles, Falls

(* The open block ends in front of undecodable bytes. *)
LEMMA UnreachableGraph ==
  ASSUME Inv, Pointers, Faith, phase = "scan", pos <= N, cur # Null, ~IsInstr(pos),
         NEW C, C = Unreachable(bbs, cur, pos)
  PROVE  /\ Graph(C, Null)
         /\ \A b \in 1..Len(C) : \A k \in DOMAIN C[b].cfs : Settles(C[b].cfs[k])
<1>1. /\ WfBlocks(bbs) /\ Len(bbs) \in Nat /\ cur \in 1..Len(bbs) /\ bbs[cur].cfs = <<>>
      /\ pos \in 0..N /\ pos \in Int /\ bbs[cur].code # {}
  <2>1. pos \in 1..(N + 1) /\ WfBlocks(bbs) /\ N \in Nat
    BY NAssumption DEF Inv, Typed
  <2>2. /\ cur \in 1..Len(bbs) /\ bbs[cur].cfs = <<>> /\ bbs[cur].start \in 1..(pos - 1)
        /\ bbs[cur].code = bbs[cur].start..(pos - 1)
    BY OpenClear
  <2> QED
    BY <2>1, <2>2 DEF WfBlocks, IsSeq
<1>2. PICK u : u = Cf("unreachable", pos, 0, Null)
  OBVIOUS
<1>3. /\ WfBlocks(C) /\ Len(C) = Len(bbs)
      /\ \A c \in 1..Len(bbs) : /\ C[c].start = bbs[c].start /\ C[c].end = bbs[c].end /\ C[c].code = bbs[c].code
                                /\ c # cur => C[c].cfs = bbs[c].cfs
      /\ DOMAIN C[cur].cfs = {1} /\ Len(C[cur].cfs) = 1 /\ C[cur].cfs[1] = u
  <2> HIDE DEF Unreachable, Cf
  <2> QED
    BY <1>1, <1>2, UnreachableTraps
<1> HIDE DEF Leads, Settles, Falls, Formed, IsInstr, Kins
<1>4. Leads(u, C) /\ Settles(u) /\ Falls(u, pos - 1)
  <2>1. pos - 1 + 1 = pos /\ pos - 1 \in Int
    BY <1>1
  <2>2. \A l : ~IsInstr(l + 1) => Falls(Cf("unreachable", l + 1, 0, Null), l)
    BY ScanOpsLead
  <2>3. Falls(Cf("unreachable", pos - 1 + 1, 0, Null), pos - 1)
    BY <2>1, <2>2
  <2> QED
    BY <1>2, <2>1, <2>3, ScanOpsLead
<1>5. Rebuilt(C, cur, Null)
  <2>1. PICK x : x = C[cur]
    OBVIOUS
  <2>2. /\ x.start = bbs[cur].start /\ x.code = bbs[cur].code /\ Len(x.cfs) = 1 /\ Falls(x.cfs[1], pos - 1)
    BY <1>1, <1>3, <1>4, <2>1
  <2>3. \A open : Formed(x, open)
    BY <2>2, ClosedFormed
  <2> QED
    BY <1>3, <1>4, <2>1, <2>3 DEF Rebuilt
<1>6. \A b \in 1..Len(bbs) : b # cur => Stays(bbs, C, b)
  BY <1>3, KinSelf DEF Stays, Kins
<1>7. Graph(bbs, cur)
  BY DEF Faith, Open
<1>8. PICK S : S = {cur}
  OBVIOUS
<1> HIDE DEF Graph, Stays, Rebuilt
<1>9. Graph(C, Null)
  <2>1. Rebuilds(bbs, C, cur, Null, S)
    BY <1>1, <1>3, <1>5, <1>6, <1>8 DEF Rebuilds, Null
  <2> HIDE DEF Rebuilds
  <2> QED
    BY <1>1, <1>3, <1>7, <2>1, RebuiltGraph
<1>10. ASSUME NEW b \in 1..Len(C), NEW k \in DOMAIN C[b].cfs
       PROVE  Settles(C[b].cfs[k])
  <2>1. CASE b = cur
    BY <1>3, <1>4, <2>1
  <2>2. CASE b # cur
    BY <1>3, <2>2 DEF Settles
  <2> QED
    BY <2>1, <2>2
<1> QED
  BY <1>9, <1>10

(* A block is opened at slot pos: the one before it goes on there. *)
LEMMA OpenedGraph ==
  ASSUME Inv, Pointers, Faith, phase = "scan", pos <= N, NEW n, n = Len(bbs) + 1,
         NEW C, WfBlocks(C), Len(C) = n,
         \A c \in 1..Len(bbs) : /\ C[c].start = OpenBlocks[c].start /\ C[c].code = OpenBlocks[c].code
                                /\ C[c].end = OpenBlocks[c].end /\ C[c].cfs = OpenBlocks[c].cfs,
         Serves(C[n], pos), NEW o \in {Null, n}, Rebuilt(C, n, o)
  PROVE  /\ Graph(C, o)
         /\ \A b \in 1..Len(bbs) : \A k \in DOMAIN C[b].cfs : Settles(C[b].cfs[k])
<1>1. /\ WfBlocks(bbs) /\ Len(bbs) \in Nat /\ n # Null /\ n \in Nat /\ pos \in Int /\ pos - 1 + 1 = pos
      /\ cur \in 0..Len(bbs)
      /\ cur # Null => /\ cur \in 1..Len(bbs) /\ bbs[cur].cfs = <<>> /\ bbs[cur].code # {}
  <2>1. pos \in 1..(N + 1) /\ WfBlocks(bbs) /\ N \in Nat /\ cur \in 0..Len(bbs)
    BY NAssumption DEF Inv, Typed
  <2>2. Len(bbs) \in Nat
    BY <2>1 DEF WfBlocks, IsSeq
  <2>3. cur # Null => /\ cur \in 1..Len(bbs) /\ bbs[cur].cfs = <<>> /\ bbs[cur].start \in 1..(pos - 1)
                      /\ bbs[cur].code = bbs[cur].start..(pos - 1)
    BY OpenClear
  <2>4. pos \in Int /\ pos - 1 + 1 = pos /\ n # Null /\ n \in Nat
    BY <2>1, <2>2 DEF Null
  <2>5. cur # Null => bbs[cur].code # {}
    <3>1. \A s \in 1..(pos - 1) : s \in s..(pos - 1)
      BY <2>4
    <3> QED
      BY <2>3, <3>1
  <2> QED
    BY <2>1, <2>2, <2>3, <2>4, <2>5
<1>2. PICK j : j = Cf("jump", pos - 1, pos, n)
  OBVIOUS
<1>3. \A c \in 1..Len(bbs) :
        /\ C[c].start = bbs[c].start /\ C[c].code = bbs[c].code
        /\ C[c].end = IF c = cur THEN pos - 1 ELSE bbs[c].end
        /\ C[c].cfs = IF c = cur THEN Append(bbs[c].cfs, j) ELSE bbs[c].cfs
  <2> HIDE DEF Cf, OpenBlocks
  <2> QED
    BY <1>2, OpenWf
<1>4. cur # Null => DOMAIN C[cur].cfs = {1} /\ Len(C[cur].cfs) = 1 /\ C[cur].cfs[1] = j
  <2> SUFFICES ASSUME cur # Null
               PROVE  DOMAIN C[cur].cfs = {1} /\ Len(C[cur].cfs) = 1 /\ C[cur].cfs[1] = j
    OBVIOUS
  <2>1. C[cur].cfs = Append(<<>>, j)
    BY <1>1, <1>3
  <2> QED
    BY <2>1, EmptyIsSeq, AppendIsSeq
<1> HIDE DEF Leads, Settles, Falls, Formed, IsInstr, Kins, Serves
<1>5. Leads(j, C) /\ Settles(j) /\ Falls(j, pos - 1)
  <2>1. \A l : Falls(Cf("jump", l, l + 1, n), l)
    BY <1>1, ScanOpsLead
  <2>2. Falls(Cf("jump", pos - 1, pos - 1 + 1, n), pos - 1)
    BY <2>1
  <2>3. \A i, k, B : /\ Settles(Cf("jump", i, k, n))
                     /\ Serves(B[n], k) => Leads(Cf("jump", i, k, n), B)
    BY <1>1, ScanOpsLead
  <2> HIDE DEF Cf
  <2> QED
    BY <1>1, <1>2, <2>2, <2>3
<1>6. cur # Null => Rebuilt(C, cur, o)
  <2> SUFFICES ASSUME cur # Null
               PROVE  Rebuilt(C, cur, o)
    OBVIOUS
  <2>1. PICK x : x = C[cur]
    OBVIOUS
  <2>2. /\ x.start = bbs[cur].start /\ x.code = bbs[cur].code /\ Len(x.cfs) = 1 /\ Falls(x.cfs[1], pos - 1)
        /\ x.end = pos - 1
    BY <1>1, <1>3, <1>4, <1>5, <2>1
  <2>3. x.end # 0
    <3>1. bbs[cur].start \in 1..(pos - 1)
      BY OpenClear
    <3>2. x.end = pos - 1
      BY <2>2
    <3> QED
      BY <1>1, <3>1, <3>2
  <2>4. \A open : Formed(x, open)
    BY <2>2, <2>3, ClosedFormed
  <2> QED
    BY <1>4, <1>5, <2>1, <2>4 DEF Rebuilt
<1>7. \A b \in 1..Len(bbs) : b # cur => Stays(bbs, C, b)
  BY <1>3, KinSelf DEF Stays, Kins
<1>8. Graph(bbs, cur)
  BY DEF Faith, Open
<1>9. PICK S : S = {cur}
  OBVIOUS
<1> HIDE DEF Graph, Stays, Rebuilt
<1>10. Graph(C, o)
  <2>1. Rebuilds(bbs, C, cur, o, S)
    <3>1. \A b \in 1..Len(bbs) : /\ b \in S => bbs[b].code # {}
                                 /\ b \notin S => (b = cur <=> b = o) /\ Stays(bbs, C, b)
      BY <1>1, <1>7, <1>9 DEF Null
    <3>2. \A b \in 1..Len(C) : b \in S \/ b > Len(bbs) => Rebuilt(C, b, o)
      BY <1>1, <1>6, <1>9 DEF Null
    <3> QED
      BY <1>1, <1>3, <3>1, <3>2 DEF Rebuilds
  <2> HIDE DEF Rebuilds
  <2> QED
    BY <1>1, <1>8, <2>1, RebuiltGraph
<1>11. ASSUME NEW b \in 1..Len(bbs), NEW k \in DOMAIN C[b].cfs
       PROVE  Settles(C[b].cfs[k])
  <2>1. CASE b = cur
    BY <1>1, <1>4, <1>5, <2>1 DEF Null
  <2>2. CASE b # cur
    BY <1>3, <2>2 DEF Settles
  <2> QED
    BY <2>1, <2>2
<1> QED
  BY <1>10, <1>11

(* The scan passes undecodable bytes. *)
LEMMA PassedFaith ==
  ASSUME Inv, Faith, phase = "scan", pos <= N, ~IsInstr(pos),
         cur' = Null, pos' = pos + 1, phase' = "scan", UNCHANGED <<prog, needs>>,
         NEW C, C = bbs', Graph(C, Null),
         \A a \in Slots : ptr[a] # Null => ptr'[a] # Null,
         \A b \in 1..Len(C) : \A k \in DOMAIN C[b].cfs : Settles(C[b].cfs[k])
  PROVE  Faith'
<1>1. \A a \in Slots : Awaits(a) => Awaits(a)'
  <2>1. pos \in Int /\ \A a \in Slots : a \in Int
    BY DEF Inv, Typed, Slots
  <2>2. Horizon = pos - 1 /\ Horizon' = pos
    BY <2>1 DEF Horizon
  <2>3. \A a : IsInstr(a)' <=> IsInstr(a)
    BY DEF IsInstr
  <2> HIDE DEF IsInstr
  <2> QED
    BY <2>1, <2>2, <2>3 DEF Awaits
<1>2. PICK o : o = Open'
  OBVIOUS
<1>3. o = Null
  BY <1>2 DEF Open
<1> HIDE DEF Graph, Settles, Awaits, Open
<1> QED
  BY <1>1, <1>2, <1>3, ScannedFaith

(* With or without an open block. *)
LEMMA DataFaith ==
  ASSUME Inv, Pointers, Faith, phase = "scan", pos <= N, ~IsInstr(pos),
         cur' = Null, pos' = pos + 1, phase' = "scan", UNCHANGED <<prog, needs, ptr>>,
         bbs' = IF cur = Null THEN bbs ELSE Unreachable(bbs, cur, pos)
  PROVE  Faith'
<1>1. PICK C : C = bbs'
  OBVIOUS
<1> HIDE DEF Faith, Settles, IsInstr, Unreachable, Graph
<1>2. CASE cur = Null
  <2>1. C = bbs
    BY <1>1, <1>2
  <2>2. Graph(C, Null)
    BY <1>2, <2>1 DEF Faith, Open
  <2>3. \A b \in 1..Len(C) : \A k \in DOMAIN C[b].cfs : Settles(C[b].cfs[k])
    BY <2>1 DEF Settles
  <2> QED
    BY <1>1, <2>2, <2>3, PassedFaith
<1>3. CASE cur # Null
  <2>1. /\ Graph(C, Null)
        /\ \A b \in 1..Len(C) : \A k \in DOMAIN C[b].cfs : Settles(C[b].cfs[k])
    BY <1>1, <1>3, UnreachableGraph
  <2> QED
    BY <1>1, <2>1, PassedFaith
<1> QED
  BY <1>2, <1>3

LEMMA ScanDataFaith ==
  ASSUME Inv, Pointers, Faith, ScanData
  PROVE  Faith'
<1>1. /\ phase = "scan" /\ pos <= N /\ cur' = Null /\ pos' = pos + 1 /\ phase' = "scan" /\ UNCHANGED <<prog, needs, ptr>>
      /\ bbs' = IF cur = Null THEN bbs ELSE Unreachable(bbs, cur, pos)
      /\ ~IsInstr(pos)
  BY DEF ScanData, IsInstr
<1> QED
  BY <1>1, DataFaith

(* The block that an earlier jump asked for does nothing but trap. *)
LEMMA ScanInvalidFaith ==
  ASSUME Inv, Pointers, Faith, ScanInvalid
  PROVE  Faith'
<1>1. /\ phase = "scan" /\ pos <= N /\ cur' = Null /\ pos' = pos + 1 /\ phase' = "scan" /\ UNCHANGED <<prog, needs>>
      /\ cur # Null /\ pos \in needs => bbs' = Unreachable(OpenBlocks, Len(bbs) + 1, pos) /\ ptr' = OpenPtr
      /\ ~(cur # Null /\ pos \in needs) => bbs' = (IF cur = Null THEN bbs ELSE Unreachable(bbs, cur, pos)) /\ ptr' = ptr
      /\ ~IsInstr(pos)
  BY DEF ScanInvalid, IsInstr
<1> HIDE DEF IsInstr, Unreachable, OpenBlocks
<1>2. CASE ~(cur # Null /\ pos \in needs)
  BY <1>1, <1>2, DataFaith
<1>3. CASE cur # Null /\ pos \in needs
  <2>1. PICK n : n = Len(bbs) + 1
    OBVIOUS
  <2>2. PICK B : B = OpenBlocks
    OBVIOUS
  <2>3. PICK C : C = bbs'
    OBVIOUS
  <2>4. pos \in 0..N /\ Len(bbs) \in Nat /\ n \in Nat /\ n \in 1..n
    BY <1>1, <2>1, NAssumption DEF Inv, Typed, WfBlocks, IsSeq
  <2>5. /\ WfBlocks(B) /\ Len(B) = n
        /\ B[n].start = pos /\ B[n].code = {} /\ B[n].cfs = <<>>
    BY <1>1, <2>1, <2>2, OpenWf
  <2>6. /\ WfBlocks(C) /\ Len(C) = n
        /\ \A c \in 1..n : /\ C[c].start = B[c].start /\ C[c].end = B[c].end /\ C[c].code = B[c].code
                           /\ c # n => C[c].cfs = B[c].cfs
        /\ DOMAIN C[n].cfs = {1} /\ C[n].cfs[1] = Cf("unreachable", pos, 0, Null)
    <3>1. C = Unreachable(B, n, pos)
      BY <1>1, <1>3, <2>1, <2>2, <2>3
    <3> HIDE DEF Cf
    <3> QED
      BY <2>4, <2>5, <3>1, UnreachableTraps
  <2>7. Hollow(C[n])
    BY <2>4, <2>5, <2>6 DEF Hollow, Cf
  <2>8. PICK u : u = Cf("unreachable", pos, 0, Null)
    OBVIOUS
  <2>9. Leads(u, C) /\ Settles(u)
    BY <2>8, ScanOpsLead
  <2> HIDE DEF Hollow, Leads, Settles, Cf, Formed
  <2>10. Rebuilt(C, n, Null)
    <3>1. Formed(C[n], n = Null)
      BY <2>4, <2>5, <2>6, <2>7 DEF Formed
    <3>2. \A k \in DOMAIN C[n].cfs : Leads(C[n].cfs[k], C)
      BY <2>6, <2>8, <2>9
    <3> QED
      BY <3>1, <3>2 DEF Rebuilt
  <2>11. Serves(C[n], pos)
    BY <1>1, <2>7 DEF Serves
  <2> HIDE DEF Rebuilt, Serves, Graph
  <2>12. /\ Graph(C, Null)
         /\ \A b \in 1..Len(bbs) : \A k \in DOMAIN C[b].cfs : Settles(C[b].cfs[k])
    <3>1. \A c \in 1..Len(bbs) : /\ C[c].start = OpenBlocks[c].start /\ C[c].code = OpenBlocks[c].code
                                 /\ C[c].end = OpenBlocks[c].end /\ C[c].cfs = OpenBlocks[c].cfs
      BY <2>1, <2>2, <2>4, <2>6
    <3>2. PICK o : o = Null
      OBVIOUS
    <3> QED
      BY <1>1, <2>1, <2>6, <2>10, <2>11, <3>1, <3>2, OpenedGraph
  <2>13. \A b \in 1..Len(C) : \A k \in DOMAIN C[b].cfs : Settles(C[b].cfs[k])
    BY <2>1, <2>4, <2>6, <2>8, <2>9, <2>12
  <2>14. \A a \in Slots : ptr[a] # Null => ptr'[a] # Null
    BY <1>1, <1>3, OpenPtrKeeps
  <2> QED
    BY <1>1, <2>3, <2>12, <2>13, <2>14, PassedFaith
<1> QED
  BY <1>2, <1>3

(* The operations of an instruction lead nowhere yet, and are its own.     *)
LEMMA IssuedOps ==
  ASSUME NEW ins \in Instr, NEW i \in Slots, NEW I, I = CfsOf(ins, i), NEW B
  PROVE  /\ \A k \in DOMAIN I : Leads(I[k], B)
         /\ Made(I, I)
         /\ ins.kind \notin Terminators => Len(I) = 0
<1>1. \A k \in DOMAIN I : I[k].target = Null /\ I[k].cont = Null
  BY IssuedCalls
<1>2. \A k \in DOMAIN I : Leads(I[k], B)
  BY <1>1 DEF Leads
<1>3. Made(I, I)
  BY DEF Made, Makes
<1>4. ins.kind \notin Terminators => Len(I) = 0
  BY CfsOfSites, EmptyIsSeq
<1> QED
  BY <1>2, <1>3, <1>4

(* An instruction joins the open block; one that changes the control flow  *)
(* ends it.                                                                *)
LEMMA LiftedFormed ==
  ASSUME NEW x, pos \in Slots, prog[pos] \in Instr, x.start \in 1..pos, x.code = x.start..pos,
         x.cfs = CfsOf(prog[pos], pos),
         \A i \in x.start..(pos - 1) : prog[i].kind \notin Terminators,
         prog[pos].kind \in Terminators => x.end = pos,
         NEW open, prog[pos].kind \notin Terminators => open
  PROVE  Formed(x, open)
<1>1. PICK I : I = CfsOf(prog[pos], pos)
  OBVIOUS
<1>2. Made(I, I) /\ (prog[pos].kind \notin Terminators => Len(I) = 0)
  BY <1>1, IssuedOps
<1> HIDE DEF Made
<1>3. GoesOn(x, pos, open)
  BY <1>1, <1>2 DEF GoesOn
<1>4. Ends(x, pos, open)
  <2> HIDE DEF GoesOn
  <2> QED
    BY <1>3 DEF Ends
<1>5. pos \in Int /\ x.start \in x.code
  BY NAssumption DEF Slots
<1> QED
  BY <1>4, <1>5 DEF Formed

(* The slot that is lifted was awaited only if a block is opened there. *)
LEMMA LiftedAwaits ==
  ASSUME Inv, Pointers, Disjoint(bbs), ScanInstr
  PROVE  /\ \A a \in Slots : ptr[a] # Null => ptr'[a] # Null
         /\ \A a \in Slots : Awaits(a) => ptr'[a] # Null \/ Awaits(a)'
<1>1. PICK opens : opens <=> cur = Null \/ pos \in needs
  OBVIOUS
<1>2. PICK b : b = IF opens THEN Len(bbs) + 1 ELSE cur
  OBVIOUS
<1>3. PICK B : B = IF opens THEN OpenBlocks ELSE bbs
  OBVIOUS
<1>4. PICK p : p = IF opens THEN OpenPtr ELSE ptr
  OBVIOUS
<1>5. /\ phase = "scan" /\ pos <= N /\ pos \in Slots /\ pos \in Int /\ Len(bbs) \in Nat /\ cur \in 0..Len(bbs)
      /\ Horizon = pos - 1 /\ needs' = needs
  BY NAssumption DEF ScanInstr, Inv, Typed, WfBlocks, IsSeq, Slots, Horizon
<1> HIDE DEF OpenBlocks, OpenPtr, Disjoint, Pointers, ScanInstr
<1>6. b \in 1..Len(B) /\ Len(B) \in Nat
  BY <1>1, <1>2, <1>3, <1>4, <1>5, TargetBlock
<1>7. \A a \in Slots : ptr[a] # Null => p[a] # Null
  <2>1. Inv /\ Pointers /\ Disjoint(bbs) /\ phase = "scan" /\ pos <= N
    BY <1>5
  <2>2. /\ B[b].end = 0 /\ p[pos] \in {Null, b}
        /\ \A a \in Slots : ptr[a] # Null => p[a] # Null
    <3> HIDE DEF Inv, Null, Slots
    <3> QED
      BY <1>1, <1>2, <1>3, <1>4, <2>1, TargetOpen
  <2> QED
    BY <2>2
<1>8. /\ prog' = prog
      /\ \/ /\ ptr' = SetEnd(p, b, B[b].start, pos)
            /\ phase' = "cf" /\ pos' = pos
         \/ /\ ptr' = p
            /\ phase' = "scan" /\ pos' = pos + 1
  BY <1>1, <1>2, <1>3, <1>4, ScanInstrFields
<1>9. Horizon' = pos
  BY <1>5, <1>8 DEF Horizon
<1>10. \A a \in Slots : p[a] # Null => ptr'[a] # Null
  BY <1>6, <1>8 DEF SetEnd, Null
<1>11. \A a \in Slots : Awaits(a) => ptr'[a] # Null \/ Awaits(a)'
  <2> SUFFICES ASSUME NEW a \in Slots, Awaits(a)
               PROVE  ptr'[a] # Null \/ Awaits(a)'
    OBVIOUS
  <2>1. a \in needs /\ a > pos - 1 /\ IsInstr(a) /\ a \in Int
    BY <1>5 DEF Awaits, Slots
  <2>2. IsInstr(a)'
    BY <1>8, <2>1 DEF IsInstr
  <2>3. CASE a > pos
    BY <1>5, <1>9, <2>1, <2>2, <2>3 DEF Awaits
  <2>4. CASE a = pos
    <3>1. p = OpenPtr
      BY <1>1, <1>4, <2>1, <2>4
    <3>2. p[pos] # Null
      BY <1>5, <3>1, OpenPtrKeeps DEF Null
    <3> QED
      BY <1>5, <1>10, <2>4, <3>2
  <2> QED
    BY <1>5, <2>1, <2>3, <2>4
<1> QED
  BY <1>7, <1>10, <1>11

(* The blocks after an instruction was lifted into block b. *)
LEMMA ScanInstrGraph ==
  ASSUME Inv, Inv', Pointers, Disjoint(bbs), Faith, ScanInstr, NEW C, C = bbs', NEW o, o = Open',
         NEW b, b = cur'
  PROVE  /\ Graph(C, o)
         /\ C[b].cfs = CfsOf(prog[pos], pos)
         /\ \A c \in 1..Len(C) : c # b => \A k \in DOMAIN C[c].cfs : Settles(C[c].cfs[k])
<1>1. PICK opens : opens <=> cur = Null \/ pos \in needs
  OBVIOUS
<1>2. PICK t : t = IF opens THEN Len(bbs) + 1 ELSE cur
  OBVIOUS
<1>3. PICK B : B = IF opens THEN OpenBlocks ELSE bbs
  OBVIOUS
<1>4. PICK p : p = IF opens THEN OpenPtr ELSE ptr
  OBVIOUS
<1>5. /\ phase = "scan" /\ pos <= N /\ pos \in Slots /\ pos \in Int /\ WfBlocks(bbs) /\ Len(bbs) \in Nat
      /\ cur \in 0..Len(bbs) /\ prog[pos] \in Instr /\ WfBlocks(C) /\ IsInstr(pos)
  BY NAssumption, InstrAssumption DEF ScanInstr, Inv, Typed, WfBlocks, IsSeq, Slots, IsInstr
<1> HIDE DEF OpenBlocks, OpenPtr, Disjoint, Pointers, ScanInstr
<1>6. /\ WfBlocks(B) /\ t \in 1..Len(B) /\ Len(B) \in Nat
      /\ Len(B) = IF opens THEN Len(bbs) + 1 ELSE Len(bbs)
  BY <1>1, <1>2, <1>3, <1>4, <1>5, TargetBlock
<1>7. B[t].start \in 1..pos /\ B[t].code = B[t].start..(pos - 1)
  BY <1>1, <1>2, <1>3, <1>4, <1>5, TargetOpen
<1>8. /\ Len(C) = Len(B)
      /\ \A c \in 1..Len(B) :
           /\ C[c].start = B[c].start
           /\ C[c].code = CodeWith(B, t, pos, c)
           /\ c # t => C[c].cfs = B[c].cfs /\ C[c].end = B[c].end
      /\ C[t].cfs = CfsOf(prog[pos], pos)
      /\ b = t
      /\ \/ prog[pos].kind \in Terminators /\ C[t].end = pos /\ phase' = "cf"
         \/ prog[pos].kind \notin Terminators /\ phase' = "scan"
  BY <1>1, <1>2, <1>3, <1>4, ScanInstrFields
<1>9. o = IF prog[pos].kind \in Terminators THEN Null ELSE t
  BY <1>8 DEF Open
<1>10. C[t].start \in 1..pos /\ C[t].code = C[t].start..pos /\ C[t].start # 0
  <2>1. C[t].start = B[t].start /\ C[t].code = B[t].code \cup {pos}
    BY <1>6, <1>8 DEF CodeWith
  <2>2. PICK x : x = B[t].start
    OBVIOUS
  <2>3. x \in Int /\ x <= pos /\ x # 0 /\ x \in 1..pos
    BY <1>5, <1>7, <2>2
  <2>4. (x..(pos - 1)) \cup {pos} = x..pos
    BY <1>5, <2>3, RunGrows
  <2> QED
    BY <1>7, <2>1, <2>2, <2>3, <2>4
<1>11. \A i \in C[t].start..(pos - 1) : prog[i].kind \notin Terminators
  <2>1. CASE opens
    <3>1. C[t].start = pos
      BY <1>2, <1>3, <1>5, <1>6, <1>8, <2>1, OpenWf
    <3> QED
      BY <1>5, <3>1
  <2>2. CASE ~opens
    <3>1. cur # Null /\ t = cur /\ B = bbs
      BY <1>1, <1>2, <1>3, <2>2
    <3>2. C[t].start = bbs[cur].start
      BY <1>6, <1>8, <3>1
    <3> QED
      BY <1>5, <3>1, <3>2, OpenClear
  <2> QED
    BY <2>1, <2>2
<1>12. Rebuilt(C, t, o)
  <2>1. PICK x : x = C[t]
    OBVIOUS
  <2>2. PICK open : open = (t = o)
    OBVIOUS
  <2>3. t # Null
    BY <1>6 DEF Null
  <2>4. prog[pos].kind \notin Terminators => open
    BY <1>9, <2>2
  <2>5. Formed(x, open)
    <3> HIDE DEF Formed, CfsOf, Terminators
    <3> QED
      BY <1>5, <1>8, <1>10, <1>11, <2>1, <2>4, LiftedFormed
  <2>6. PICK I : I = CfsOf(prog[pos], pos)
    OBVIOUS
  <2> HIDE DEF Leads, Formed, CfsOf
  <2>7. \A k \in DOMAIN I : Leads(I[k], C)
    BY <1>5, <2>6, IssuedOps
  <2> QED
    BY <1>8, <2>1, <2>2, <2>5, <2>6, <2>7 DEF Rebuilt
<1> HIDE DEF Settles, Rebuilt, Graph, CfsOf, Terminators, Faith
<1>13. CASE opens
  <2>1. t = Len(bbs) + 1 /\ Len(C) = t /\ B = OpenBlocks
    BY <1>2, <1>3, <1>6, <1>8, <1>13
  <2>2. \A c \in 1..Len(bbs) : /\ C[c].start = OpenBlocks[c].start /\ C[c].code = OpenBlocks[c].code
                               /\ C[c].end = OpenBlocks[c].end /\ C[c].cfs = OpenBlocks[c].cfs
    BY <1>5, <1>6, <1>8, <2>1 DEF CodeWith
  <2>3. Serves(C[t], pos)
    BY <1>5, <1>10 DEF Serves
  <2>4. o \in {Null, t}
    BY <1>9
  <2>5. /\ Graph(C, o)
        /\ \A c \in 1..Len(bbs) : \A k \in DOMAIN C[c].cfs : Settles(C[c].cfs[k])
    <3> HIDE DEF Serves
    <3> QED
      BY <1>5, <1>12, <2>1, <2>2, <2>3, <2>4, OpenedGraph
  <2>6. \A c \in 1..Len(C) : c # b => c \in 1..Len(bbs)
    BY <1>5, <1>8, <2>1
  <2> QED
    BY <1>8, <2>5, <2>6
<1>14. CASE ~opens
  <2>1. t = cur /\ Len(C) = Len(bbs) /\ B = bbs /\ cur # Null
    BY <1>1, <1>2, <1>3, <1>8, <1>14
  <2>2. bbs[cur].code # {}
    <3>1. bbs[cur].start \in 1..(pos - 1) /\ bbs[cur].code = bbs[cur].start..(pos - 1)
      BY <1>5, <2>1, OpenClear
    <3>2. \A s \in 1..(pos - 1) : s \in s..(pos - 1)
      BY <1>5
    <3> QED
      BY <3>1, <3>2
  <2>3. \A c \in 1..Len(bbs) : c # cur => /\ C[c].start = bbs[c].start /\ C[c].code = bbs[c].code
                                          /\ C[c].end = bbs[c].end /\ C[c].cfs = bbs[c].cfs
    BY <1>8, <2>1 DEF CodeWith
  <2>4. \A c \in 1..Len(bbs) : c # cur => Stays(bbs, C, c)
    <3> HIDE DEF Kin
    <3> QED
      BY <2>3, KinSelf DEF Stays, Kins
  <2>5. PICK S : S = {cur}
    OBVIOUS
  <2>6. Graph(bbs, cur)
    BY <1>5 DEF Faith, Open
  <2>7. Graph(C, o)
    <3>1. \A c \in 1..Len(bbs) : c # cur => c # o
      BY <1>6, <1>9, <2>1 DEF Null
    <3>2. C[cur].start = bbs[cur].start
      BY <1>6, <1>8, <2>1
    <3> HIDE DEF Stays
    <3>3. Rebuilds(bbs, C, cur, o, S)
      BY <1>5, <1>12, <2>1, <2>2, <2>3, <2>4, <2>5, <3>1, <3>2 DEF Rebuilds
    <3> HIDE DEF Rebuilds
    <3> QED
      BY <1>5, <2>6, <3>3, RebuiltGraph
  <2>8. \A c \in 1..Len(C) : c # b => \A k \in DOMAIN C[c].cfs : Settles(C[c].cfs[k])
    BY <1>8, <2>1, <2>3 DEF Settles
  <2> QED
    BY <1>8, <2>7, <2>8
<1> QED
  BY <1>13, <1>14

LEMMA ScanInstrFaith ==
  ASSUME Inv, Inv', Pointers, Disjoint(bbs), Faith, ScanInstr
  PROVE  Faith'
<1>1. PICK C : C = bbs'
  OBVIOUS
<1>2. PICK o : o = Open'
  OBVIOUS
<1>3. PICK b : b = cur'
  OBVIOUS
<1>4. PICK I : I = CfsOf(prog[pos], pos)
  OBVIOUS
<1>5. /\ phase = "scan" /\ phase' \in {"scan", "cf"} /\ prog' = prog /\ pos \in Slots /\ prog[pos] \in Instr
      /\ prog[pos].kind \in Terminators => phase' = "cf" /\ cfi' = 1
  BY NAssumption, InstrAssumption DEF ScanInstr, Inv, Typed, Slots
<1> HIDE DEF Disjoint, Pointers, ScanInstr, Faith, CfsOf, Terminators, Settles, Graph
<1>6. /\ \A a \in Slots : ptr[a] # Null => ptr'[a] # Null
      /\ \A a \in Slots : Awaits(a) => ptr'[a] # Null \/ Awaits(a)'
  BY LiftedAwaits
<1>7. /\ Graph(C, o)
      /\ C[b].cfs = I
      /\ \A c \in 1..Len(C) : c # b => \A k \in DOMAIN C[c].cfs : Settles(C[c].cfs[k])
  BY <1>1, <1>2, <1>3, <1>4, ScanInstrGraph
<1>8. /\ prog[pos].kind \notin Terminators => DOMAIN I = {}
      /\ \A k \in DOMAIN I : k \in Nat /\ k >= 1
  BY <1>4, <1>5, IssuedCalls
<1>9. \A k \in DOMAIN C[b].cfs : Waiting(b, k)'
  BY <1>3, <1>5, <1>7, <1>8 DEF Waiting, Lifting
<1>10. \A c \in 1..Len(C) : \A k \in DOMAIN C[c].cfs : Waiting(c, k)' \/ Settles(C[c].cfs[k])
  <2> HIDE DEF Waiting
  <2> QED
    BY <1>7, <1>9
<1> HIDE DEF Awaits, Waiting, Open
<1> QED
  BY <1>1, <1>2, <1>5, <1>6, <1>7, <1>10, ScannedFaith

(* The last block may end with the program. *)
LEMMA FinishScanFaith ==
  ASSUME Inv, Pointers, Faith, FinishScan
  PROVE  Faith'
<1>1. /\ phase = "scan" /\ pos = N + 1 /\ pos \in Int /\ N \in Nat /\ WfBlocks(bbs) /\ Len(bbs) \in Nat /\ cur \in 0..Len(bbs)
      /\ phase' \in {"crashed", "post"} /\ UNCHANGED <<prog, bbs, ptr>>
      /\ todo' = UNION {{b} \X DOMAIN bbs[b].cfs : b \in DOMAIN bbs}
      /\ DOMAIN bbs = 1..Len(bbs) /\ Horizon = N
  BY NAssumption DEF FinishScan, Inv, Typed, WfBlocks, IsSeq, Horizon
<1>2. Graph(bbs, cur)
  BY <1>1 DEF Faith, Open
<1>3. cur # Null => /\ \A open : Formed(bbs[cur], open)
                    /\ cur \in 1..Len(bbs)
  <2> SUFFICES ASSUME cur # Null, NEW open
               PROVE  Formed(bbs[cur], open) /\ cur \in 1..Len(bbs)
    OBVIOUS
  <2>1. PICK x : x = bbs[cur]
    OBVIOUS
  <2>2. /\ x.start \in 1..N /\ x.code = x.start..N /\ x.cfs = <<>>
        /\ \A i \in x.start..N : prog[i].kind \notin Terminators
        /\ cur \in 1..Len(bbs)
    <3>1. pos - 1 = N
      BY <1>1
    <3> QED
      BY <1>1, <2>1, <3>1, OpenClear
  <2>3. Len(x.cfs) = 0 /\ N \in x.code /\ N \in Slots
    BY <1>1, <2>2, EmptyIsSeq DEF Slots
  <2>4. Ends(x, N, open)
    BY <1>1, <2>2, <2>3 DEF Ends, GoesOn
  <2> QED
    BY <2>1, <2>2, <2>3, <2>4 DEF Formed
<1> HIDE DEF Faith, Formed
<1>4. Graph(bbs, Null)
  <2>1. AllLead(bbs) /\ \A b \in 1..Len(bbs) : Formed(bbs[b], b = cur)
    BY <1>2 DEF Graph
  <2>2. \A b \in 1..Len(bbs) : Formed(bbs[b], b = Null)
    <3> SUFFICES ASSUME NEW b \in 1..Len(bbs) PROVE Formed(bbs[b], b = Null)
      OBVIOUS
    <3>1. b # Null
      BY DEF Null
    <3>2. CASE b = cur
      BY <1>3, <3>1, <3>2
    <3>3. CASE b # cur
      <4>1. (b = cur) = (b = Null)
        BY <3>1, <3>3
      <4> QED
        BY <2>1, <4>1
    <3> QED
      BY <3>2, <3>3
  <2> QED
    BY <2>1, <2>2 DEF Graph
<1>5. PICK C : C = bbs'
  OBVIOUS
<1>6. PICK o : o = Open'
  OBVIOUS
<1>7. Graph(bbs, Open)'
  <2>1. o = Null /\ C = bbs
    BY <1>1, <1>5, <1>6 DEF Open
  <2>2. Graph(C, o)
    BY <1>4, <2>1
  <2> HIDE DEF Graph, Open
  <2> QED
    BY <1>1, <1>5, <1>6, <2>2, PrimedGraph
<1>8. AllFound'
  <2>1. \A b \in 1..Len(bbs) : \A k \in DOMAIN bbs[b].cfs : Found(bbs[b].cfs[k])
    BY <1>1 DEF Faith, AllFound, Waiting
  <2>2. \A a \in Slots : ~Awaits(a)
    BY <1>1 DEF Awaits, Slots
  <2>3. \A cf : Found(cf) => Found(cf)'
    <3> HIDE DEF Awaits
    <3> QED
      BY <1>1, <2>2, FoundKept
  <2> HIDE DEF Found
  <2> QED
    BY <1>1, <2>1, <2>3 DEF AllFound
<1>9. phase' = "post" => AllDone'
  <2>1. \A b \in 1..Len(bbs) : \A k \in DOMAIN bbs[b].cfs : <<b, k>> \in todo'
    BY <1>1
  <2> QED
    BY <1>1, <2>1 DEF AllDone
<1> QED
  BY <1>1, <1>7, <1>8, <1>9 DEF Faith

-----------------------------------------------------------------------------
(* The loop over the operations of a block.                                *)

(* A direct jump goes to the next slot or where the instruction says.      *)
LEMMA IssuedJumps ==
  ASSUME NEW ins \in Instr, NEW i \in Slots, NEW I, I = CfsOf(ins, i)
  PROVE  \A k \in DOMAIN I : Direct(I[k]) =>
           I[k].jump = i + 1 \/ (ins.kind \in {"jal", "beq", "bne", "call"} /\ I[k].jump = ins.t)
<1>1. \A type, j : \A k \in DOMAIN <<Cf(type, i, j, Null)>> : <<Cf(type, i, j, Null)>>[k] = Cf(type, i, j, Null)
  BY SingleIsSeq
<1>2. \A type, j : Cf(type, i, j, Null).jump = j /\ Cf(type, i, j, Null).type = type
  BY DEF Cf
<1> HIDE DEF Cf
<1>3. CASE ins.kind \in {"jal", "call"}
  BY <1>1, <1>2, <1>3 DEF CfsOf
<1>4. CASE ins.kind \in {"beq", "bne"}
  BY <1>2, <1>4 DEF CfsOf
<1>5. CASE ins.kind = "ecall"
  BY <1>1, <1>2, <1>5 DEF CfsOf
<1>6. CASE ins.kind \in {"ijump", "table", "icall", "ret"}
  <2>1. \A k \in DOMAIN I : ~Direct(I[k])
    BY <1>1, <1>2, <1>6 DEF CfsOf, Direct
  <2> QED
    BY <2>1
<1>7. CASE ins.kind \notin Terminators
  <2>1. I = <<>>
    BY <1>7, CfsOfSites
  <2> QED
    BY <2>1
<1> QED
  BY <1>3, <1>4, <1>5, <1>6, <1>7 DEF Terminators

(* What traps in one block after another. *)
LEMMA KinServes ==
  ASSUME NEW n, NEW x, NEW y, WfCfs(x.cfs, n), WfCfs(y.cfs, n), Kins(x, y),
         y.start = x.start, y.end = x.end, y.code = x.code
  PROVE  \A a : Serves(x, a) => Serves(y, a)
<1>1. Hollow(x) => Hollow(y)
  BY KinFormed
<1> HIDE DEF Hollow
<1> QED
  BY <1>1 DEF Serves

(* The blocks C are B but for operation k of block b, which is cf.         *)
Swapped(B, C, b, k, cf) ==
  SameExtent(B, C) /\ \A c \in 1..Len(B) : C[c].cfs = CfsBut(B, b, k, cf, c)

(* Their operations are the kin of those before. *)
AllKin(B, C) == \A t \in 1..Len(B) :
  /\ WfCfs(B[t].cfs, Len(B)) /\ WfCfs(C[t].cfs, Len(B)) /\ Kins(B[t], C[t])
  /\ C[t].start = B[t].start /\ C[t].end = B[t].end /\ C[t].code = B[t].code

(* Who served an address serves it. *)
LEMMA KinsServe ==
  ASSUME NEW B, NEW C, AllKin(B, C)
  PROVE  \A t \in 1..Len(B) : \A a : Serves(B[t], a) => Serves(C[t], a)
<1> SUFFICES ASSUME NEW t \in 1..Len(B)
             PROVE  \A a : Serves(B[t], a) => Serves(C[t], a)
  OBVIOUS
<1>1. PICK n, x, y : n = Len(B) /\ x = B[t] /\ y = C[t]
  OBVIOUS
<1>2. /\ WfCfs(x.cfs, n) /\ WfCfs(y.cfs, n) /\ Kins(x, y)
      /\ y.start = x.start /\ y.end = x.end /\ y.code = x.code
  BY <1>1 DEF AllKin
<1> HIDE DEF Kins, Serves, WfCfs
<1> QED
  BY <1>1, <1>2, KinServes

(* One operation replaced by its kin. *)
LEMMA PatchKin ==
  ASSUME NEW B, WfBlocks(B), NEW C, NEW b \in 1..Len(B), NEW k \in DOMAIN B[b].cfs, NEW cf,
         Swapped(B, C, b, k, cf), Kin(B[b].cfs[k], cf)
  PROVE  AllKin(B, C)
<1> SUFFICES ASSUME NEW t \in 1..Len(B)
             PROVE  /\ WfCfs(B[t].cfs, Len(B)) /\ WfCfs(C[t].cfs, Len(B)) /\ Kins(B[t], C[t])
                    /\ C[t].start = B[t].start /\ C[t].end = B[t].end /\ C[t].code = B[t].code
  BY DEF AllKin
<1>1. PICK x, y : x = B[t] /\ y = C[t]
  OBVIOUS
<1>2. /\ WfCfs(x.cfs, Len(B)) /\ WfCfs(y.cfs, Len(B))
      /\ y.start = x.start /\ y.end = x.end /\ y.code = x.code
  BY <1>1 DEF Swapped, SameExtent, WfBlocks, WfBlock, Extends
<1>3. IsSeq(B[t].cfs) /\ DOMAIN B[t].cfs = 1..Len(B[t].cfs)
  BY DEF WfBlocks, WfBlock, WfCfs, IsSeq
<1>4. /\ Len(y.cfs) = Len(x.cfs)
      /\ \A l \in DOMAIN x.cfs : y.cfs[l] = IF t = b /\ l = k THEN cf ELSE x.cfs[l]
  BY <1>1, <1>3, ExceptIsSeq DEF CfsBut, Swapped
<1> HIDE DEF Kin, Swapped
<1>5. Kins(x, y)
  BY <1>1, <1>4, KinSelf DEF Kins
<1> QED
  BY <1>1, <1>2, <1>5

(* An operation gets its target, its continuation, or traps.               *)
Patches(op, cf, B) ==
  \/ \E t \in 1..Len(B) : cf = [op EXCEPT !.target = t] /\ Direct(op) /\ Serves(B[t], op.jump)
  \/ \E c \in 1..Len(B) : cf = [op EXCEPT !.cont = c] /\ B[c].start = op.instr + 1
  \/ /\ cf = [op EXCEPT !.type = "unreachable", !.cont = Null]
     /\ op.type \in {"jump", "cjump", "call"} /\ op.target = Null /\ ~IsInstr(op.jump)

LEMMA PatchLeads ==
  ASSUME NEW B, WfBlocks(B), NEW C, NEW b \in 1..Len(B), NEW k \in DOMAIN B[b].cfs, NEW cf,
         Swapped(B, C, b, k, cf), NEW op, op = B[b].cfs[k], Leads(op, B), Patches(op, cf, B)
  PROVE  Kin(op, cf) /\ Leads(cf, C)
<1>1. WfCf(op, Len(B)) /\ Len(B) \in Nat
  BY OpOfBlock DEF WfBlocks, IsSeq
<1>2. /\ \A v : LET t == [op EXCEPT !.target = v]
                    c == [op EXCEPT !.cont = v]
                    u == [op EXCEPT !.type = "unreachable", !.cont = Null]
                IN  /\ t.target = v /\ t.cont = op.cont /\ t.type = op.type /\ t.jump = op.jump /\ t.instr = op.instr
                    /\ c.cont = v /\ c.target = op.target /\ c.type = op.type /\ c.jump = op.jump /\ c.instr = op.instr
                    /\ u.type = "unreachable" /\ u.cont = Null /\ u.target = op.target
      /\ [op EXCEPT !.type = "unreachable", !.cont = Null].instr = op.instr
      /\ op.target \in 0..Len(B) /\ op.cont \in 0..Len(B)
  BY <1>1 DEF WfCf, CfFields
<1>3. \A t \in 1..Len(B) : t # Null /\ C[t].start = B[t].start
  BY DEF Swapped, SameExtent, Extends, Null
<1> HIDE DEF IsInstr, Serves, WfCf
<1>4. Kin(op, cf)
  <2>1. CASE \E t \in 1..Len(B) : cf = [op EXCEPT !.target = t] /\ Direct(op) /\ Serves(B[t], op.jump)
    <3>1. cf.instr = op.instr /\ cf.type = op.type /\ cf.jump = op.jump /\ cf.target # Null
      BY <1>2, <1>3, <2>1
    <3> QED
      BY <3>1 DEF Kin
  <2>2. CASE \E c \in 1..Len(B) : cf = [op EXCEPT !.cont = c] /\ B[c].start = op.instr + 1
    <3>1. cf.instr = op.instr /\ cf.type = op.type /\ cf.jump = op.jump /\ cf.target = op.target
      BY <1>2, <2>2
    <3> QED
      BY <3>1 DEF Kin
  <2>3. CASE /\ cf = [op EXCEPT !.type = "unreachable", !.cont = Null]
             /\ op.type \in {"jump", "cjump", "call"} /\ op.target = Null /\ ~IsInstr(op.jump)
    <3>1. cf.instr = op.instr /\ cf.type = "unreachable"
      BY <1>2, <2>3
    <3> QED
      BY <2>3, <3>1 DEF Kin
  <2> QED
    BY <2>1, <2>2, <2>3 DEF Patches
<1>5. ASSUME NEW t \in 1..Len(B), NEW a, Serves(B[t], a)
      PROVE  Serves(C[t], a)
  <2>1. Kin(B[b].cfs[k], cf)
    BY <1>4
  <2> HIDE DEF Kin, Leads, Patches, Swapped
  <2>2. AllKin(B, C)
    BY <2>1, PatchKin
  <2> HIDE DEF AllKin
  <2> QED
    BY <1>5, <2>2, KinsServe
<1>6. /\ op.target # Null => op.target \in 1..Len(B)
      /\ op.cont # Null => op.cont \in 1..Len(B)
  BY <1>1, <1>2 DEF Null
<1>7. Leads(cf, C)
  <2>1. CASE \E t \in 1..Len(B) : cf = [op EXCEPT !.target = t] /\ Direct(op) /\ Serves(B[t], op.jump)
    BY <1>2, <1>3, <1>5, <1>6, <2>1, SMTT(30) DEF Leads, Direct
  <2>2. CASE \E c \in 1..Len(B) : cf = [op EXCEPT !.cont = c] /\ B[c].start = op.instr + 1
    BY <1>2, <1>3, <1>5, <1>6, <2>2 DEF Leads, Direct
  <2>3. CASE /\ cf = [op EXCEPT !.type = "unreachable", !.cont = Null]
             /\ op.type \in {"jump", "cjump", "call"} /\ op.target = Null /\ ~IsInstr(op.jump)
    BY <1>2, <2>3 DEF Leads, Direct
  <2> QED
    BY <2>1, <2>2, <2>3 DEF Patches
<1> QED
  BY <1>4, <1>7

(* One operation of cur is resolved to cf, or waits for the split.         *)
LEMMA ResolvedFaith ==
  ASSUME Inv, Jumps, Faith, phase = "cf", NEW C, C = bbs', SameExtent(bbs, C), UNCHANGED <<prog, ptr>>,
         needs \subseteq needs',
         NEW cf, \A c \in 1..Len(bbs) : C[c].cfs = CfsBut(bbs, cur, cfi, cf, c),
         Kin(CurCf, cf), Leads(cf, C),
         \/ NextCf(cur) /\ Found(cf)'
         \/ phase' = "split" /\ req'.back = "cf" /\ UNCHANGED <<pos, cur, cfi>>
  PROVE  Faith'
<1>1. PICK I : I = Issued
  OBVIOUS
<1>2. /\ WfBlocks(bbs) /\ Len(bbs) \in Nat /\ cur \in 1..Len(bbs) /\ cur # Null /\ pos \in Int /\ Horizon = pos
      /\ DOMAIN bbs[cur].cfs = 1..Len(I) /\ cfi \in 1..Len(I) /\ Len(I) \in Nat
      /\ Len(bbs[cur].cfs) = Len(I)
  BY <1>1, CurrentIssued
<1> HIDE DEF Kin, Leads, Found
<1>3. \/ phase' = "cf" /\ cfi' = cfi + 1 /\ cfi < Len(I) /\ cur' = cur /\ pos' = pos /\ Found(cf)'
      \/ phase' = "scan" /\ cfi = Len(I) /\ cur' = Null /\ pos' = pos + 1 /\ Found(cf)'
      \/ phase' = "split" /\ req'.back = "cf" /\ UNCHANGED <<pos, cur, cfi>>
  BY <1>2 DEF NextCf
<1>4. Lifting /\ Lifting' /\ Horizon' = pos /\ Open = Null
  BY <1>2, <1>3 DEF Lifting, Horizon, Open
<1>5. PICK o : o = Open'
  OBVIOUS
<1>6. o = Null
  BY <1>3, <1>5 DEF Open
<1>7. Graph(bbs, Null) /\ AllFound
  BY <1>4 DEF Faith
<1>8. Graph(C, Null)
  <2>1. cfi \in DOMAIN bbs[cur].cfs /\ Kin(bbs[cur].cfs[cfi], cf)
    BY <1>2 DEF CurCf
  <2>2. Null \in 0..Len(bbs)
    BY <1>2 DEF Null
  <2> HIDE DEF Graph, Null, SameExtent, CfsBut
  <2> QED
    BY <1>2, <1>7, <2>1, <2>2, PatchGraph
<1>9. Graph(bbs, Open)'
  <2> HIDE DEF Graph, Open
  <2> QED
    BY <1>5, <1>6, <1>8, PrimedGraph
<1>10. \A op : Found(op) => Found(op)'
  <2>1. \A a \in Slots : Awaits(a) => Awaits(a)'
    BY <1>2, <1>4 DEF Awaits, IsInstr
  <2> HIDE DEF Awaits
  <2> QED
    BY <2>1, FoundKept
<1>11. /\ Len(C) = Len(bbs)
       /\ \A b \in 1..Len(bbs) : DOMAIN C[b].cfs = DOMAIN bbs[b].cfs
       /\ \A b \in 1..Len(bbs) : \A k \in DOMAIN bbs[b].cfs :
            C[b].cfs[k] = IF b = cur /\ k = cfi THEN cf ELSE bbs[b].cfs[k]
  BY DEF CfsBut, SameExtent
<1>12. \A b \in 1..Len(C) : \A k \in DOMAIN C[b].cfs : Waiting(b, k)' \/ Found(C[b].cfs[k])'
  <2> SUFFICES ASSUME NEW b \in 1..Len(bbs), NEW k \in DOMAIN bbs[b].cfs
               PROVE  Waiting(b, k)' \/ Found(C[b].cfs[k])'
    BY <1>11
  <2>1. CASE b = cur /\ k = cfi
    <3>1. C[b].cfs[k] = cf
      BY <1>11, <2>1
    <3>2. phase' = "split" /\ UNCHANGED <<pos, cur, cfi>> => Waiting(b, k)'
      BY <1>2, <1>4, <2>1 DEF Waiting
    <3> HIDE DEF Waiting
    <3> QED
      BY <1>3, <3>1, <3>2
  <2>2. CASE ~(b = cur /\ k = cfi)
    <3>1. C[b].cfs[k] = bbs[b].cfs[k]
      BY <1>11, <2>2
    <3>2. Waiting(b, k) => b = cur /\ k \in 1..Len(I) /\ k > cfi
      BY <1>2, <2>2 DEF Waiting
    <3>3. Waiting(b, k) => Waiting(b, k)'
      BY <1>2, <1>3, <1>4, <3>2 DEF Waiting
    <3>4. Waiting(b, k) \/ Found(bbs[b].cfs[k])
      BY <1>7 DEF AllFound
    <3>5. PICK op : op = bbs[b].cfs[k]
      OBVIOUS
    <3>6. Waiting(b, k) \/ Found(op)
      BY <3>4, <3>5
    <3>7. Waiting(b, k)' \/ Found(op)'
      BY <1>10, <3>3, <3>6
    <3>8. C[b].cfs[k] = op
      BY <3>1, <3>5
    <3> HIDE DEF Waiting
    <3> QED
      BY <3>7, <3>8
  <2> QED
    BY <2>1, <2>2
<1>13. AllFound'
  BY <1>12 DEF AllFound
<1>14. AllDone'
  BY <1>4 DEF AllDone
<1> QED
  BY <1>9, <1>13, <1>14 DEF Faith

(* What the loop knows of the operation it looks at.                       *)
LEMMA CurrentLeads ==
  ASSUME Inv, Jumps, Faith, phase = "cf"
  PROVE  /\ WfBlocks(bbs) /\ Len(bbs) \in Nat /\ cur \in 1..Len(bbs) /\ cfi \in DOMAIN bbs[cur].cfs
         /\ CurCf = bbs[cur].cfs[cfi] /\ pos \in Slots /\ pos \in Int /\ Horizon = pos
         /\ WfCf(CurCf, Len(bbs)) /\ CurCf.target = Null /\ Graph(bbs, Null) /\ Leads(CurCf, bbs)
         /\ CurCf.type = "ret" => ~Direct(CurCf)
         /\ prog[pos].kind = "table" => ~Direct(CurCf)
         /\ prog[pos].kind \in Terminators
         /\ Direct(CurCf) => \/ CurCf.jump = pos + 1
                             \/ prog[pos].kind \in {"jal", "beq", "bne", "call"} /\ CurCf.jump = prog[pos].t
<1>1. PICK I : I = Issued
  OBVIOUS
<1>2. /\ WfBlocks(bbs) /\ Len(bbs) \in Nat /\ cur \in 1..Len(bbs) /\ cfi \in 1..Len(I) /\ DOMAIN bbs[cur].cfs = 1..Len(I)
      /\ CurCf = I[cfi] /\ I[cfi].target = Null /\ pos \in Slots /\ pos \in Int /\ Horizon = pos
      /\ I[cfi].type = "ret" => ~Direct(I[cfi])
      /\ prog[pos].kind = "table" => ~Direct(I[cfi])
  BY <1>1, CurrentIssued
<1>3. prog[pos] \in Instr /\ I = CfsOf(prog[pos], pos)
  BY <1>1, <1>2, InstrAssumption DEF Inv, Typed, Issued
<1>4. cfi \in DOMAIN I
  <2>1. IsSeq(I)
    BY <1>2, <1>3, IssuedShape
  <2> QED
    BY <1>2, <2>1 DEF IsSeq
<1>5. prog[pos].kind \in Terminators
  BY <1>2, <1>3, <1>4, IssuedCalls
<1>6. Direct(I[cfi]) => I[cfi].jump = pos + 1
        \/ (prog[pos].kind \in {"jal", "beq", "bne", "call"} /\ I[cfi].jump = prog[pos].t)
  BY <1>2, <1>3, <1>4, IssuedJumps
<1>7. Graph(bbs, Null)
  BY DEF Faith, Open
<1>8. CurCf = bbs[cur].cfs[cfi] /\ cfi \in DOMAIN bbs[cur].cfs
  BY <1>2 DEF CurCf
<1>9. WfCf(CurCf, Len(bbs)) /\ Leads(CurCf, bbs)
  <2> HIDE DEF WfCf, Leads
  <2> QED
    BY <1>2, <1>7, <1>8, OpOfBlock DEF Graph, AllLead
<1> HIDE DEF CurCf, WfCf, Direct, Graph, Leads, Terminators
<1> QED
  BY <1>2, <1>5, <1>6, <1>7, <1>8, <1>9

LEMMA ResolveReturnFaith ==
  ASSUME Inv, Jumps, Faith, ResolveReturn
  PROVE  Faith'
<1>1. PICK cf : cf = CurCf
  OBVIOUS
<1>2. PICK C : C = bbs'
  OBVIOUS
<1>3. /\ phase = "cf" /\ cf.type = "ret" /\ NextCf(cur) /\ UNCHANGED <<prog, ptr>>
      /\ C = bbs /\ needs \subseteq needs'
  BY <1>1, <1>2 DEF ResolveReturn
<1>4. WfBlocks(bbs) /\ Leads(cf, bbs) /\ ~Direct(cf)
  BY <1>1, <1>3, CurrentLeads
<1>5. SameExtent(bbs, C)
  BY <1>3, <1>4, ExtendsReflexive DEF SameExtent
<1>6. \A c \in 1..Len(bbs) : C[c].cfs = CfsBut(bbs, cur, cfi, cf, c)
  BY <1>1, <1>3, <1>4, CfsButSame DEF CurCf
<1>7. Kin(CurCf, cf) /\ Leads(cf, C)
  BY <1>1, <1>3, <1>4, KinSelf
<1>8. Found(cf)'
  BY <1>4 DEF Found, Direct
<1> HIDE DEF Found, NextCf, CurCf, Jumps, Inv, Faith, SameExtent, Kin, Leads, CfsBut
<1> QED
  BY <1>2, <1>3, <1>5, <1>6, <1>7, <1>8, ResolvedFaith

(* An instruction that is behind, where no block is found, is in a block   *)
(* that ends at undecodable bytes.                                         *)
LEMMA NoneBehind ==
  ASSUME Inv, CodePartition, Pointers, Jumps, Faith, phase = "cf", NEW a \in Slots, IsInstr(a), a <= pos, ptr[a] = Null
  PROVE  \E j \in a..pos : ~IsInstr(j)
<1>1. /\ Len(bbs) \in Nat /\ DOMAIN bbs = 1..Len(bbs) /\ a \in Int
  BY DEF Inv, Typed, WfBlocks, IsSeq, Slots
<1>2. /\ pos \in Slots /\ pos \in Int /\ Horizon = pos /\ Graph(bbs, Null) /\ prog[pos].kind \in Terminators
  BY CurrentLeads
<1>3. Lifted(a)
  BY <1>1, <1>2 DEF Lifted
<1>4. PICK b \in 1..Len(bbs) : a \in bbs[b].code
  BY <1>1, <1>3 DEF CodePartition, BlockIds
<1>5. PICK x : x = bbs[b]
  OBVIOUS
<1>6. x.end = 0 /\ \A i \in x.code : i <= pos
  BY <1>1, <1>2, <1>4, <1>5 DEF Pointers, Mapped, FoundInCode, Null, Inv, Behind
<1>7. Formed(x, FALSE)
  <2>1. b # Null
    BY DEF Null
  <2> HIDE DEF Formed
  <2> QED
    BY <1>2, <1>5, <2>1 DEF Graph
<1> HIDE DEF IsInstr
<1>8. PICK l \in Slots : Ends(x, l, FALSE)
  BY <1>4, <1>5, <1>7 DEF Formed
<1>9. /\ x.start \in 1..l /\ x.code = x.start..l /\ GoesOn(x, l, FALSE) /\ l \in Int /\ l # 0 /\ N \in Nat /\ pos <= N
  <2>1. x.start \in 1..l /\ x.code = x.start..l /\ GoesOn(x, l, FALSE)
    <3> HIDE DEF GoesOn
    <3> QED
      BY <1>8 DEF Ends
  <2>2. l \in Int /\ l # 0 /\ N \in Nat /\ pos <= N
    BY <1>2, NAssumption DEF Slots
  <2> QED
    BY <2>1, <2>2
<1>10. l <= pos /\ a <= l
  <2>1. l \in x.code
    BY <1>9
  <2> QED
    BY <1>1, <1>4, <1>5, <1>6, <1>9, <2>1
<1>11. prog[l].kind \notin Terminators
  BY <1>6, <1>9 DEF GoesOn
<1>12. l # pos
  BY <1>2, <1>11
<1>13. ~IsInstr(l + 1)
  BY <1>2, <1>6, <1>9, <1>10, <1>11, <1>12 DEF GoesOn
<1>14. l + 1 \in a..pos
  BY <1>1, <1>2, <1>9, <1>10, <1>12
<1> QED
  BY <1>13, <1>14

(* The target of a jump that has no block yet will get one: the scan has   *)
(* not come to it.                                                         *)
LEMMA ResolveUnknownFaith ==
  ASSUME JumpsBack, Inv, CodePartition, Pointers, Jumps, Faith, ResolveUnknown
  PROVE  Faith'
<1>1. /\ phase = "cf" /\ BlockAt(CurCf.jump) = Null /\ NextCf(cur) /\ UNCHANGED <<prog, ptr>>
      /\ needs \subseteq needs' /\ {CurCf.jump} \cap Slots \subseteq needs'
      /\ bbs' = IF TableEntries = {} THEN bbs
                ELSE [bbs EXCEPT ![cur].cfs[cfi] = [@ EXCEPT !.addrs = TableEntries, !.jump = prog[pos].t]]
  BY DEF ResolveUnknown
<1>2. PICK op : op = CurCf
  OBVIOUS
<1>3. PICK C : C = bbs'
  OBVIOUS
<1>4. /\ WfBlocks(bbs) /\ Len(bbs) \in Nat /\ cur \in 1..Len(bbs) /\ cfi \in DOMAIN bbs[cur].cfs
      /\ op = bbs[cur].cfs[cfi] /\ pos \in Slots /\ pos \in Int /\ Horizon = pos
      /\ WfCf(op, Len(bbs)) /\ op.target = Null /\ Leads(op, bbs)
      /\ prog[pos].kind = "table" => ~Direct(op)
      /\ Direct(op) => op.jump = pos + 1 \/ (prog[pos].kind \in {"jal", "beq", "bne", "call"} /\ op.jump = prog[pos].t)
  <2> HIDE DEF WfCf, Leads, Direct
  <2> QED
    BY <1>1, <1>2, CurrentLeads
<1>5. PICK cf : cf = IF TableEntries = {} THEN op ELSE [op EXCEPT !.addrs = TableEntries, !.jump = prog[pos].t]
  OBVIOUS
<1>6. /\ SameExtent(bbs, C)
      /\ \A c \in 1..Len(bbs) : C[c].cfs = CfsBut(bbs, cur, cfi, cf, c)
      /\ Kin(op, cf) /\ Leads(cf, C)
      /\ Direct(cf) => cf = op
  <2>1. CASE TableEntries = {}
    <3>1. SameExtent(bbs, C)
      BY <1>1, <1>3, <1>4, <2>1, ExtendsReflexive DEF SameExtent
    <3>2. \A c \in 1..Len(bbs) : C[c].cfs = CfsBut(bbs, cur, cfi, cf, c)
      BY <1>1, <1>3, <1>4, <1>5, <2>1, CfsButSame
    <3>3. C = bbs /\ cf = op
      BY <1>1, <1>3, <1>5, <2>1
    <3> HIDE DEF Kin, Leads, SameExtent, CfsBut, WfCf
    <3> QED
      BY <1>4, <3>1, <3>2, <3>3, KinSelf
  <2>2. CASE TableEntries # {}
    <3>1. prog[pos].t \in 0..(N + 1) /\ TableEntries \in SUBSET Slots /\ prog[pos].kind = "table"
      <4>1. prog[pos] \in Instr
        BY <1>4, InstrAssumption DEF Inv, Typed
      <4> QED
        BY <2>2, <4>1, NAssumption DEF Instr, Targets, TableEntries
    <3>2. /\ cf.type = op.type /\ cf.target = Null /\ cf.cont = op.cont /\ cf.instr = op.instr
          /\ ~Direct(cf) /\ ~Direct(op)
      BY <1>4, <1>5, <2>2, <3>1 DEF WfCf, CfFields, Direct
    <3>3. WfCf(cf, Len(bbs)) /\ op.cont \in 0..Len(bbs)
      <4>1. op.cont \in 0..Len(bbs)
        BY <1>4 DEF WfCf
      <4> HIDE DEF WfCf
      <4> QED
        BY <1>4, <1>5, <2>2, <3>1, <4>1, CfFieldsWf
    <3>4. C = PutCf(bbs, cur, cfi, cf)
      BY <1>1, <1>3, <1>4, <1>5, <2>2 DEF PutCf, Put, WithCfs
    <3>5. SameExtent(bbs, C) /\ \A c \in 1..Len(bbs) : C[c].cfs = CfsBut(bbs, cur, cfi, cf, c)
      <4> HIDE DEF WfCf, SameExtent, CfsBut, PutCf
      <4> QED
        BY <1>4, <3>3, <3>4, PutCfSame, PutCfCfs
    <3>6. Kin(op, cf)
      <4> HIDE DEF Direct
      <4> QED
        BY <1>4, <3>2 DEF Kin
    <3>7. Leads(cf, C)
      <4>1. op.cont # Null => C[op.cont].start = op.instr + 1
        BY <1>4, <3>3, <3>5 DEF Leads, SameExtent, Extends, Null
      <4> QED
        BY <3>2, <4>1 DEF Leads
    <3> QED
      BY <3>2, <3>5, <3>6, <3>7
  <2> QED
    BY <2>1, <2>2
<1>7. Found(cf)'
  <2> SUFFICES ASSUME Direct(cf), IsInstr(cf.jump)'
               PROVE  ptr'[cf.jump] # Null \/ Awaits(cf.jump)'
    BY DEF Found, Direct
  <2>1. PICK a : a = cf.jump
    OBVIOUS
  <2>2. cf = op /\ IsInstr(a) /\ a = op.jump
    BY <1>1, <1>6, <2>1 DEF IsInstr
  <2>3. a \in Slots /\ a \in Int /\ ptr[a] = Null /\ a \in needs'
    BY <1>1, <1>2, <2>2 DEF BlockAt, IsInstr, Slots
  <2>4. a > pos
    <3>1. CASE a = pos + 1
      BY <1>4, <3>1
    <3>2. CASE prog[pos].kind \in {"jal", "beq", "bne", "call"} /\ a = prog[pos].t
      <4>1. \A j \in a..pos : IsInstr(j)
        BY <1>4, <2>2, <3>2 DEF JumpsBack
      <4> HIDE DEF IsInstr
      <4> QED
        BY <1>1, <1>4, <2>2, <2>3, <4>1, NoneBehind
    <3> HIDE DEF Direct
    <3> QED
      BY <1>4, <2>2, <3>1, <3>2
  <2>5. Horizon' = pos
    BY <1>1, <1>4 DEF NextCf, Horizon
  <2>6. Awaits(a)'
    BY <1>1, <2>2, <2>3, <2>4, <2>5 DEF Awaits, IsInstr
  <2> QED
    BY <2>1, <2>6
<1> HIDE DEF Found, NextCf, CurCf, Jumps, Inv, Faith, SameExtent, Kin, Leads, CfsBut
<1> QED
  BY <1>1, <1>2, <1>3, <1>6, <1>7, ResolvedFaith

(* The target is found at its address. *)
LEMMA LinkedFaith ==
  ASSUME Inv, Disjoint(bbs), Pointers, Jumps, Faith, ResolveLink \/ ResolveSplit
  PROVE  Faith'
<1>1. PICK t : t = BlockAt(CurCf.jump)
  OBVIOUS
<1>2. PICK op : op = CurCf
  OBVIOUS
<1>3. PICK C : C = bbs'
  OBVIOUS
<1>4. /\ phase = "cf" /\ t # Null /\ UNCHANGED <<prog, ptr>>
      /\ needs \subseteq needs' /\ C = Linked
      /\ NextCf(cur) \/ (phase' = "split" /\ req'.back = "cf" /\ UNCHANGED <<pos, cur, cfi>>)
  BY <1>1, <1>3 DEF ResolveLink, ResolveSplit
<1>5. /\ WfBlocks(bbs) /\ Len(bbs) \in Nat /\ cur \in 1..Len(bbs) /\ cfi \in DOMAIN bbs[cur].cfs
      /\ op = bbs[cur].cfs[cfi] /\ Graph(bbs, Null) /\ Leads(op, bbs) /\ WfCf(op, Len(bbs))
  <2> HIDE DEF WfCf, Leads, Graph
  <2> QED
    BY <1>2, <1>4, CurrentLeads
<1>6. op.jump \in Slots /\ t \in 1..Len(bbs) /\ ptr[op.jump] = t /\ Direct(op)
  <2>1. op.jump \in Slots /\ t \in 1..Len(bbs) /\ ptr[op.jump] = t
    BY <1>1, <1>2, <1>4, BlockAtLifted
  <2>2. PICK I : I = Issued
    OBVIOUS
  <2>3. Direct(op) \/ op.jump = 0
    BY <1>2, <1>4, <2>2, CurrentIssued
  <2> HIDE DEF Direct
  <2> QED
    BY <2>1, <2>3 DEF Slots
<1>7. Serves(bbs[t], op.jump)
  <2>1. PICK a \in Slots : a = op.jump
    BY <1>6
  <2>2. PICK o : o = Null
    OBVIOUS
  <2>3. ptr \in [Slots -> 0..Len(bbs)] /\ OwnCode(bbs, ptr, 0)
    BY DEF Inv, Typed, Pointers, Mapped
  <2>4. ptr[a] # Null /\ ptr[a] # o /\ Graph(bbs, o)
    BY <1>4, <1>5, <1>6, <2>1, <2>2
  <2> HIDE DEF Graph, Serves, OwnCode
  <2>5. Serves(bbs[ptr[a]], a)
    BY <1>5, <2>3, <2>4, FoundServes
  <2> QED
    BY <1>6, <2>1, <2>5
<1>8. PICK cf : cf = [op EXCEPT !.target = t]
  OBVIOUS
<1>9. SameExtent(bbs, C) /\ \A c \in 1..Len(bbs) : C[c].cfs = CfsBut(bbs, cur, cfi, cf, c)
  BY <1>1, <1>2, <1>4, <1>8, LinkedSame
<1>10. Kin(op, cf) /\ Leads(cf, C)
  <2>1. Patches(op, cf, bbs)
    BY <1>6, <1>7, <1>8 DEF Patches
  <2>2. Swapped(bbs, C, cur, cfi, cf)
    BY <1>9 DEF Swapped
  <2> HIDE DEF Kin, Leads, Swapped, Patches
  <2> QED
    BY <1>5, <2>1, <2>2, PatchLeads
<1>11. Found(cf)'
  <2>1. cf.target # Null
    BY <1>4, <1>5, <1>8 DEF WfCf, CfFields
  <2> QED
    BY <2>1 DEF Found
<1> HIDE DEF Found, NextCf, CurCf, Jumps, Inv, Faith, SameExtent, Kin, Leads, CfsBut
<1> QED
  BY <1>2, <1>3, <1>4, <1>9, <1>10, <1>11, ResolvedFaith

-----------------------------------------------------------------------------
(* Lifter::split_basic_block.                                              *)

(* The operation that asked for the split gets the second half as target;  *)
(* the others stay.                                                        *)
LEMMA KeptKin ==
  ASSUME AllYield, Inv, Disjoint(bbs), Pointers, Jumps, phase = "split", NEW n, n = Len(bbs) + 1,
         NEW t \in 1..Len(bbs), NEW k \in DOMAIN bbs[t].cfs, NEW cf, cf = bbs[t].cfs[k], NEW o, o = Kept(cf, n)
  PROVE  /\ Kin(cf, o)
         /\ \/ o = cf /\ ~(Lifting /\ t = cur /\ k = cfi)
            \/ Lifting /\ o.target = n /\ o.cont = Null /\ o.jump = req.addr
<1>1. n # Null
  BY DEF Inv, Typed, WfBlocks, IsSeq, Null
<1>2. CASE IntoSecond(cf)
  <2>1. Lifting /\ t = cur /\ k = cfi
    <3> HIDE DEF IntoSecond
    <3> QED
      BY <1>2, IntoSecondAsked
  <2>2. cf.jump = req.addr /\ cf.cont = Null /\ DOMAIN cf = CfFields
    BY <2>1, AskedOperation
  <2>3. o = [cf EXCEPT !.target = n]
    BY <1>2 DEF Kept
  <2>4. o.target = n /\ o.cont = Null /\ o.jump = cf.jump /\ o.type = cf.type /\ o.instr = cf.instr
    <3> HIDE DEF Kept
    <3> QED
      BY <2>2, <2>3 DEF CfFields
  <2>5. Kin(cf, o)
    <3> HIDE DEF Kept
    <3> QED
      BY <1>1, <2>4 DEF Kin
  <2> QED
    BY <2>1, <2>2, <2>4, <2>5
<1>3. CASE ~IntoSecond(cf)
  <2>1. o = cf
    BY <1>3 DEF Kept
  <2>2. ~(Lifting /\ t = cur /\ k = cfi)
    <3> HIDE DEF IntoSecond
    <3> QED
      BY <1>3, AskedOperation
  <2> QED
    BY <2>1, <2>2, KinSelf
<1> QED
  BY <1>2, <1>3

(* Every operation afterwards: the jump of the first half, or one from     *)
(* before in the place it has now.                                         *)
Place(t, q, n) == IF t = q THEN n ELSE t

LEMMA SplitSources ==
  ASSUME AllYield, Inv, Disjoint(bbs), Pointers, Jumps, Split, NEW n, n = Len(bbs) + 1, NEW q, q = req.bb,
         NEW C, C = bbs', NEW b \in 1..n, NEW k \in DOMAIN C[b].cfs, NEW o, o = C[b].cfs[k]
  PROVE  \/ b = q /\ o = Cf("jump", FirstEnd, req.addr, n)
         \/ \E t \in 1..Len(bbs) : b = Place(t, q, n) /\ k \in DOMAIN bbs[t].cfs /\ o = Kept(bbs[t].cfs[k], n)
<1>1. /\ q \in 1..Len(bbs) /\ n # q
      /\ \A c \in 1..n : c = n \/ c = q \/ (c \in 1..Len(bbs) /\ c # q)
  BY SplitExtents
<1>2. OpsAfter(C, q, n)
  BY SplitBlocks
<1> HIDE DEF Kept, Cf, FirstEnd
<1>3. CASE b = n
  <2>1. k \in DOMAIN bbs[q].cfs /\ o = Kept(bbs[q].cfs[k], n)
    BY <1>2, <1>3 DEF OpsAfter
  <2>2. Place(q, q, n) = n
    BY DEF Place
  <2> QED
    BY <1>1, <1>3, <2>1, <2>2
<1>4. CASE b = q
  <2>1. PICK u : u = Cf("jump", FirstEnd, req.addr, n)
    OBVIOUS
  <2>2. C[b].cfs = <<u>>
    BY <1>2, <1>4, <2>1 DEF OpsAfter
  <2>3. o = u
    BY <2>2, SingleIsSeq
  <2> QED
    BY <1>4, <2>1, <2>3
<1>5. CASE b \in 1..Len(bbs) /\ b # q
  <2>1. k \in DOMAIN bbs[b].cfs /\ o = Kept(bbs[b].cfs[k], n)
    BY <1>2, <1>5 DEF OpsAfter
  <2>2. Place(b, q, n) = b
    BY <1>5 DEF Place
  <2> QED
    BY <1>5, <2>1, <2>2
<1> QED
  BY <1>1, <1>3, <1>4, <1>5

(* Where the block that is split ends, and how. *)
LEMMA SplitEnds ==
  ASSUME AllYield, Inv, Disjoint(bbs), Pointers, Faith, phase = "split"
  PROVE  /\ Ends(bbs[req.bb], bbs[req.bb].end, FALSE)
         /\ IsInstr(req.addr)
<1>1. PICK x : x = bbs[req.bb]
  OBVIOUS
<1>2. PICK s, e, a : s = x.start /\ e = x.end /\ a = req.addr
  OBVIOUS
<1>3. /\ x.code = s..e /\ s \in 1..(a - 1) /\ a \in 1..e /\ e \in Slots /\ req.bb \in 1..Len(bbs) /\ req.bb # Null
  BY <1>1, <1>2, SplitRun, SplitFacts DEF Null
<1>4. e \in Int /\ a \in Int /\ s \in Int /\ a \in s..e /\ e \in s..e
  BY <1>3 DEF Slots
<1>5. IsInstr(a)
  <2> HIDE DEF IsInstr
  <2> QED
    BY <1>1, <1>3, <1>4 DEF Disjoint
<1>6. Formed(x, FALSE)
  <2>1. Graph(bbs, Null)
    BY DEF Faith, Open
  <2> HIDE DEF Formed
  <2> QED
    BY <1>1, <1>3, <2>1 DEF Graph
<1>7. PICK l \in Slots : Ends(x, l, FALSE)
  <2> HIDE DEF Ends
  <2> QED
    BY <1>3, <1>4, <1>6 DEF Formed
<1>8. l = e
  <2>1. x.code = x.start..l /\ l \in Int
    BY <1>7 DEF Ends, Slots
  <2> QED
    BY <1>2, <1>3, <1>4, <2>1
<1> HIDE DEF Ends
<1> QED
  BY <1>1, <1>2, <1>5, <1>7, <1>8

(* Both halves are as they should be. *)
LEMMA SplitFormed ==
  ASSUME AllYield, Inv, Inv', Disjoint(bbs), Pointers, Jumps, Faith, Split, NEW n, n = Len(bbs) + 1,
         NEW q, q = req.bb, NEW C, C = bbs', NEW x, x = C[q], NEW y, y = C[n]
  PROVE  Formed(x, FALSE) /\ Formed(y, FALSE)
<1>1. PICK w : w = bbs[q]
  OBVIOUS
<1>2. PICK s, e, a : s = w.start /\ e = w.end /\ a = req.addr
  OBVIOUS
<1>3. /\ phase = "split" /\ q \in 1..Len(bbs) /\ Len(bbs) \in Nat /\ n # q /\ n # Null /\ Len(C) = n /\ x.end # 0
  BY SplitExtents
<1>4. OpsAfter(C, q, n)
  BY SplitBlocks
<1>5. /\ w.code = s..e /\ e \in Slots /\ a \in 1..e /\ s \in 1..(a - 1)
      /\ x.start = s /\ x.code = {i \in s..e : i < a}
      /\ y.start = a /\ y.end = e /\ y.code = {i \in s..e : i >= a}
  BY <1>1, <1>2, SplitCut DEF Cut
<1>6. e \in Int /\ a \in Int /\ s \in Int /\ 1 <= s /\ s <= a - 1 /\ a <= e /\ e <= N /\ N \in Nat
  BY <1>5, NAssumption DEF Slots
<1>7. x.code = s..(a - 1) /\ y.code = a..e /\ a - 1 \in x.code /\ e \in y.code
  BY <1>5, <1>6
<1>8. /\ GoesOn(w, e, FALSE)
      /\ \A i \in s..(e - 1) : prog[i].kind \notin Terminators
  <2>1. Ends(w, e, FALSE)
    BY <1>1, <1>2, <1>3, SplitEnds
  <2> HIDE DEF GoesOn
  <2> QED
    BY <1>2, <2>1 DEF Ends
<1>9. Formed(x, FALSE)
  <2>1. PICK u : u = Cf("jump", FirstEnd, req.addr, n)
    OBVIOUS
  <2>2. Len(x.cfs) = 1 /\ x.cfs[1] = u
    <3>1. x.cfs = <<u>>
      BY <1>4, <2>1 DEF OpsAfter
    <3> QED
      BY <3>1, SingleIsSeq
  <2>3. Falls(u, a - 1)
    BY <1>2, <1>3, <1>6, <2>1 DEF Falls, Cf
  <2>4. prog[a - 1].kind \notin Terminators /\ a - 1 < N /\ a - 1 \in Slots
    BY <1>6, <1>8 DEF Slots
  <2> HIDE DEF Falls, IsInstr
  <2>5. GoesOn(x, a - 1, FALSE)
    BY <1>3, <2>2, <2>3, <2>4 DEF GoesOn
  <2>6. \A i \in s..(a - 1 - 1) : prog[i].kind \notin Terminators
    BY <1>6, <1>8
  <2>7. Ends(x, a - 1, FALSE)
    <3> HIDE DEF GoesOn
    <3> QED
      BY <1>5, <1>7, <2>5, <2>6 DEF Ends
  <2> HIDE DEF Ends
  <2> QED
    BY <1>7, <2>4, <2>7 DEF Formed
<1>10. Formed(y, FALSE)
  <2>1. WfCfs(w.cfs, n) /\ WfCfs(y.cfs, n)
    <3>1. WfCfs(w.cfs, n)
      BY <1>1, <1>3, SplitFacts
    <3>2. WfCfs(y.cfs, n)
      BY <1>3, SMTT(30) DEF Inv, Typed, WfBlocks, WfBlock
    <3> QED
      BY <3>1, <3>2
  <2>2. Kins(w, y)
    <3>1. DOMAIN y.cfs = DOMAIN w.cfs /\ \A k \in DOMAIN w.cfs : y.cfs[k] = Kept(w.cfs[k], n)
      BY <1>1, <1>4 DEF OpsAfter
    <3>2. Len(y.cfs) = Len(w.cfs)
      BY <2>1, <3>1 DEF WfCfs, IsSeq
    <3>3. \A k \in DOMAIN w.cfs : Kin(w.cfs[k], y.cfs[k])
      <4> TAKE k \in DOMAIN w.cfs
      <4>1. PICK cf, o : cf = w.cfs[k] /\ o = y.cfs[k]
        OBVIOUS
      <4>2. o = Kept(cf, n) /\ cf = bbs[q].cfs[k] /\ k \in DOMAIN bbs[q].cfs
        BY <1>1, <3>1, <4>1
      <4> HIDE DEF Kept, Kin
      <4>3. Kin(cf, o)
        BY <1>3, <4>2, KeptKin
      <4> QED
        BY <4>1, <4>3
    <3> HIDE DEF Kin
    <3> QED
      BY <3>2, <3>3 DEF Kins
  <2> HIDE DEF GoesOn, Kins
  <2>3. GoesOn(y, e, FALSE)
    <3>1. y.end = w.end /\ GoesOn(w, e, FALSE)
      BY <1>2, <1>5, <1>8
    <3>2. \A l, open : GoesOn(w, l, open) => GoesOn(y, l, open)
      BY <2>1, <2>2, <3>1, KinGoesOn
    <3> QED
      BY <3>1, <3>2
  <2>4. Ends(y, e, FALSE)
    <3>1. \A i \in a..(e - 1) : prog[i].kind \notin Terminators
      BY <1>6, <1>8
    <3> QED
      BY <1>5, <1>6, <1>7, <2>3, <3>1 DEF Ends
  <2> HIDE DEF Ends
  <2> QED
    BY <1>5, <1>7, <2>4 DEF Formed
<1> QED
  BY <1>9, <1>10

LEMMA SplitGraph ==
  ASSUME AllYield, Inv, Inv', Disjoint(bbs), Pointers, Jumps, Faith, Split, NEW C, C = bbs'
  PROVE  Graph(C, Null)
<1>1. PICK n : n = Len(bbs) + 1
  OBVIOUS
<1>2. PICK q : q = req.bb
  OBVIOUS
<1>3. /\ phase = "split" /\ q \in 1..Len(bbs) /\ Len(bbs) \in Nat /\ n # q /\ n # Null /\ Len(C) = n /\ n \in 1..n
      /\ \A b \in 1..n : b = n \/ b = q \/ (b \in 1..Len(bbs) /\ b # q)
      /\ \A b \in 1..n : b > Len(bbs) => b = n
      /\ \A c \in 1..Len(bbs) : C[c].start = bbs[c].start
      /\ \A c \in 1..Len(bbs) : c # q => C[c].end = bbs[c].end /\ C[c].code = bbs[c].code
      /\ WfBlocks(bbs) /\ WfBlocks(C) /\ n # Null /\ q # Null
  <2>1. /\ phase = "split" /\ q \in 1..Len(bbs) /\ Len(bbs) \in Nat /\ n # q /\ n # Null /\ Len(C) = n
        /\ \A b \in 1..n : b = n \/ b = q \/ (b \in 1..Len(bbs) /\ b # q)
        /\ \A c \in 1..Len(bbs) : C[c].start = bbs[c].start
        /\ \A c \in 1..Len(bbs) : c # q => C[c].end = bbs[c].end /\ C[c].code = bbs[c].code
    BY <1>1, <1>2, SplitExtents
  <2> QED
    BY <1>1, <2>1 DEF Inv, Typed, Null
<1>4. OpsAfter(C, q, n)
  BY <1>1, <1>2, SplitBlocks
<1>5. /\ bbs[q].code # {} /\ C[n].start = req.addr /\ req.addr # 0 /\ IsInstr(req.addr)
  <2>1. IsInstr(req.addr) /\ Ends(bbs[q], bbs[q].end, FALSE)
    BY <1>2, <1>3, SplitEnds
  <2>2. C[n].start = req.addr /\ bbs[q].end \in Slots
    BY <1>1, <1>2, SplitCut DEF Cut
  <2>3. bbs[q].code # {}
    BY <2>1, <2>2 DEF Ends, Slots
  <2> QED
    BY <2>1, <2>2, <2>3 DEF IsInstr, Slots
<1>6. Graph(bbs, Null)
  BY <1>3 DEF Faith, Open
<1>7. Formed(C[q], FALSE) /\ Formed(C[n], FALSE)
  <2>1. PICK x, y : x = C[q] /\ y = C[n]
    OBVIOUS
  <2> HIDE DEF Formed
  <2> QED
    BY <1>1, <1>2, <2>1, SplitFormed
<1>8. Serves(C[n], req.addr)
  BY <1>5 DEF Serves
<1>9. \A b \in 1..Len(bbs) : b # q => Kins(bbs[b], C[b])
  <2> SUFFICES ASSUME NEW b \in 1..Len(bbs), b # q PROVE Kins(bbs[b], C[b])
    OBVIOUS
  <2>1. DOMAIN C[b].cfs = DOMAIN bbs[b].cfs /\ \A k \in DOMAIN bbs[b].cfs : C[b].cfs[k] = Kept(bbs[b].cfs[k], n)
    BY <1>4 DEF OpsAfter
  <2>2. Len(C[b].cfs) = Len(bbs[b].cfs)
    BY <1>1, <1>3, <2>1 DEF WfBlocks, WfBlock, WfCfs, IsSeq
  <2>3. \A k \in DOMAIN bbs[b].cfs : Kin(bbs[b].cfs[k], C[b].cfs[k])
    <3> TAKE k \in DOMAIN bbs[b].cfs
    <3>1. PICK cf, o : cf = bbs[b].cfs[k] /\ o = C[b].cfs[k]
      OBVIOUS
    <3> HIDE DEF Kept, Kin
    <3>2. Kin(cf, o)
      BY <1>1, <1>3, <2>1, <3>1, KeptKin
    <3> QED
      BY <3>1, <3>2
  <2> HIDE DEF Kin
  <2> QED
    BY <2>2, <2>3 DEF Kins
<1> HIDE DEF Leads, Serves, Formed, Kins, Kin, Hollow, Kept, Cf, IsInstr
<1>10. \A t \in 1..Len(bbs) : C[t].start = bbs[t].start /\ (Hollow(bbs[t]) => Hollow(C[t]))
  <2> SUFFICES ASSUME NEW t \in 1..Len(bbs) PROVE Hollow(bbs[t]) => Hollow(C[t])
    BY <1>3
  <2>1. CASE t = q
    BY <1>5, <2>1 DEF Hollow
  <2>2. CASE t # q
    <3>1. PICK x, y : x = bbs[t] /\ y = C[t]
      OBVIOUS
    <3>2. WfCfs(x.cfs, n) /\ WfCfs(y.cfs, n) /\ Kins(x, y)
          /\ y.start = x.start /\ y.end = x.end /\ y.code = x.code
      <4>1. WfCfs(x.cfs, n)
        BY <1>1, <1>3, <3>1, SplitFacts
      <4>2. WfCfs(y.cfs, n)
        BY <1>1, <1>3, <3>1 DEF WfBlocks, WfBlock
      <4> QED
        BY <1>3, <1>9, <2>2, <3>1, <4>1, <4>2
    <3> QED
      BY <3>1, <3>2, KinFormed
  <2> QED
    BY <2>1, <2>2
<1>11. ASSUME NEW b \in 1..n, NEW k \in DOMAIN C[b].cfs, NEW o, o = C[b].cfs[k]
       PROVE  Leads(o, C)
  <2>1. CASE o = Cf("jump", FirstEnd, req.addr, n)
    BY <1>8, <2>1, ScanOpsLead
  <2>2. CASE \E t \in 1..Len(bbs) : b = Place(t, q, n) /\ k \in DOMAIN bbs[t].cfs /\ o = Kept(bbs[t].cfs[k], n)
    <3>1. PICK t \in 1..Len(bbs) : k \in DOMAIN bbs[t].cfs /\ o = Kept(bbs[t].cfs[k], n)
      BY <2>2
    <3>2. PICK cf : cf = bbs[t].cfs[k]
      OBVIOUS
    <3>3. \/ o = cf
          \/ o.target = n /\ o.cont = Null /\ o.jump = req.addr
      BY <1>1, <1>3, <3>1, <3>2, KeptKin
    <3>4. CASE o = cf
      <4>1. WfCf(cf, Len(bbs)) /\ Leads(cf, bbs)
        BY <1>3, <1>6, <3>1, <3>2, OpOfBlock DEF Graph, AllLead
      <4> QED
        BY <1>3, <1>10, <3>4, <4>1, LeadsKept
    <3>5. CASE o.target = n /\ o.cont = Null /\ o.jump = req.addr
      BY <1>8, <3>5 DEF Leads
    <3> QED
      BY <3>3, <3>4, <3>5
  <2> QED
    BY <1>1, <1>2, <1>11, <2>1, <2>2, SplitSources
<1>12. PICK S : S = {q}
  OBVIOUS
<1>13. PICK r : r = Null
  OBVIOUS
<1>14. Rebuilds(bbs, C, r, r, S)
  <2>1. \A b \in 1..Len(bbs) : b \notin S => Stays(bbs, C, b)
    <3> SUFFICES ASSUME NEW b \in 1..Len(bbs), b # q PROVE Stays(bbs, C, b)
      BY <1>12
    <3>1. b \in 1..n
      BY <1>1, <1>3
    <3>2. DOMAIN C[b].cfs = DOMAIN bbs[b].cfs
      BY <1>4 DEF OpsAfter
    <3>3. \A k \in DOMAIN bbs[b].cfs : Leads(C[b].cfs[k], C)
      BY <1>11, <3>1, <3>2
    <3> QED
      BY <1>3, <1>9, <3>3 DEF Stays
  <2>2. \A b \in 1..Len(C) : b \in S \/ b > Len(bbs) => Rebuilt(C, b, r)
    <3> SUFFICES ASSUME NEW b \in 1..n, b = q \/ b = n PROVE Rebuilt(C, b, r)
      BY <1>3, <1>12
    <3>1. b # r
      BY <1>3, <1>13
    <3>2. Formed(C[b], b = r)
      <4>1. (b = r) = FALSE
        BY <3>1
      <4> QED
        BY <1>7, <4>1
    <3> QED
      BY <1>11, <3>2 DEF Rebuilt
  <2>3. Len(bbs) <= Len(C)
    BY <1>1, <1>3
  <2> HIDE DEF Stays, Rebuilt
  <2> QED
    BY <1>3, <1>5, <1>12, <2>1, <2>2, <2>3 DEF Rebuilds
<1> HIDE DEF Rebuilds, Graph
<1>15. Graph(C, r)
  <2>1. Graph(bbs, r)
    BY <1>6, <1>13
  <2> QED
    BY <1>3, <1>14, <2>1, RebuiltGraph
<1> QED
  BY <1>13, <1>15

(* After a split every operation without a target still waits or still     *)
(* finds its block.                                                        *)
LEMMA SplitFound ==
  ASSUME AllYield, Inv, Disjoint(bbs), Pointers, Jumps, Faith, Split, Lifting
  PROVE  Lifting' /\ AllFound'
<1>1. PICK n : n = Len(bbs) + 1
  OBVIOUS
<1>2. PICK q : q = req.bb
  OBVIOUS
<1>3. PICK next : next = IF q = cur THEN n ELSE cur
  OBVIOUS
<1>4. PICK C : C = bbs'
  OBVIOUS
<1>5. /\ phase = "split" /\ q \in 1..Len(bbs) /\ n # q /\ n # Null /\ Len(C) = n
      /\ \A a \in Slots : ptr[a] # Null => ptr'[a] # Null
  BY <1>1, <1>2, <1>4, SplitExtents
<1>6. /\ prog' = prog /\ needs' = needs /\ cfi \in Nat /\ pos \in Int /\ Horizon = pos /\ Horizon' = pos
      /\ \A k \in DOMAIN bbs[cur].cfs : k \in Nat /\ k <= Len(bbs[cur].cfs)
      /\ Len(bbs[cur].cfs) \in Nat
      /\ \/ phase' = "cf" /\ cfi < Len(bbs[cur].cfs) /\ cfi' = cfi + 1 /\ cur' = next
         \/ phase' = "scan" /\ cfi >= Len(bbs[cur].cfs)
  BY <1>1, <1>2, <1>3, SplitGoesOn
<1>7. AllFound
  BY <1>5 DEF Faith
<1>8. Lifting'
  BY <1>6 DEF Lifting
<1>9. \A cf : Found(cf) => Found(cf)'
  <2>1. \A a \in Slots : Awaits(a) => Awaits(a)'
    BY <1>6 DEF Awaits, IsInstr
  <2> HIDE DEF Awaits, Found
  <2> QED
    BY <1>5, <1>6, <2>1, FoundKept
<1>10. ASSUME NEW k \in DOMAIN bbs[cur].cfs, k >= cfi, k # cfi
       PROVE  Waiting(next, k)' /\ Place(cur, q, n) = next
  <2>1. k \in Nat /\ k <= Len(bbs[cur].cfs) /\ k > cfi /\ k >= cfi + 1
    BY <1>6, <1>10
  <2>2. phase' = "cf" /\ cfi' = cfi + 1 /\ cur' = next
    BY <1>6, <2>1
  <2>3. Place(cur, q, n) = next
    BY <1>3 DEF Place
  <2> QED
    BY <1>8, <2>1, <2>2, <2>3 DEF Waiting
<1> HIDE DEF Kept, Waiting, Found
<1>11. ASSUME NEW b \in 1..n, NEW k \in DOMAIN C[b].cfs, NEW o, o = C[b].cfs[k]
       PROVE  Waiting(b, k)' \/ Found(o)'
  <2>1. CASE o = Cf("jump", FirstEnd, req.addr, n)
    <3>1. o.target = n
      BY <2>1 DEF Cf
    <3> QED
      BY <1>5, <3>1 DEF Found
  <2>2. CASE \E t \in 1..Len(bbs) : b = Place(t, q, n) /\ k \in DOMAIN bbs[t].cfs /\ o = Kept(bbs[t].cfs[k], n)
    <3>1. PICK t \in 1..Len(bbs) : b = Place(t, q, n) /\ k \in DOMAIN bbs[t].cfs /\ o = Kept(bbs[t].cfs[k], n)
      BY <2>2
    <3>2. PICK cf : cf = bbs[t].cfs[k]
      OBVIOUS
    <3>3. \/ o = cf /\ ~(Lifting /\ t = cur /\ k = cfi)
          \/ o.target = n
      <4> HIDE DEF Kin
      <4> QED
        BY <1>1, <1>5, <3>1, <3>2, KeptKin
    <3>4. CASE o.target = n
      BY <1>5, <3>4 DEF Found
    <3>5. CASE o = cf /\ ~(t = cur /\ k = cfi) /\ Waiting(t, k)
      <4>1. t = cur /\ k >= cfi
        BY <3>5 DEF Waiting
      <4> QED
        BY <1>10, <3>1, <3>5, <4>1
    <3>6. CASE o = cf /\ ~Waiting(t, k)
      <4>1. Found(cf)
        BY <1>7, <3>1, <3>2, <3>6 DEF AllFound
      <4> QED
        BY <1>9, <3>6, <4>1
    <3> QED
      BY <3>3, <3>4, <3>5, <3>6
  <2> HIDE DEF Place, Cf, FirstEnd
  <2> QED
    BY <1>1, <1>2, <1>4, <1>11, <2>1, <2>2, SplitSources
<1>12. AllFound'
  <2> SUFFICES ASSUME NEW b \in 1..n, NEW k \in DOMAIN C[b].cfs
               PROVE  Waiting(b, k)' \/ Found(bbs[b].cfs[k])'
    BY <1>4, <1>5 DEF AllFound
  <2>1. PICK o : o = C[b].cfs[k]
    OBVIOUS
  <2>2. Waiting(b, k)' \/ Found(o)'
    BY <1>11, <2>1
  <2>3. bbs'[b].cfs[k] = o
    BY <1>4, <2>1
  <2>4. Found(o)' => Found(bbs[b].cfs[k])'
    BY <2>3 DEF Found, Direct
  <2> QED
    BY <2>2, <2>4
<1> QED
  BY <1>8, <1>12

(* Nor does a split for a register address leave one behind. *)
LEMMA SplitDone ==
  ASSUME AllYield, Inv, Disjoint(bbs), Pointers, Jumps, Faith, Split, ~Lifting
  PROVE  phase' = "register" /\ AllFound' /\ AllDone'
<1>1. PICK n : n = Len(bbs) + 1
  OBVIOUS
<1>2. PICK q : q = req.bb
  OBVIOUS
<1>3. PICK C : C = bbs'
  OBVIOUS
<1>4. phase = "split" /\ n # Null /\ Len(C) = n
  BY <1>1, <1>2, <1>3, SplitExtents
<1>5. phase' = "register"
  <2>1. req.back = "register"
    BY <1>4 DEF Lifting, Inv, Typed
  <2> QED
    BY <2>1 DEF Split
<1>6. AllDone
  BY <1>4 DEF Faith
<1>7. ASSUME NEW b \in 1..n, NEW k \in DOMAIN C[b].cfs, NEW o, o = C[b].cfs[k]
      PROVE  Done(o)
  <2>1. CASE o = Cf("jump", FirstEnd, req.addr, n)
    BY <1>4, <2>1 DEF Done, Cf, CallTypes
  <2>2. CASE \E t \in 1..Len(bbs) : k \in DOMAIN bbs[t].cfs /\ o = Kept(bbs[t].cfs[k], n)
    <3>1. PICK t \in 1..Len(bbs) : k \in DOMAIN bbs[t].cfs /\ o = Kept(bbs[t].cfs[k], n)
      BY <2>2
    <3>2. PICK cf : cf = bbs[t].cfs[k]
      OBVIOUS
    <3> HIDE DEF Kin, Kept, Lifting
    <3>3. o = cf
      BY <1>1, <1>4, <3>1, <3>2, KeptKin
    <3>4. Done(cf)
      BY <1>4, <1>6, <3>1, <3>2 DEF AllDone
    <3> QED
      BY <3>3, <3>4
  <2> HIDE DEF Kept, Cf, FirstEnd
  <2>3. \/ o = Cf("jump", FirstEnd, req.addr, n)
        \/ \E t \in 1..Len(bbs) : b = Place(t, q, n) /\ k \in DOMAIN bbs[t].cfs /\ o = Kept(bbs[t].cfs[k], n)
    BY <1>1, <1>2, <1>3, <1>7, SplitSources
  <2> QED
    BY <2>1, <2>2, <2>3
<1>8. \A b \in 1..n : \A k \in DOMAIN C[b].cfs : Done(C[b].cfs[k])
  <2> HIDE DEF Done
  <2> QED
    BY <1>7
<1>9. AllDone'
  BY <1>3, <1>4, <1>8 DEF AllDone, Done, Direct
<1>10. AllFound'
  BY <1>3, <1>4, <1>8 DEF AllFound, Found, Done, Direct
<1> QED
  BY <1>5, <1>9, <1>10

LEMMA SplitFaith ==
  ASSUME AllYield, Inv, Inv', Disjoint(bbs), Pointers, Jumps, Faith, Split
  PROVE  Faith'
<1>1. PICK C : C = bbs'
  OBVIOUS
<1>2. PICK o : o = Open'
  OBVIOUS
<1>3. Graph(C, Null)
  <2> HIDE DEF Graph
  <2> QED
    BY <1>1, SplitGraph
<1>4. /\ phase' # "crashed" => AllFound' /\ AllDone'
      /\ phase' = "scan" => cur' = Null
  <2>1. CASE Lifting
    <3>1. Lifting' /\ AllFound'
      BY <2>1, SplitFound
    <3>2. phase' = "scan" => cur' = Null
      <4>1. PICK next : next = IF req.bb = cur THEN Len(bbs) + 1 ELSE cur
        OBVIOUS
      <4> HIDE DEF Lifting
      <4> QED
        BY <2>1, <4>1, SplitGoesOn
    <3> QED
      BY <3>1, <3>2 DEF AllDone
  <2>2. CASE ~Lifting
    <3> HIDE DEF AllDone, AllFound, Lifting
    <3> QED
      BY <2>2, SplitDone
  <2> QED
    BY <2>1, <2>2
<1>5. Graph(bbs, Open)'
  <2>1. o = Null
    BY <1>2, <1>4 DEF Open
  <2>2. prog' = prog
    BY DEF Split
  <2>3. Graph(C, o)
    BY <1>3, <2>1
  <2> HIDE DEF Graph, Open
  <2> QED
    BY <1>1, <1>2, <2>2, <2>3, PrimedGraph
<1> QED
  BY <1>4, <1>5 DEF Faith

-----------------------------------------------------------------------------
(* Lifter::postprocess.                                                    *)

(* C is B with operation m mended, edges, flags, and blocks that only trap.*)
Mends(B, C, m) ==
  /\ WfBlocks(C) /\ Graph(C, Null) /\ Extends(B, C)
  /\ \A b \in 1..Len(B) :
       /\ DOMAIN C[b].cfs = DOMAIN B[b].cfs
       /\ \A k \in DOMAIN B[b].cfs : ~(b = m[1] /\ k = m[2]) => C[b].cfs[k] = B[b].cfs[k]
  /\ \A b \in (Len(B) + 1)..Len(C) : \A k \in DOMAIN C[b].cfs : Done(C[b].cfs[k])

LEMMA MendsTransitive ==
  ASSUME NEW B, NEW C, NEW D, NEW m, WfBlocks(B), Mends(B, C, m), Mends(C, D, m), m[1] \in 1..Len(B)
  PROVE  Mends(B, D, m)
<1>1. WfBlocks(C) /\ WfBlocks(D) /\ Extends(B, C) /\ Extends(C, D) /\ Graph(D, Null)
  BY DEF Mends
<1>2. Extends(B, D) /\ Len(B) \in Nat /\ Len(C) \in Nat /\ Len(D) \in Nat /\ Len(B) <= Len(C) /\ Len(C) <= Len(D)
  BY <1>1, ExtendsTransitive DEF WfBlocks, IsSeq, Extends
<1> HIDE DEF Done, Graph, Extends, WfBlocks
<1>3. ASSUME NEW b \in 1..Len(B)
      PROVE  /\ DOMAIN D[b].cfs = DOMAIN B[b].cfs
             /\ \A k \in DOMAIN B[b].cfs : ~(b = m[1] /\ k = m[2]) => D[b].cfs[k] = B[b].cfs[k]
  <2>1. b \in 1..Len(C)
    BY <1>2
  <2> QED
    BY <2>1 DEF Mends
<1>4. ASSUME NEW b \in (Len(B) + 1)..Len(D), NEW k \in DOMAIN D[b].cfs
      PROVE  Done(D[b].cfs[k])
  <2>1. CASE b \in 1..Len(C)
    <3>1. b \in (Len(B) + 1)..Len(C) /\ b # m[1]
      BY <1>2, <2>1
    <3>2. k \in DOMAIN C[b].cfs /\ D[b].cfs[k] = C[b].cfs[k]
      BY <1>4, <2>1, <3>1 DEF Mends
    <3> QED
      BY <3>1, <3>2 DEF Mends
  <2>2. CASE b \in (Len(C) + 1)..Len(D)
    BY <1>4, <2>2 DEF Mends
  <2> QED
    BY <1>2, <2>1, <2>2
<1> QED
  BY <1>1, <1>2, <1>3, <1>4 DEF Mends

(* Operation m, which is op, becomes cf. *)
Patched(B, C, m, op, cf) ==
  /\ m[1] \in 1..Len(B) /\ m[2] \in DOMAIN B[m[1]].cfs /\ op = B[m[1]].cfs[m[2]]
  /\ Patches(op, cf, B) /\ Swapped(B, C, m[1], m[2], cf)

LEMMA PatchMends ==
  ASSUME NEW B, NEW C, NEW m, NEW op, NEW cf, WfBlocks(B), Graph(B, Null), Patched(B, C, m, op, cf)
  PROVE  Mends(B, C, m) /\ C[m[1]].cfs[m[2]] = cf
<1>1. PICK b, k, o : b = m[1] /\ k = m[2] /\ o = Null
  OBVIOUS
<1>2. b \in 1..Len(B) /\ k \in DOMAIN B[b].cfs /\ op = B[b].cfs[k] /\ Graph(B, o) /\ Patches(op, cf, B)
  BY <1>1 DEF Patched
<1>3. Len(B) \in Nat /\ o \in 0..Len(B)
  BY <1>1 DEF WfBlocks, IsSeq, Null
<1>4. Leads(op, B)
  BY <1>2 DEF Graph, AllLead
<1>5. SameExtent(B, C) /\ \A c \in 1..Len(B) : C[c].cfs = CfsBut(B, b, k, cf, c)
  BY <1>1 DEF Patched, Swapped
<1> HIDE DEF Leads, Graph, Patches, Kin, SameExtent, CfsBut
<1>6. Swapped(B, C, b, k, cf)
  BY <1>5 DEF Swapped
<1>7. Kin(op, cf) /\ Leads(cf, C)
  <2> HIDE DEF Swapped
  <2> QED
    BY <1>2, <1>4, <1>6, PatchLeads
<1>8. Kin(B[b].cfs[k], cf)
  BY <1>2, <1>7
<1>9. Graph(C, o)
  BY <1>2, <1>3, <1>5, <1>7, <1>8, PatchGraph
<1>10. WfBlocks(C) /\ Extends(B, C) /\ Len(C) = Len(B)
  BY <1>5 DEF SameExtent
<1>11. \A c \in 1..Len(B) : /\ DOMAIN C[c].cfs = DOMAIN B[c].cfs
                            /\ \A l \in DOMAIN B[c].cfs : ~(c = b /\ l = k) => C[c].cfs[l] = B[c].cfs[l]
  BY <1>5 DEF CfsBut
<1>12. C[b].cfs[k] = cf
  BY <1>2, <1>5 DEF CfsBut
<1>13. \A c \in (Len(B) + 1)..Len(C) : FALSE
  BY <1>3, <1>10
<1> QED
  BY <1>1, <1>9, <1>10, <1>11, <1>12, <1>13 DEF Mends

(* Nothing but a flag changes. *)
LEMMA FlagMends ==
  ASSUME NEW B, WfBlocks(B), Graph(B, Null), NEW m, NEW b \in 1..Len(B), NEW F \in SUBSET Flags
  PROVE  /\ Mends(B, PutFlag(B, b, F), m)
         /\ \A c \in 1..Len(B) : PutFlag(B, b, F)[c].cfs = B[c].cfs
         /\ Mends(B, B, m)
<1>1. PICK C : C = PutFlag(B, b, F)
  OBVIOUS
<1>2. WfBlocks(C) /\ Extends(B, C) /\ Len(C) = Len(B) /\ Len(B) \in Nat
  BY <1>1, PutFlagGrows DEF Grows, WfBlocks, IsSeq
<1>3. \A c \in 1..Len(B) : C[c].cfs = B[c].cfs
  <2>1. DOMAIN B = 1..Len(B) /\ \A c \in 1..Len(B) : DOMAIN B[c] = BlockFields
    BY DEF WfBlocks, WfBlock, IsSeq
  <2>2. C = [B EXCEPT ![b] = WithFlags(B[b], B[b].flags \cup F)]
    BY <1>1 DEF PutFlag, Put
  <2> QED
    BY <2>1, <2>2 DEF WithFlags, BlockFields
<1>4. PICK o : o = Null
  OBVIOUS
<1>5. Graph(C, o)
  <2>1. SameExtent(B, C) /\ o \in 0..Len(B) /\ Graph(B, o)
    BY <1>2, <1>4 DEF SameExtent, Null
  <2> HIDE DEF Graph, SameExtent
  <2> QED
    BY <1>3, <2>1, SameGraph
<1>6. \A c \in (Len(B) + 1)..Len(B) : FALSE
  BY <1>2
<1>7. Extends(B, B)
  BY ExtendsReflexive
<1> HIDE DEF Graph, WfBlocks, Extends
<1>8. Mends(B, C, m)
  BY <1>2, <1>3, <1>4, <1>5, <1>6 DEF Mends
<1>9. Mends(B, B, m)
  BY <1>6, <1>7 DEF Mends
<1> QED
  BY <1>1, <1>3, <1>8, <1>9

(* A block that does nothing but trap. *)
LEMMA TrapMends ==
  ASSUME NEW B, WfBlocks(B), Graph(B, Null), NEW x, WfBlock(x, Len(B) + 1), x.code = {},
         x.cfs = <<Cf("unreachable", 0, 0, Null)>>, NEW m
  PROVE  Mends(B, Append(B, x), m) /\ Hollow(x)
<1>1. PICK C, u, o : C = Append(B, x) /\ u = Cf("unreachable", 0, 0, Null) /\ o = Null
  OBVIOUS
<1>2. DOMAIN x.cfs = {1} /\ x.cfs[1] = u
  BY <1>1, SingleIsSeq
<1>3. u.type = "unreachable" /\ Done(u) /\ Leads(u, C)
  BY <1>1 DEF Cf, Done, Direct, CallTypes, Leads, Null
<1>4. Hollow(x)
  BY <1>2, <1>3 DEF Hollow
<1>5. /\ WfBlocks(C) /\ Extends(B, C) /\ Len(C) = Len(B) + 1 /\ Len(B) \in Nat
      /\ \A b \in 1..Len(B) : C[b] = B[b]
      /\ C[Len(B) + 1] = x
  BY <1>1, AppendGrows, AppendIsSeq DEF Grows, WfBlocks, IsSeq
<1>6. Graph(C, o)
  <2>1. \A k \in DOMAIN x.cfs : Leads(x.cfs[k], C)
    BY <1>2, <1>3
  <2>2. o \in 0..Len(B) /\ Graph(B, o)
    BY <1>1, <1>5 DEF Null
  <2> HIDE DEF Leads, Graph, Hollow
  <2> QED
    BY <1>1, <1>4, <2>1, <2>2, AppendGraph
<1>7. \A b \in (Len(B) + 1)..Len(C) : b = Len(B) + 1
  BY <1>5
<1> HIDE DEF Graph, WfBlocks, Extends, Done
<1> QED
  BY <1>1, <1>2, <1>3, <1>4, <1>5, <1>6, <1>7 DEF Mends

(* Addresses are found in the same blocks. *)
LEMMA MendsSites ==
  ASSUME NEW B, WfBlocks(B), NEW C, NEW m, Mends(B, C, m), NEW p \in [Slots -> 0..Len(B)],
         OwnCode(B, p, 0), Disjoint(B)
  PROVE  p \in [Slots -> 0..Len(C)] /\ OwnCode(C, p, 0) /\ Disjoint(C)
<1>1. WfBlocks(C) /\ Extends(B, C)
  BY DEF Mends
<1>2. Len(B) \in Nat /\ Len(C) \in Nat /\ Len(B) <= Len(C)
  BY <1>1 DEF WfBlocks, IsSeq, Extends
<1>3. /\ \A b \in 1..Len(B) : C[b].code = B[b].code /\ C[b].start = B[b].start
      /\ \A b \in 1..Len(C) : b \in 1..Len(B) \/ C[b].code = {}
  BY <1>1, <1>2 DEF Extends
<1>4. \A a \in Slots : p[a] # Null => p[a] \in 1..Len(B)
  BY <1>2 DEF Null
<1>5. OwnCode(C, p, 0)
  BY <1>3, <1>4 DEF OwnCode
<1>6. Disjoint(C)
  <2> HIDE DEF IsInstr
  <2> QED
    BY <1>3 DEF Disjoint
<1>7. p \in [Slots -> 0..Len(C)]
  BY <1>2
<1> QED
  BY <1>5, <1>6, <1>7

(* What the loop leaves of an operation: a jump has a target, a call goes  *)
(* on where it did before.                                                 *)
Answers(o, op) ==
  /\ Direct(o) => o.target # Null
  /\ o.type \in CallTypes => o.type = op.type /\ o.cont = op.cont

(* A direct jump to an instruction finds a block or has one.               *)
Finds(op, p) == Direct(op) /\ op.target = Null /\ IsInstr(op.jump) => p[op.jump] # Null

(* The target of the operation is set: the block that is found there, a    *)
(* new one that traps, or none and the operation itself traps.             *)
LEMMA PostTargetMends ==
  ASSUME NEW B, WfBlocks(B), Graph(B, Null), NEW p \in [Slots -> 0..Len(B)], OwnCode(B, p, 0), Disjoint(B),
         NEW m, m[1] \in 1..Len(B), m[2] \in DOMAIN B[m[1]].cfs, NEW op, op = B[m[1]].cfs[m[2]],
         NEW cf, cf.type = op.type, cf.jump = op.jump, cf.target = op.target,
         cf.type \notin {"ret", "unreachable"}, Finds(op, p)
  PROVE  /\ Mends(B, PostTarget(B, p, m, cf), m)
         /\ Answers(PostTarget(B, p, m, cf)[m[1]].cfs[m[2]], op)
<1>1. PICK b, k : b = m[1] /\ k = m[2]
  OBVIOUS
<1>2. b \in 1..Len(B) /\ k \in DOMAIN B[b].cfs /\ op = B[b].cfs[k]
  BY <1>1
<1>3. WfCf(op, Len(B))
  BY <1>2, OpOfBlock
<1>4. PICK t : t = IF cf.jump \in Slots THEN p[cf.jump] ELSE Null
  OBVIOUS
<1>5. /\ Len(B) \in Nat /\ t \in 0..Len(B) /\ {"call_target"} \in SUBSET Flags /\ Mends(B, B, m)
      /\ \A v \in 1..Len(B) : v # Null
  <2>1. {"call_target"} \in SUBSET Flags
    BY DEF Flags
  <2>2. Mends(B, B, m)
    <3> HIDE DEF Graph, Mends
    <3> QED
      BY <1>2, <2>1, FlagMends
  <2> QED
    BY <1>4, <2>1, <2>2 DEF WfBlocks, IsSeq, Null
<1>6. cf.type = "call" \/ Direct(op) \/ cf.type \in {"ijump", "icall"}
  BY <1>3 DEF WfCf, CfType, Direct
<1>7. /\ \A v : LET q == [op EXCEPT !.target = v]
                IN  q.target = v /\ q.type = op.type /\ q.cont = op.cont
      /\ [op EXCEPT !.type = "unreachable", !.cont = Null].type = "unreachable"
  BY <1>3, OpFields
<1> HIDE DEF Graph, Mends, WfCf, OwnCode, Disjoint, Serves, IsInstr, Patches, SameExtent, CfsBut, PostTarget, Swapped, Patched
<1>8. CASE cf.type \in {"ijump", "icall"}
  <2>1. PostTarget(B, p, m, cf) = B
    BY <1>8 DEF PostTarget
  <2>2. Answers(op, op)
    BY <1>8 DEF Answers, Direct
  <2> QED
    BY <1>5, <2>1, <2>2
<1>9. CASE cf.type \notin {"ijump", "icall"} /\ cf.target # Null
  <2>1. Answers(op, op)
    BY <1>9 DEF Answers
  <2>2. CASE cf.type = "call"
    <3>1. PostTarget(B, p, m, cf) = PutFlag(B, cf.target, {"call_target"})
      <4>1. PostTarget(B, p, m, cf) = [B EXCEPT ![cf.target].flags = @ \cup {"call_target"}]
        BY <1>9, <2>2 DEF PostTarget
      <4> QED
        BY <4>1 DEF PutFlag, Put, WithFlags
    <3>2. cf.target \in 1..Len(B)
      <4>1. op.target \in 0..Len(B)
        BY <1>3 DEF WfCf
      <4> QED
        BY <1>5, <1>9, <4>1 DEF Null
    <3> QED
      <4>1. PICK v, F : v = cf.target /\ F = {"call_target"}
        OBVIOUS
      <4>2. v \in 1..Len(B) /\ F \in SUBSET Flags
        BY <1>5, <3>2, <4>1
      <4>3. Mends(B, PutFlag(B, v, F), m) /\ \A c \in 1..Len(B) : PutFlag(B, v, F)[c].cfs = B[c].cfs
        BY <4>2, FlagMends
      <4>4. PICK C : C = PutFlag(B, v, F)
        OBVIOUS
      <4>5. PostTarget(B, p, m, cf) = C /\ Mends(B, C, m) /\ C[m[1]].cfs[m[2]] = op
        BY <3>1, <4>1, <4>3, <4>4
      <4> QED
        BY <2>1, <4>5
  <2>3. CASE cf.type # "call"
    <3>1. PostTarget(B, p, m, cf) = B
      BY <1>9, <2>3 DEF PostTarget
    <3> QED
      BY <1>5, <2>1, <3>1
  <2> QED
    BY <2>2, <2>3
<1>10. CASE cf.type \notin {"ijump", "icall"} /\ cf.target = Null /\ t # Null
  <2>1. t \in 1..Len(B) /\ Direct(op)
    <3>1. t \in 1..Len(B)
      BY <1>5, <1>10 DEF Null
    <3>2. Direct(op)
      BY <1>6, <1>10 DEF Direct
    <3> QED
      BY <3>1, <3>2
  <2>2. PICK q : q = [op EXCEPT !.target = t]
    OBVIOUS
  <2>3. PICK D : D = PutCf(B, b, k, q)
    OBVIOUS
  <2>4. PICK L : L = AddEdgeIfAbsent(D, b, t)
    OBVIOUS
  <2>5. WfCf(q, Len(B))
    BY <1>3, <1>5, <2>1, <2>2, CfFieldsWf
  <2>6. SameExtent(B, D) /\ \A c \in 1..Len(B) : D[c].cfs = CfsBut(B, b, k, q, c)
    BY <1>2, <2>3, <2>5, PutCfSame, PutCfCfs
  <2>7. WfBlocks(D) /\ Len(D) = Len(B) /\ Extends(B, D)
    BY <2>6 DEF SameExtent
  <2>8. SameExtent(D, L) /\ \A c \in 1..Len(B) : L[c].cfs = D[c].cfs
    BY <1>2, <2>1, <2>4, <2>7, AddEdgeIfAbsentSame
  <2>9. SameExtent(B, L) /\ Swapped(B, L, m[1], m[2], q)
    <3>1. WfBlocks(L) /\ Len(L) = Len(B) /\ Extends(D, L)
      BY <2>7, <2>8 DEF SameExtent
    <3>2. Extends(B, L)
      BY <2>7, <3>1, ExtendsTransitive
    <3> QED
      BY <1>1, <2>6, <2>8, <3>1, <3>2 DEF SameExtent, Swapped
  <2>10. Serves(B[t], op.jump)
    <3>1. PICK a, o : a = op.jump /\ o = Null
      OBVIOUS
    <3>2. a \in Slots /\ p[a] = t /\ p[a] # Null /\ p[a] # o /\ Graph(B, o)
      BY <1>4, <1>10, <3>1
    <3>3. Serves(B[p[a]], a)
      BY <3>2, FoundServes
    <3> QED
      BY <3>1, <3>2, <3>3
  <2>11. Patches(op, q, B)
    BY <2>1, <2>2, <2>10 DEF Patches
  <2>12. Mends(B, L, m) /\ L[m[1]].cfs[m[2]] = q
    <3>1. Patched(B, L, m, op, q)
      BY <2>9, <2>11 DEF Patched
    <3> QED
      BY <3>1, PatchMends
  <2>13. Answers(q, op)
    BY <1>5, <1>7, <2>1, <2>2 DEF Answers
  <2>14. PostTarget(B, p, m, cf) = IF cf.type = "call" THEN PutFlag(L, t, {"call_target"}) ELSE L
    <3>1. D = [B EXCEPT ![m[1]].cfs[m[2]].target = t]
      BY <1>1, <1>2, <2>2, <2>3 DEF PutCf, Put, WithCfs
    <3>2. L = AddEdgeIfAbsent([B EXCEPT ![m[1]].cfs[m[2]].target = t], m[1], t)
      BY <1>1, <2>4, <3>1
    <3>3. PutFlag(L, t, {"call_target"}) = [L EXCEPT ![t].flags = @ \cup {"call_target"}]
      BY DEF PutFlag, Put, WithFlags
    <3> QED
      BY <1>4, <1>10, <3>2, <3>3 DEF PostTarget
  <2>15. WfBlocks(L) /\ Graph(L, Null) /\ t \in 1..Len(L) /\ m[1] \in 1..Len(L)
    BY <2>1, <2>9, <2>12 DEF SameExtent, Mends
  <2>16. Mends(L, PutFlag(L, t, {"call_target"}), m) /\ PutFlag(L, t, {"call_target"})[m[1]].cfs = L[m[1]].cfs
    <3>1. PICK F : F = {"call_target"}
      OBVIOUS
    <3>2. F \in SUBSET Flags
      BY <1>5, <3>1
    <3>3. Mends(L, PutFlag(L, t, F), m) /\ PutFlag(L, t, F)[m[1]].cfs = L[m[1]].cfs
      BY <2>15, <3>2, FlagMends
    <3> QED
      BY <3>1, <3>3
  <2>17. Mends(B, PutFlag(L, t, {"call_target"}), m)
    BY <2>12, <2>16, MendsTransitive
  <2> QED
    BY <2>12, <2>13, <2>14, <2>16, <2>17
<1>11. CASE cf.type \notin {"ijump", "icall"} /\ cf.target = Null /\ t = Null
  <2>1. Direct(op) /\ ~IsInstr(op.jump) /\ op.target = Null
    <3>1. Direct(op)
      BY <1>3, <1>11 DEF WfCf, CfType, Direct
    <3>2. IsInstr(op.jump) => op.jump \in Slots
      BY DEF IsInstr
    <3> QED
      BY <1>4, <1>11, <3>1, <3>2 DEF Finds
  <2>2. CASE cf.type = "syscall"
    <3>1. PICK n, x : n = Len(B) + 1 /\ x = [TrapBlock(0) EXCEPT !.end = 0]
      OBVIOUS
    <3>2. PICK A : A = Append(B, x)
      OBVIOUS
    <3>3. PICK q : q = [op EXCEPT !.target = n]
      OBVIOUS
    <3>4. PICK D : D = PutCf(A, b, k, q)
      OBVIOUS
    <3>5. PICK C : C = AddEdge(D, b, n)
      OBVIOUS
    <3>6. WfBlock(x, n) /\ x.code = {} /\ x.cfs = <<Cf("unreachable", 0, 0, Null)>>
      <4>1. n \in Nat /\ 0 \in 0..N
        BY <1>5, <3>1, NAssumption
      <4> QED
        BY <3>1, <4>1, TrapBlockWf, TrapBlockFields
    <3>7. Mends(B, A, m) /\ Hollow(x)
      BY <3>1, <3>2, <3>6, TrapMends
    <3>8. /\ WfBlocks(A) /\ Graph(A, Null) /\ Len(A) = n /\ A[b] = B[b] /\ A[n] = x
          /\ n \in 1..n /\ b \in 1..n /\ n # Null /\ n \in Nat
      <4>1. Len(A) = n /\ A[b] = B[b] /\ A[n] = x
        BY <1>2, <3>1, <3>2, AppendIsSeq DEF WfBlocks
      <4> QED
        BY <1>2, <1>5, <3>1, <3>7, <4>1 DEF Mends, Null
    <3>9. op = A[b].cfs[k] /\ k \in DOMAIN A[b].cfs /\ WfCf(op, n)
      <4>1. op = A[b].cfs[k] /\ k \in DOMAIN A[b].cfs
        BY <1>2, <3>8
      <4> QED
        BY <3>8, <4>1, OpOfBlock
    <3>10. WfCf(q, n)
      <4>1. n \in Nat /\ n \in 0..n /\ WfCf(op, n)
        BY <3>8, <3>9
      <4> QED
        BY <3>3, <4>1, CfFieldsWf
    <3>11. SameExtent(A, D) /\ \A c \in 1..n : D[c].cfs = CfsBut(A, b, k, q, c)
      BY <3>4, <3>8, <3>10, PutCfSame, PutCfCfs
    <3>12. WfBlocks(D) /\ Len(D) = n /\ Extends(A, D)
      BY <3>8, <3>11 DEF SameExtent
    <3>13. SameExtent(D, C) /\ \A c \in 1..n : C[c].cfs = D[c].cfs
      BY <3>5, <3>8, <3>12, AddEdgeSame, SMTT(30)
    <3>14. Swapped(A, C, m[1], m[2], q)
      <4>1. WfBlocks(C) /\ Len(C) = n /\ Extends(D, C)
        BY <3>12, <3>13 DEF SameExtent
      <4>2. Extends(A, C)
        BY <3>8, <3>12, <4>1, ExtendsTransitive
      <4> QED
        BY <1>1, <3>8, <3>11, <3>13, <4>1, <4>2 DEF SameExtent, Swapped
    <3>15. Serves(A[n], op.jump)
      BY <2>1, <3>7, <3>8 DEF Serves
    <3>16. Patches(op, q, A)
      BY <2>1, <3>3, <3>8, <3>15 DEF Patches
    <3>17. Mends(A, C, m) /\ C[m[1]].cfs[m[2]] = q
      <4>1. m[1] \in 1..Len(A) /\ m[2] \in DOMAIN A[m[1]].cfs /\ op = A[m[1]].cfs[m[2]]
        BY <1>1, <3>8, <3>9
      <4>2. Patched(A, C, m, op, q)
        BY <3>14, <3>16, <4>1 DEF Patched
      <4> QED
        BY <3>8, <4>2, PatchMends
    <3>18. Mends(B, C, m)
      BY <3>7, <3>17, MendsTransitive
    <3>19. Answers(q, op)
      BY <1>7, <2>1, <3>3, <3>8 DEF Answers
    <3>20. PostTarget(B, p, m, cf) = C
      <4>1. D = [A EXCEPT ![m[1]].cfs[m[2]].target = n]
        BY <1>1, <3>3, <3>4, <3>9 DEF PutCf, Put, WithCfs
      <4> QED
        BY <1>1, <1>4, <1>11, <2>2, <3>1, <3>2, <3>5, <4>1 DEF PostTarget
    <3> QED
      BY <3>17, <3>18, <3>19, <3>20
  <2>3. CASE cf.type # "syscall"
    <3>1. PICK q : q = [op EXCEPT !.type = "unreachable", !.cont = Null]
      OBVIOUS
    <3>2. PICK C : C = PutCf(B, b, k, q)
      OBVIOUS
    <3>3. PostTarget(B, p, m, cf) = C
      BY <1>1, <1>2, <1>4, <1>11, <2>3, <3>1, <3>2 DEF PostTarget, PutCf, Put, WithCfs
    <3>4. WfCf(q, Len(B))
      BY <1>3, <1>5, <3>1, CfFieldsWf
    <3>5. Swapped(B, C, m[1], m[2], q)
      <4>1. SameExtent(B, C) /\ \A c \in 1..Len(B) : C[c].cfs = CfsBut(B, b, k, q, c)
        BY <1>2, <3>2, <3>4, PutCfSame, PutCfCfs
      <4> QED
        BY <1>1, <4>1 DEF Swapped
    <3>6. op.type \in {"jump", "cjump", "call"}
      BY <2>1, <2>3 DEF Direct
    <3>7. Patches(op, q, B)
      BY <2>1, <3>1, <3>6 DEF Patches
    <3>8. Mends(B, C, m) /\ C[m[1]].cfs[m[2]] = q
      <4>1. Patched(B, C, m, op, q)
        BY <3>5, <3>7 DEF Patched
      <4> QED
        BY <4>1, PatchMends
    <3>9. Answers(q, op)
      BY <1>7, <3>1 DEF Answers, Direct, CallTypes
    <3> QED
      BY <3>3, <3>8, <3>9
  <2> QED
    BY <2>2, <2>3
<1> QED
  BY <1>8, <1>9, <1>10, <1>11

(* A call gets its continuation. *)
LEMMA WithContMends ==
  ASSUME NEW B, WfBlocks(B), Graph(B, Null), NEW m, m[1] \in 1..Len(B), m[2] \in DOMAIN B[m[1]].cfs,
         NEW c \in 1..Len(B), NEW op, op = B[m[1]].cfs[m[2]], B[c].start = op.instr + 1
  PROVE  /\ Mends(B, WithCont(B, m, c), m)
         /\ LET cf == WithCont(B, m, c)[m[1]].cfs[m[2]]
            IN  cf.type = op.type /\ cf.jump = op.jump /\ cf.target = op.target /\ cf.cont = c
<1>1. PICK b, k : b = m[1] /\ k = m[2]
  OBVIOUS
<1>2. b \in 1..Len(B) /\ k \in DOMAIN B[b].cfs /\ op = B[b].cfs[k] /\ Len(B) \in Nat
  BY <1>1 DEF WfBlocks, IsSeq
<1>3. PICK q : q = [op EXCEPT !.cont = c]
  OBVIOUS
<1>4. WfCf(op, Len(B))
  BY <1>2, OpOfBlock
<1>5. q.type = op.type /\ q.jump = op.jump /\ q.target = op.target /\ q.cont = c
  BY <1>3, <1>4, OpFields
<1> HIDE DEF Graph, Mends, WfCf, Patches, SameExtent, CfsBut, Swapped, Patched
<1>6. WfCf(q, Len(B))
  <2>1. PICK n : n = Len(B)
    OBVIOUS
  <2>2. n \in Nat /\ c \in 0..n /\ WfCf(op, n)
    BY <1>2, <1>4, <2>1
  <2> QED
    BY <1>3, <2>1, <2>2, CfFieldsWf
<1>7. PICK D : D = PutCf(B, b, k, q)
  OBVIOUS
<1>8. PICK L : L = AddEdgeIfAbsent(D, b, c)
  OBVIOUS
<1>9. SameExtent(B, D) /\ \A d \in 1..Len(B) : D[d].cfs = CfsBut(B, b, k, q, d)
  BY <1>2, <1>6, <1>7, PutCfSame, PutCfCfs
<1>10. WfBlocks(D) /\ Len(D) = Len(B) /\ Extends(B, D)
  BY <1>9 DEF SameExtent
<1>11. SameExtent(D, L) /\ \A d \in 1..Len(B) : L[d].cfs = D[d].cfs
  BY <1>2, <1>8, <1>10, AddEdgeIfAbsentSame
<1>12. Swapped(B, L, m[1], m[2], q) /\ Len(L) = Len(B)
  <2>1. WfBlocks(L) /\ Len(L) = Len(B) /\ Extends(D, L)
    BY <1>10, <1>11 DEF SameExtent
  <2>2. Extends(B, L)
    BY <1>10, <2>1, ExtendsTransitive
  <2> QED
    BY <1>1, <1>9, <1>11, <2>1, <2>2 DEF SameExtent, Swapped
<1>13. Patches(op, q, B)
  BY <1>3 DEF Patches
<1>14. Mends(B, L, m) /\ L[m[1]].cfs[m[2]] = q
  <2>1. Patched(B, L, m, op, q)
    BY <1>12, <1>13 DEF Patched
  <2> QED
    BY <2>1, PatchMends
<1>15. PICK C : C = PutFlag(L, c, {"call_cont_block"})
  OBVIOUS
<1>16. WithCont(B, m, c) = C
  <2>1. D = [B EXCEPT ![m[1]].cfs[m[2]].cont = c]
    BY <1>1, <1>2, <1>3, <1>7 DEF PutCf, Put, WithCfs
  <2> QED
    BY <1>1, <1>8, <1>15, <2>1 DEF WithCont, PutFlag, Put, WithFlags
<1>17. {"call_cont_block"} \in SUBSET Flags
  BY DEF Flags
<1>18. WfBlocks(L) /\ Graph(L, Null) /\ c \in 1..Len(L) /\ m[1] \in 1..Len(L)
  BY <1>12, <1>14 DEF Mends
<1>19. Mends(L, C, m) /\ C[m[1]].cfs = L[m[1]].cfs
  BY <1>15, <1>17, <1>18, FlagMends
<1>20. Mends(B, C, m)
  BY <1>14, <1>19, MendsTransitive
<1> QED
  BY <1>5, <1>14, <1>16, <1>19, <1>20

(* The block found behind an instruction that changes the control flow     *)
(* starts there.                                                           *)
LEMMA ContinuesThere ==
  ASSUME Inv, Pointers, Graph(bbs, Null), NEW i \in Slots, prog[i].kind \in Terminators,
         i + 1 \in Slots, ptr[i + 1] # Null
  PROVE  bbs[ptr[i + 1]].start = i + 1
<1>1. PICK a, c, x : a = i + 1 /\ c = ptr[a] /\ x = bbs[c]
  OBVIOUS
<1>2. c \in 1..Len(bbs) /\ i \in Int /\ a \in Int
  BY <1>1 DEF Inv, Typed, WfBlocks, IsSeq, Null, Slots
<1>3. a \in x.code \/ a = x.start
  <2>1. OwnCode(bbs, ptr, 0) /\ a \in Slots \ {0}
    BY <1>1 DEF Pointers, Mapped, Slots
  <2> QED
    BY <1>1, <2>1 DEF OwnCode
<1>4. Formed(x, c = Null)
  BY <1>1, <1>2 DEF Graph
<1>5. CASE a \in x.code
  <2>1. PICK l \in Slots : Ends(x, l, c = Null)
    BY <1>4, <1>5 DEF Formed
  <2>2. x.start \in 1..l /\ a \in x.start..l /\ \A j \in x.start..(l - 1) : prog[j].kind \notin Terminators
    BY <1>5, <2>1 DEF Ends
  <2>3. x.start <= i => i \in x.start..(l - 1)
    BY <1>1, <1>2, <2>2 DEF Slots
  <2>4. ~(x.start <= i)
    BY <2>2, <2>3
  <2> QED
    BY <1>1, <1>2, <2>2, <2>4
<1> QED
  BY <1>1, <1>3, <1>5

Former(cf) == \E b \in 1..Len(bbs) : \E k \in DOMAIN bbs[b].cfs : cf = bbs[b].cfs[k]

(* Behind the scan no block is awaited any more: an operation has what it  *)
(* needs or is still to be visited.                                        *)
LEMMA LateFaith ==
  ASSUME Inv, Faith, Late, prog' = prog, NEW C, C = bbs', Graph(C, Null),
         \A a \in Slots : ptr[a] # Null => ptr'[a] # Null,
         phase' \in {"post", "ijumps", "register", "split", "done"},
         phase' = "split" => req'.back = "register",
         \A b \in 1..Len(C) : \A k \in DOMAIN C[b].cfs :
           Done(C[b].cfs[k]) \/ (phase' = "post" /\ <<b, k>> \in todo' /\ Former(C[b].cfs[k]))
  PROVE  Faith'
<1>1. Graph(bbs, Open)'
  <2>1. PICK o : o = Null
    OBVIOUS
  <2>2. o = Open' /\ Graph(C, o)
    BY <2>1 DEF Open
  <2> HIDE DEF Graph, Open
  <2> QED
    BY <2>2, PrimedGraph
<1>2. \A a \in Slots : ~Awaits(a)
  BY NAssumption DEF Awaits, Horizon, Inv, Typed, Control, Late, Lifting, Slots
<1>3. \A cf : Found(cf) => Found(cf)'
  <2> HIDE DEF Found, Awaits
  <2> QED
    BY <1>2, FoundKept
<1>4. \A cf : Former(cf) => Found(cf)
  <2>1. \A b, k : ~Waiting(b, k)
    BY DEF Waiting, Lifting, Late
  <2>2. phase # "crashed"
    BY DEF Late
  <2> HIDE DEF Found, Waiting
  <2> QED
    BY <2>1, <2>2 DEF Former, Faith, AllFound
<1>5. \A cf : Done(cf) => Found(cf)'
  BY DEF Done, Found, Direct
<1>6. AllFound'
  <2> HIDE DEF Found, Done, Former, Waiting
  <2>1. \A b \in 1..Len(C) : \A k \in DOMAIN C[b].cfs : Found(C[b].cfs[k])'
    BY <1>3, <1>4, <1>5
  <2> QED
    BY <2>1 DEF AllFound
<1>7. AllDone'
  <2>1. \A cf : Done(cf) => Done(cf)'
    BY DEF Done, Direct
  <2> HIDE DEF Done, Former
  <2> QED
    BY <2>1 DEF AllDone
<1> QED
  BY <1>1, <1>6, <1>7 DEF Faith

(* The step of the loop mends the operation it visits. *)
LEMMA MendedFaith ==
  ASSUME Inv, Faith, phase = "post", NEW m \in todo, NEW C, C = bbs', Mends(bbs, C, m), Done(C[m[1]].cfs[m[2]]),
         prog' = prog, phase' = "post", todo' = todo \ {m}, \A a \in Slots : ptr[a] # Null => ptr'[a] # Null
  PROVE  Faith'
<1>1. /\ Len(bbs) \in Nat /\ Len(C) \in Nat /\ todo \subseteq (1..Len(bbs)) \X (Nat \ {0})
      /\ Late /\ ~Lifting /\ Graph(C, Null)
  BY DEF Mends, Inv, Typed, WfBlocks, IsSeq, Late, Lifting
<1>2. ASSUME NEW b \in 1..Len(C), NEW k \in DOMAIN C[b].cfs
      PROVE  Done(C[b].cfs[k]) \/ (phase' = "post" /\ <<b, k>> \in todo' /\ Former(C[b].cfs[k]))
  <2>1. CASE b \in 1..Len(bbs) /\ ~(b = m[1] /\ k = m[2])
    <3>1. k \in DOMAIN bbs[b].cfs /\ C[b].cfs[k] = bbs[b].cfs[k]
      BY <1>2, <2>1 DEF Mends
    <3>2. <<b, k>> \in todo \/ Done(bbs[b].cfs[k])
      BY <1>1, <2>1, <3>1 DEF Faith, AllDone
    <3>3. <<b, k>> # m
      BY <1>1, <2>1
    <3>4. Former(C[b].cfs[k])
      BY <2>1, <3>1 DEF Former
    <3> QED
      BY <3>1, <3>2, <3>3, <3>4
  <2>2. CASE b \in 1..Len(bbs) /\ b = m[1] /\ k = m[2]
    BY <2>2
  <2>3. CASE b \notin 1..Len(bbs)
    <3>1. b \in (Len(bbs) + 1)..Len(C)
      BY <1>1, <2>3
    <3> QED
      BY <1>2, <3>1 DEF Mends
  <2> QED
    BY <2>1, <2>2, <2>3
<1> HIDE DEF Graph, Done, Former, Mends, Faith, Late
<1> QED
  BY <1>1, <1>2, LateFaith

(* With its continuation and its target it has what it needs. *)
LEMMA AnswersDone ==
  ASSUME NEW o, NEW op, Answers(o, op), op.type \in CallTypes => op.cont # Null
  PROVE  Done(o)
BY DEF Answers, Done

LEMMA PostFaith ==
  ASSUME Inv, Disjoint(bbs), Pointers, Faith, Post
  PROVE  Faith'
<1>1. PICK m : m = Least(todo)
  OBVIOUS
<1>2. PICK cf : cf = bbs[m[1]].cfs[m[2]]
  OBVIOUS
<1>3. PICK a : a = cf.instr + 1
  OBVIOUS
<1>4. /\ WfBlocks(bbs) /\ Len(bbs) \in Nat /\ phase = "post" /\ todo # {}
      /\ todo \subseteq (1..Len(bbs)) \X (Nat \ {0})
      /\ \A o \in todo : o[2] \in DOMAIN bbs[o[1]].cfs
      /\ ptr \in [Slots -> 0..Len(bbs)] /\ N \in Nat /\ pos = N + 1
      /\ Graph(bbs, Null) /\ OwnCode(bbs, ptr, 0) /\ Sited(bbs) /\ StartsBehind /\ Mapped(bbs, ptr, 0)
  BY NAssumption DEF Inv, Typed, Control, Lifting, WfBlocks, IsSeq, Post, Faith, Open, Pointers, Mapped
<1>5. m \in todo /\ m[1] \in 1..Len(bbs) /\ m[2] \in DOMAIN bbs[m[1]].cfs /\ m = <<m[1], m[2]>>
  <2>1. todo \subseteq Nat \X Nat
    BY <1>4
  <2>2. Least(todo) \in todo
    BY <1>4, <2>1, LeastIn
  <2> QED
    BY <1>1, <1>4, <2>2
<1>6. /\ PostPass(m, cf) \/ PostJump(m, cf) \/ PostCall(m, cf) \/ PostCallTrap(m, cf) \/ PostCrash(m, cf)
      /\ UNCHANGED <<prog, pos, cur, cfi, req, needs, entry, found>>
  BY <1>1, <1>2, Zenon DEF Post
<1>7. WfCf(cf, Len(bbs)) /\ Site(cf)
  <2>1. WfCf(cf, Len(bbs))
    BY <1>2, <1>4, <1>5, OpOfBlock
  <2> HIDE DEF Site
  <2> QED
    BY <1>2, <1>4, <1>5, <2>1 DEF Sited, Sites
<1>8. Finds(cf, ptr)
  <2>1. Found(cf)
    <3>1. ~Waiting(m[1], m[2])
      BY <1>4 DEF Waiting, Lifting
    <3> HIDE DEF Found, Waiting
    <3> QED
      BY <1>2, <1>4, <1>5, <3>1 DEF Faith, AllFound
  <2>2. \A s : IsInstr(s) => ~Awaits(s)
    BY <1>4 DEF Awaits, Horizon, IsInstr, Slots
  <2> HIDE DEF Awaits, IsInstr
  <2> QED
    BY <2>1, <2>2 DEF Found, Finds
<1> HIDE DEF Graph, Mends, Done, Answers, OwnCode, Disjoint, Faith, Finds, WfCf, Site
<1>9. CASE PostPass(m, cf) \/ PostCrash(m, cf)
  <2>1. CASE PostCrash(m, cf)
    BY <2>1 DEF PostCrash, Faith
  <2>2. CASE PostPass(m, cf)
    <3>1. bbs' = bbs /\ ptr' = ptr /\ phase' = "post" /\ todo' = todo \ {m} /\ cf.type \in {"unreachable", "ret"}
      BY <2>2 DEF PostPass, PostGoOn
    <3>2. PICK C : C = bbs'
      OBVIOUS
    <3>3. {} \in SUBSET Flags
      OBVIOUS
    <3>4. Mends(bbs, bbs, m)
      BY <1>4, <1>5, <3>3, FlagMends
    <3>5. Done(cf)
      BY <3>1 DEF Done, Direct, CallTypes
    <3>6. Mends(bbs, C, m) /\ Done(C[m[1]].cfs[m[2]])
      BY <1>2, <3>1, <3>2, <3>4, <3>5
    <3>7. \A s \in Slots : ptr[s] # Null => ptr'[s] # Null
      BY <3>1
    <3> QED
      BY <1>4, <1>5, <1>6, <3>1, <3>2, <3>6, <3>7, MendedFaith
  <2> QED
    BY <1>9, <2>1, <2>2
<1>10. CASE PostJump(m, cf)
  <2>1. /\ bbs' = PostTarget(bbs, ptr, m, cf) /\ ptr' = ptr /\ phase' = "post" /\ todo' = todo \ {m}
        /\ cf.type \notin {"ret", "unreachable"} /\ cf.type # "call" /\ cf.type # "icall"
    BY <1>10 DEF PostJump, PostGoOn
  <2>2. PICK C : C = bbs'
    OBVIOUS
  <2>3. Mends(bbs, C, m) /\ Answers(C[m[1]].cfs[m[2]], cf)
    BY <1>2, <1>4, <1>5, <1>8, <2>1, <2>2, PostTargetMends
  <2>4. Done(C[m[1]].cfs[m[2]])
    <3>1. PICK o : o = C[m[1]].cfs[m[2]]
      OBVIOUS
    <3> QED
      BY <2>1, <2>3, <3>1, AnswersDone DEF CallTypes
  <2>5. \A s \in Slots : ptr[s] # Null => ptr'[s] # Null
    BY <2>1
  <2> QED
    BY <1>4, <1>5, <1>6, <2>1, <2>2, <2>3, <2>4, <2>5, MendedFaith
<1>11. CASE PostCall(m, cf)
  <2>1. PICK c : c = ptr[a]
    OBVIOUS
  <2>2. PICK B : B = WithCont(bbs, m, c)
    OBVIOUS
  <2>3. a \in Slots /\ c \in 1..Len(bbs) /\ cf.type \in CallTypes /\ c # Null
    BY <1>3, <1>11, <2>1, BlockAtLifted DEF PostCall, CallTypes
  <2>4. /\ bbs' = PostTarget(B, ptr, m, cf) /\ ptr' = ptr /\ phase' = "post" /\ todo' = todo \ {m}
        /\ cf.type \notin {"ret", "unreachable"}
    BY <1>3, <1>11, <2>1, <2>2 DEF PostCall, PostGoOn
  <2>5. bbs[c].start = cf.instr + 1
    <3>1. PICK i : i = cf.instr
      OBVIOUS
    <3>2. i \in Slots /\ prog[i].kind \in Terminators
      BY <1>7, <2>3, <3>1 DEF Site, CallTypes
    <3>3. ptr[i + 1] # Null /\ i + 1 \in Slots /\ c = ptr[i + 1]
      BY <1>3, <2>1, <2>3, <3>1
    <3> QED
      BY <1>4, <3>1, <3>2, <3>3, ContinuesThere
  <2>6. PICK op : op = B[m[1]].cfs[m[2]]
    OBVIOUS
  <2>7. Mends(bbs, B, m) /\ op.type = cf.type /\ op.jump = cf.jump /\ op.target = cf.target /\ op.cont = c
    BY <1>2, <1>4, <1>5, <2>2, <2>3, <2>5, <2>6, WithContMends
  <2>8. ptr \in [Slots -> 0..Len(B)] /\ OwnCode(B, ptr, 0) /\ Disjoint(B)
    BY <1>4, <2>7, MendsSites
  <2>9. WfBlocks(B) /\ Graph(B, Null) /\ m[1] \in 1..Len(B) /\ m[2] \in DOMAIN B[m[1]].cfs /\ Finds(op, ptr)
    <3>1. Len(bbs) <= Len(B) /\ Len(B) \in Nat
      BY <2>7 DEF Mends, Extends, WfBlocks, IsSeq
    <3>2. Finds(op, ptr)
      BY <1>8, <2>7 DEF Finds, Direct
    <3> QED
      BY <1>4, <1>5, <2>7, <3>1, <3>2 DEF Mends
  <2>10. PICK C : C = bbs'
    OBVIOUS
  <2>11. Mends(B, C, m) /\ Answers(C[m[1]].cfs[m[2]], op)
    BY <2>4, <2>6, <2>7, <2>8, <2>9, <2>10, PostTargetMends
  <2>12. Mends(bbs, C, m)
    BY <1>4, <1>5, <2>7, <2>11, MendsTransitive
  <2>13. Done(C[m[1]].cfs[m[2]])
    <3>1. PICK o : o = C[m[1]].cfs[m[2]]
      OBVIOUS
    <3> QED
      BY <2>3, <2>7, <2>11, <3>1, AnswersDone
  <2>14. \A s \in Slots : ptr[s] # Null => ptr'[s] # Null
    BY <2>4
  <2> QED
    BY <1>4, <1>5, <1>6, <2>4, <2>10, <2>12, <2>13, <2>14, MendedFaith
<1>12. CASE PostCallTrap(m, cf)
  <2>1. PICK n, x : n = Len(bbs) + 1 /\ x = TrapBlock(a)
    OBVIOUS
  <2>2. PICK A : A = Append(bbs, x)
    OBVIOUS
  <2>3. PICK B : B = WithCont(A, m, n)
    OBVIOUS
  <2>4. PICK p : p = ptr'
    OBVIOUS
  <2>5. /\ a \in Slots /\ ptr[a] = Null /\ p = [ptr EXCEPT ![a] = n]
        /\ bbs' = PostTarget(B, p, m, cf) /\ phase' = "post" /\ todo' = todo \ {m}
        /\ cf.type \in CallTypes /\ cf.type \notin {"ret", "unreachable"}
    BY <1>3, <1>12, <2>1, <2>2, <2>3, <2>4 DEF PostCallTrap, PostGoOn, CallTypes
  <2>6. ~IsInstr(a)
    <3>1. cf.instr \in Slots /\ prog[cf.instr].kind \in Terminators
      BY <1>7, <2>5 DEF Site, CallTypes
    <3>2. ~Lifted(a)
      <4>1. PICK i : i = cf.instr
        OBVIOUS
      <4>2. i \in Slots /\ prog[i].kind \in Terminators /\ a = i + 1 /\ ~(ptr[i + 1] # Null)
        BY <1>3, <2>5, <3>1, <4>1
      <4> HIDE DEF Lifted
      <4> QED
        BY <1>4, <4>2 DEF StartsBehind
    <3>3. a < pos
      BY <1>4, <2>5 DEF Slots
    <3> HIDE DEF IsInstr
    <3> QED
      BY <3>2, <3>3 DEF Lifted
  <2>7. WfBlock(x, n) /\ x.code = {} /\ x.start = a /\ x.cfs = <<Cf("unreachable", 0, 0, Null)>>
    <3>1. n \in Nat /\ a \in 0..N
      BY <1>4, <2>1, <2>5 DEF Slots
    <3> QED
      BY <2>1, <3>1, TrapBlockWf, TrapBlockFields
  <2>8. Mends(bbs, A, m)
    BY <1>4, <2>1, <2>2, <2>7, TrapMends
  <2>9. /\ WfBlocks(A) /\ Graph(A, Null) /\ Len(A) = n /\ n \in 1..n /\ m[1] \in 1..n /\ n # Null
        /\ A[n].start = a /\ A[m[1]] = bbs[m[1]]
    <3>1. Len(A) = n /\ A[n] = x /\ A[m[1]] = bbs[m[1]]
      BY <1>4, <1>5, <2>1, <2>2, AppendIsSeq DEF WfBlocks
    <3> QED
      BY <1>4, <1>5, <2>1, <2>7, <2>8, <3>1 DEF Mends, Null
  <2>10. OwnCode(A, p, 0) /\ Disjoint(A) /\ p \in [Slots -> 0..n]
    <3>1. Mapped(A, p, 0)
      <4> HIDE DEF Mapped, IsInstr
      <4>1. PICK h : h = 0
        OBVIOUS
      <4>2. h = a \/ ~IsInstr(a)
        BY <2>6
      <4>3. Mapped(Append(bbs, x), [ptr EXCEPT ![a] = Len(bbs) + 1], h)
        BY <1>4, <2>1, <2>5, <2>7, <4>1, <4>2, AppendMapped
      <4> QED
        BY <2>1, <2>2, <2>5, <4>1, <4>3
    <3>2. Disjoint(A)
      BY <1>4, <2>8, MendsSites
    <3>3. p \in [Slots -> 0..n]
      BY <1>4, <2>1, <2>5
    <3> QED
      BY <3>1, <3>2, <3>3 DEF Mapped
  <2>11. PICK op : op = B[m[1]].cfs[m[2]]
    OBVIOUS
  <2>12. Mends(A, B, m) /\ op.type = cf.type /\ op.jump = cf.jump /\ op.target = cf.target /\ op.cont = n
    <3>1. /\ m[1] \in 1..Len(A) /\ n \in 1..Len(A) /\ m[2] \in DOMAIN A[m[1]].cfs /\ cf = A[m[1]].cfs[m[2]]
          /\ A[n].start = cf.instr + 1 /\ WfBlocks(A) /\ Graph(A, Null)
      BY <1>2, <1>3, <1>5, <2>9
    <3> QED
      <4>1. /\ Mends(A, WithCont(A, m, n), m)
            /\ LET o == WithCont(A, m, n)[m[1]].cfs[m[2]]
               IN  o.type = cf.type /\ o.jump = cf.jump /\ o.target = cf.target /\ o.cont = n
        BY <3>1, WithContMends
      <4> QED
        BY <2>3, <2>11, <4>1
  <2>13. p \in [Slots -> 0..Len(B)] /\ OwnCode(B, p, 0) /\ Disjoint(B)
    BY <2>9, <2>10, <2>12, MendsSites
  <2>14. \A s \in Slots : ptr[s] # Null => p[s] # Null
    BY <1>4, <2>1, <2>5, <2>9
  <2>15. WfBlocks(B) /\ Graph(B, Null) /\ m[1] \in 1..Len(B) /\ m[2] \in DOMAIN B[m[1]].cfs /\ Finds(op, p)
    <3>1. n <= Len(B) /\ Len(B) \in Nat
      BY <2>9, <2>12 DEF Mends, Extends, WfBlocks, IsSeq
    <3>2. Finds(op, p)
      <4>1. IsInstr(op.jump) => op.jump \in Slots
        BY DEF IsInstr
      <4> HIDE DEF IsInstr
      <4> QED
        BY <1>8, <2>12, <2>14, <4>1 DEF Finds, Direct
    <3>3. m[2] \in DOMAIN B[m[1]].cfs
      BY <1>5, <2>9, <2>12 DEF Mends
    <3> QED
      BY <1>4, <1>5, <2>1, <2>12, <3>1, <3>2, <3>3 DEF Mends
  <2>16. PICK C : C = bbs'
    OBVIOUS
  <2>17. Mends(B, C, m) /\ Answers(C[m[1]].cfs[m[2]], op)
    BY <2>5, <2>11, <2>12, <2>13, <2>15, <2>16, PostTargetMends
  <2>18. Mends(bbs, C, m)
    <3>1. Mends(A, C, m)
      BY <2>9, <2>12, <2>17, MendsTransitive
    <3> QED
      BY <1>4, <1>5, <2>8, <3>1, MendsTransitive
  <2>19. Done(C[m[1]].cfs[m[2]])
    <3>1. PICK o : o = C[m[1]].cfs[m[2]]
      OBVIOUS
    <3> QED
      BY <2>9, <2>12, <2>17, <3>1, AnswersDone
  <2> QED
    BY <1>4, <1>5, <1>6, <2>4, <2>5, <2>14, <2>16, <2>18, <2>19, MendedFaith
<1> QED
  BY <1>6, <1>9, <1>10, <1>11, <1>12

-----------------------------------------------------------------------------
(* Lifter::process_ijumps and the entry block.                             *)

(* Behind postprocess every operation has what it needs. *)
LEMMA EachDone ==
  ASSUME Faith, Late, phase = "post" => todo = {}
  PROVE  \A b \in 1..Len(bbs) : \A k \in DOMAIN bbs[b].cfs : Done(bbs[b].cfs[k])
<1>1. ~Lifting /\ phase # "crashed"
  BY DEF Late, Lifting
<1> HIDE DEF Done
<1> QED
  BY <1>1 DEF Faith, AllDone

(* The blocks stay, and the loop over the program is over. *)
LEMMA SameFaith ==
  ASSUME Inv, Faith, UNCHANGED <<prog, bbs, ptr>>,
         \/ phase' = "crashed"
         \/ /\ Late /\ (phase = "post" => todo = {})
            /\ phase' \in {"ijumps", "register"}
  PROVE  Faith'
<1>1. CASE phase' = "crashed"
  BY <1>1 DEF Faith
<1>2. CASE Late /\ (phase = "post" => todo = {}) /\ phase' \in {"ijumps", "register"}
  <2>1. PICK C : C = bbs'
    OBVIOUS
  <2>2. \A b \in 1..Len(C) : \A k \in DOMAIN C[b].cfs : Done(C[b].cfs[k])
    <3> HIDE DEF Done
    <3> QED
      BY <1>2, <2>1, EachDone
  <2>3. Graph(C, Null)
    <3>1. Graph(bbs, Null)
      BY <1>2 DEF Faith, Open, Late
    <3> QED
      BY <2>1, <3>1
  <2> HIDE DEF Done, Graph, Late, Former
  <2> QED
    BY <1>2, <2>1, <2>2, <2>3, LateFaith
<1> QED
  BY <1>1, <1>2

LEMMA RegisterFaith ==
  ASSUME Inv, Faith, NEW a \in 0..(N + 1), RegisterAddr(a)
  PROVE  Faith'
<1>1. PICK b, C : b = (IF a = 0 THEN Dummy ELSE BlockAt(a)) /\ C = bbs'
  OBVIOUS
<1>2. /\ phase = "register" /\ ptr' = ptr /\ prog' = prog
      /\ C = IF b = Null THEN bbs ELSE [bbs EXCEPT ![b].flags = @ \cup {"needs_trans_bb"}]
      /\ phase' \in {"register", "split"} /\ (phase' = "split" => req'.back = "register")
  BY <1>1 DEF RegisterAddr
<1>3. /\ WfBlocks(bbs) /\ Len(bbs) \in Nat /\ b \in 0..Len(bbs) /\ Late /\ Graph(bbs, Null)
  BY <1>1, <1>2 DEF Inv, Typed, Control, WfBlocks, IsSeq, Late, Lifting, BlockAt, Dummy, Null, Faith, Open
<1> HIDE DEF Graph, Done, Faith, Former
<1>4. Graph(C, Null) /\ Len(C) = Len(bbs) /\ \A c \in 1..Len(bbs) : C[c].cfs = bbs[c].cfs
  <2>1. CASE b = Null
    BY <1>2, <1>3, <2>1
  <2>2. CASE b # Null
    <3>1. C = PutFlag(bbs, b, {"needs_trans_bb"})
      BY <1>2, <2>2 DEF PutFlag, Put, WithFlags
    <3>2. b \in 1..Len(bbs) /\ {"needs_trans_bb"} \in SUBSET Flags
      BY <1>3, <2>2 DEF Null, Flags
    <3>3. PICK m : m = Null
      OBVIOUS
    <3>4. Mends(bbs, C, m) /\ \A c \in 1..Len(bbs) : C[c].cfs = bbs[c].cfs
      <4> HIDE DEF Mends
      <4> QED
        BY <1>3, <3>1, <3>2, FlagMends
    <3> QED
      BY <1>3, <3>1, <3>2, <3>4, PutFlagGrows DEF Mends
  <2> QED
    BY <2>1, <2>2
<1>5. \A c \in 1..Len(C) : \A k \in DOMAIN C[c].cfs : Done(C[c].cfs[k])
  BY <1>2, <1>3, <1>4, EachDone
<1>6. \A s \in Slots : ptr[s] # Null => ptr'[s] # Null
  BY <1>2
<1> HIDE DEF Late
<1> QED
  BY <1>1, <1>2, <1>3, <1>4, <1>5, <1>6, LateFaith

(* The entry block holds no code. *)
LEMMA AddEntryFaith ==
  ASSUME Inv, Faith, AddEntry
  PROVE  Faith'
<1>1. PICK n, u : n = Len(bbs) + 1 /\ u = Cf("jump", 0, 0, entry)
  OBVIOUS
<1>2. PICK x : x = [EmptyBlock(0) EXCEPT !.cfs = <<u>>]
  OBVIOUS
<1>3. PICK A : A = Append(bbs, x)
  OBVIOUS
<1>4. PICK C : C = bbs'
  OBVIOUS
<1>5. C = AddEdge(A, n, entry) /\ phase = "ijumps" /\ phase' = "done" /\ UNCHANGED <<prog, ptr>>
  BY <1>1, <1>2, <1>3, <1>4 DEF AddEntry
<1>6. /\ WfBlocks(bbs) /\ Len(bbs) \in Nat /\ entry \in 1..n /\ Graph(bbs, Null) /\ entry # Null
      /\ 0 \in 0..N /\ N \in Nat /\ n \in Nat /\ n \in 1..n /\ Late
  BY <1>1, <1>5, NAssumption
     DEF Inv, Typed, Control, WfBlocks, IsSeq, Null, Lifting, Faith, Open, Late
<1>7. WfBlock(x, n) /\ x.code = {} /\ x.start = 0 /\ x.cfs = <<u>>
  <2>1. WfBlock(EmptyBlock(0), n)
    BY <1>6, EmptyBlockWf
  <2>2. WfCf(u, n)
    <3>1. 0 \in 0..(N + 1) /\ entry \in 0..n
      BY <1>6
    <3> QED
      BY <1>1, <1>6, <3>1, CfWf DEF CfType
  <2>3. WfCfs(<<u>>, n)
    BY <2>2, SingleIsSeq DEF WfCfs
  <2>4. x = WithCfs(EmptyBlock(0), <<u>>)
    BY <1>2 DEF WithCfs
  <2>5. WfBlock(x, n)
    BY <2>1, <2>3, <2>4, FieldsWf
  <2>6. x.code = {} /\ x.start = 0 /\ x.cfs = <<u>>
    BY <1>2 DEF EmptyBlock
  <2> QED
    BY <2>5, <2>6
<1>8. DOMAIN x.cfs = {1} /\ x.cfs[1] = u
  BY <1>7, SingleIsSeq
<1>9. Leads(u, A) /\ Done(u)
  BY <1>1, <1>6 DEF Cf, Leads, Done, CallTypes, Null
<1> HIDE DEF Graph, Done, Faith, Former, Leads, Hollow
<1>10. PICK o : o = Null
  OBVIOUS
<1>11. o \in 0..Len(bbs) /\ Graph(bbs, o) /\ o \in 0..n
  BY <1>6, <1>10 DEF Null
<1>12. Graph(A, o)
  <2>1. \A k \in DOMAIN x.cfs : Leads(x.cfs[k], A)
    BY <1>8, <1>9
  <2> QED
    BY <1>1, <1>3, <1>6, <1>7, <1>11, <2>1, AppendGraph
<1>13. /\ WfBlocks(A) /\ Len(A) = n /\ A[n] = x
       /\ \A b \in 1..Len(bbs) : A[b] = bbs[b]
  BY <1>1, <1>3, <1>6, <1>7, AppendBlockWf, AppendIsSeq DEF WfBlocks
<1>14. SameExtent(A, C) /\ \A c \in 1..n : C[c].cfs = A[c].cfs
  BY <1>5, <1>6, <1>13, AddEdgeSame
<1>15. Graph(C, o) /\ Len(C) = n
  <2>1. Len(C) = n
    BY <1>13, <1>14 DEF SameExtent
  <2> HIDE DEF SameExtent
  <2> QED
    BY <1>11, <1>12, <1>13, <1>14, <2>1, SameGraph
<1>16. \A b \in 1..Len(C) : \A k \in DOMAIN C[b].cfs : Done(C[b].cfs[k])
  <2>1. \A b \in 1..Len(bbs) : \A k \in DOMAIN bbs[b].cfs : Done(bbs[b].cfs[k])
    BY <1>5, <1>6, EachDone
  <2>2. \A b \in 1..n : b = n \/ b \in 1..Len(bbs)
    BY <1>1, <1>6
  <2> QED
    BY <1>8, <1>9, <1>13, <1>14, <1>15, <2>1, <2>2
<1>17. \A s \in Slots : ptr[s] # Null => ptr'[s] # Null
  BY <1>5
<1> HIDE DEF Late
<1> QED
  BY <1>4, <1>5, <1>6, <1>10, <1>15, <1>16, <1>17, LateFaith

-----------------------------------------------------------------------------
(* The lifter.                                                             *)

LEMMA InitFaith == Init => Faith
<1> SUFFICES ASSUME Init
             PROVE  Faith
  OBVIOUS
<1>1. /\ bbs = <<EmptyBlock(0)>> /\ Len(bbs) = 1 /\ phase = "scan" /\ cur = Null
  BY DEF Init
<1>2. /\ bbs[1].cfs = <<>> /\ bbs[1].code = {} /\ bbs[1].start = 0
  BY <1>1 DEF EmptyBlock
<1>3. DOMAIN bbs[1].cfs = {} /\ \A b \in 1..Len(bbs) : b = 1
  BY <1>1, <1>2, EmptyIsSeq
<1>4. \A open : Formed(bbs[1], open)
  BY <1>2 DEF Formed
<1> HIDE DEF Formed
<1>5. Graph(bbs, Open)
  BY <1>3, <1>4 DEF Graph, AllLead
<1>6. AllFound /\ AllDone
  BY <1>3 DEF AllFound, AllDone
<1> QED
  BY <1>5, <1>6 DEF Faith

LEMMA StutterFaith ==
  ASSUME Faith, UNCHANGED vars
  PROVE  Faith'
<1>1. UNCHANGED <<prog, phase, pos, cur, cfi, req, bbs, ptr, needs, todo>>
  BY DEF vars
<1>2. Lifting' <=> Lifting
  BY <1>1 DEF Lifting
<1>3. \A a : Awaits(a) => Awaits(a)'
  BY <1>1 DEF Awaits, Horizon, IsInstr
<1> SUFFICES ASSUME phase # "crashed"
             PROVE  (Graph(bbs, Open) /\ AllFound /\ AllDone)'
  BY <1>1 DEF Faith
<1>4. Graph(bbs, Open)'
  <2>1. PICK C, o : C = bbs /\ o = Open
    OBVIOUS
  <2>2. C = bbs' /\ o = Open' /\ Graph(C, o)
    BY <1>1, <2>1 DEF Open, Faith
  <2> HIDE DEF Graph, Open
  <2> QED
    BY <1>1, <2>2, PrimedGraph
<1>5. \A cf : Found(cf) => Found(cf)'
  <2>1. \A a \in Slots : ptr[a] # Null => ptr'[a] # Null
    BY <1>1
  <2> HIDE DEF Found, Awaits
  <2> QED
    BY <1>1, <1>3, <2>1, FoundKept
<1>6. AllFound'
  <2>1. AllFound
    BY DEF Faith
  <2> SUFFICES ASSUME NEW b \in 1..Len(bbs), NEW k \in DOMAIN bbs[b].cfs
               PROVE  Waiting(b, k)' \/ Found(bbs[b].cfs[k])'
    BY <1>1 DEF AllFound
  <2>2. PICK o : o = bbs[b].cfs[k]
    OBVIOUS
  <2>3. Waiting(b, k) \/ Found(o)
    BY <2>1, <2>2 DEF AllFound
  <2>4. Waiting(b, k) => Waiting(b, k)'
    BY <1>1, <1>2 DEF Waiting
  <2>5. Found(o) => Found(o)'
    BY <1>5
  <2>6. bbs'[b].cfs[k] = o
    BY <1>1, <2>2
  <2>7. Found(o)' => Found(bbs[b].cfs[k])'
    BY <2>6 DEF Found, Direct
  <2> HIDE DEF Waiting, Found
  <2> QED
    BY <2>3, <2>4, <2>5, <2>7
<1>7. AllDone'
  <2>1. AllDone
    BY DEF Faith
  <2>2. \A cf : Done(cf) => Done(cf)'
    BY DEF Done, Direct
  <2> HIDE DEF Done
  <2> QED
    BY <1>1, <1>2, <2>1, <2>2 DEF AllDone
<1> QED
  BY <1>4, <1>6, <1>7

LEMMA NextFaith ==
  ASSUME Inv, Inv', CodePartition, AllYield => Pointers /\ Jumps, AllYield /\ JumpsBack => Faith, [Next]_vars
  PROVE  (AllYield /\ JumpsBack => Faith)'
<1>1. Disjoint(bbs)
  <2>1. IsSeq(bbs) /\ \A b \in 1..Len(bbs) : bbs[b].code \subseteq Slots
    BY DEF Inv, Typed, WfBlocks, WfBlock
  <2> HIDE DEF CodePartition, Disjoint
  <2> QED
    BY <2>1, PartitionDisjoint
<1> HIDE DEF Disjoint, Inv, Pointers, Jumps, Faith
<1>2. prog' = prog
  BY Zenon DEF Next, vars, Scan, ScanData, ScanInvalid, ScanInstr, FinishScan, Resolve, ResolveReturn,
     ResolveUnknown, ResolveLink, ResolveSplit, Split, SplitCrash, Post, FinishPost, Backtrace,
     FinishRegister, RegisterAddr, AddEntry, Halt
<1>3. (AllYield' <=> AllYield) /\ (JumpsBack' <=> JumpsBack)
  BY <1>2 DEF AllYield, JumpsBack, IsInstr, Yields
<1> SUFFICES ASSUME AllYield, JumpsBack
             PROVE  Faith'
  BY <1>3
<1>4. AllYield /\ JumpsBack /\ Pointers /\ Jumps /\ Faith
  OBVIOUS
<1> HIDE DEF AllYield, JumpsBack, CodePartition
<1>5. CASE ScanData
  BY <1>4, <1>5, ScanDataFaith
<1>6. CASE ScanInvalid
  BY <1>4, <1>6, ScanInvalidFaith
<1>7. CASE ScanInstr
  BY <1>1, <1>4, <1>7, ScanInstrFaith
<1>8. CASE FinishScan
  BY <1>4, <1>8, FinishScanFaith
<1>9. CASE Resolve
  BY <1>1, <1>4, <1>9, ResolveReturnFaith, ResolveUnknownFaith, LinkedFaith DEF Resolve
<1>10. CASE Split
  BY <1>1, <1>4, <1>10, SplitFaith
<1>11. CASE SplitCrash
  BY <1>4, <1>11, SameFaith DEF SplitCrash
<1>12. CASE Post
  BY <1>1, <1>4, <1>12, PostFaith
<1>13. CASE FinishPost
  BY <1>4, <1>13, SameFaith DEF FinishPost, Late
<1>14. CASE Backtrace
  BY <1>4, <1>14, SameFaith DEF Backtrace, Late
<1>15. CASE FinishRegister
  BY <1>4, <1>15, SameFaith DEF FinishRegister, Late
<1>16. CASE \E a \in 0..(N + 1) : RegisterAddr(a)
  BY <1>4, <1>16, RegisterFaith
<1>17. CASE AddEntry
  BY <1>4, <1>17, AddEntryFaith
<1>18. CASE UNCHANGED vars
  BY <1>4, <1>18, StutterFaith
<1> QED
  BY <1>5, <1>6, <1>7, <1>8, <1>9, <1>10, <1>11, <1>12, <1>13, <1>14, <1>15, <1>16, <1>17, <1>18, Zenon
  DEF Next, Scan, Halt

-----------------------------------------------------------------------------
(* What the invariant says at the end.                                     *)

Finished == Inv /\ Pointers /\ Jumps /\ Faith /\ phase = "done"

(* A direct jump reaches its address. *)
LEMMA JumpReaches ==
  ASSUME Finished, NEW b \in 1..Len(bbs), NEW k \in DOMAIN bbs[b].cfs, NEW cf, cf = bbs[b].cfs[k],
         Direct(cf), cf.jump # 0
  PROVE  Reaches(cf, cf.jump)
<1>1. Leads(cf, bbs)
  BY DEF Finished, Faith, Graph, AllLead
<1>2. cf.target # Null /\ cf.target \in 1..Len(bbs)
  <2>1. Done(cf)
    <3> HIDE DEF Done
    <3> QED
      BY DEF Finished, Faith, AllDone, Lifting
  <2>2. WfCf(cf, Len(bbs)) /\ Len(bbs) \in Nat
    BY DEF Finished, Inv, Typed, WfBlocks, WfBlock, WfCfs, IsSeq
  <2> QED
    BY <2>1, <2>2 DEF Done, WfCf, Null
<1>3. PICK t : t = cf.target
  OBVIOUS
<1>4. Serves(bbs[t], cf.jump)
  BY <1>1, <1>2, <1>3 DEF Leads
<1>5. bbs[t].start \in {0, cf.jump}
  <2>1. Good(cf, bbs, Places)
    <3>1. AllGood /\ ~Waiting(b, k)
      BY DEF Finished, Jumps, Waiting, Lifting
    <3> HIDE DEF Good, Waiting
    <3> QED
      BY <3>1 DEF AllGood
  <2> QED
    BY <1>2, <1>3, <2>1 DEF Good
<1>6. CASE IsInstr(cf.jump)
  <2>1. cf.jump \in Slots /\ cf.jump # 0
    BY <1>6 DEF IsInstr
  <2>2. bbs[t].start = cf.jump
    BY <1>4, <1>5, <1>6 DEF Serves
  <2>3. ptr[cf.jump] = t
    BY <1>2, <1>3, <2>1, <2>2 DEF Finished, Pointers, Mapped, FoundAtStart
  <2>4. cf.jump \in bbs[t].code
    BY <1>2, <1>3, <1>6, <2>1, <2>3 DEF Finished, Pointers, Mapped, OwnCode
  <2> QED
    BY <1>2, <1>3, <1>6, <2>2, <2>4 DEF Reaches
<1>7. CASE ~IsInstr(cf.jump)
  <2>1. Hollow(bbs[t])
    BY <1>4, <1>7 DEF Serves
  <2>2. bbs[t].cfs # <<>>
    BY <2>1 DEF Hollow
  <2> QED
    BY <1>2, <1>3, <1>7, <2>1, <2>2 DEF Hollow, Reaches, Traps
<1> QED
  BY <1>6, <1>7

(* The operation an instruction made reaches the instruction's address. *)
LEMMA MadeReaches ==
  ASSUME Finished, NEW b \in 1..Len(bbs), NEW k \in DOMAIN bbs[b].cfs, NEW cf, cf = bbs[b].cfs[k],
         NEW I, Makes(cf, I), Direct(I), I.jump # 0
  PROVE  Reaches(cf, I.jump)
<1>1. CASE cf.type = I.type /\ (Direct(I) => cf.jump = I.jump)
  <2>1. Direct(cf) /\ cf.jump = I.jump
    BY <1>1 DEF Direct
  <2> HIDE DEF Finished, Reaches, Direct
  <2> QED
    BY <2>1, JumpReaches
<1>2. CASE cf.type = "unreachable" /\ ~IsInstr(I.jump)
  BY <1>2 DEF Reaches, Traps
<1> QED
  BY <1>1, <1>2 DEF Makes

(* A call continues behind itself. *)
LEMMA CallContinues ==
  ASSUME Finished, NEW b \in 1..Len(bbs), NEW k \in DOMAIN bbs[b].cfs, NEW cf, cf = bbs[b].cfs[k],
         cf.type \in CallTypes
  PROVE  cf.cont # Null /\ bbs[cf.cont].start = cf.instr + 1
<1>1. Leads(cf, bbs)
  BY DEF Finished, Faith, Graph, AllLead
<1>2. Done(cf)
  <2> HIDE DEF Done
  <2> QED
    BY DEF Finished, Faith, AllDone, Lifting
<1> QED
  BY <1>1, <1>2 DEF Leads, Done

(* The last instruction is followed where the program goes on. *)
LEMMA GoesOnPerforms ==
  ASSUME Finished, NEW b \in 1..Len(bbs), NEW l \in Slots, GoesOn(bbs[b], l, FALSE)
  PROVE  Performs(bbs[b].cfs, prog[l], l)
<1>1. PICK cfs : cfs = bbs[b].cfs
  OBVIOUS
<1>2. PICK ins : ins = prog[l]
  OBVIOUS
<1>3. /\ IsSeq(cfs) /\ l \in 1..N /\ N \in Nat /\ ins \in Instr
      /\ DOMAIN cfs = 1..Len(cfs)
  BY <1>1, <1>2, NAssumption, InstrAssumption DEF Finished, Inv, Typed, WfBlocks, WfBlock, WfCfs, IsSeq, Slots
<1>4. ins.kind \in HasTarget => ins.t \in 1..(N + 1)
  BY <1>3 DEF Instr, Targets, HasTarget, Terminators
<1>5. \A k \in DOMAIN cfs : \A I : Makes(cfs[k], I) /\ Direct(I) /\ I.jump # 0 => Reaches(cfs[k], I.jump)
  <2> HIDE DEF Finished, Makes, Direct, Reaches
  <2> QED
    BY <1>1, MadeReaches
<1>6. \A k \in DOMAIN cfs : Direct(cfs[k]) /\ cfs[k].jump # 0 => Reaches(cfs[k], cfs[k].jump)
  <2> HIDE DEF Finished, Direct, Reaches
  <2> QED
    BY <1>1, JumpReaches
<1>7. \A k \in DOMAIN cfs : cfs[k].type \in CallTypes =>
        cfs[k].cont # Null /\ bbs[cfs[k].cont].start = cfs[k].instr + 1
  <2> HIDE DEF Finished
  <2> QED
    BY <1>1, CallContinues
<1> HIDE DEF Finished, Reaches
<1>8. CASE ins.kind \in Terminators
  <2>1. Made(cfs, CfsOf(ins, l))
    BY <1>1, <1>2, <1>8 DEF GoesOn
  <2>2. ASSUME NEW I, CfsOf(ins, l) = <<I>>
        PROVE  /\ Len(cfs) = 1 /\ 1 \in DOMAIN cfs /\ Makes(cfs[1], I)
               /\ Direct(I) /\ I.jump # 0 => Reaches(cfs[1], I.jump)
    <3>1. Len(cfs) = 1 /\ 1 \in DOMAIN cfs
      BY <1>3, <2>1, <2>2, SingleIsSeq DEF Made
    <3>2. Makes(cfs[1], I)
      BY <2>1, <2>2, <3>1, SingleIsSeq DEF Made
    <3> HIDE DEF Makes, Direct
    <3> QED
      BY <1>5, <3>1, <3>2
  <2>3. ASSUME NEW I, NEW J, CfsOf(ins, l) = <<I, J>>, Direct(I), Direct(J), I.jump # 0, J.jump # 0
        PROVE  Len(cfs) = 2 /\ Reaches(cfs[1], I.jump) /\ Reaches(cfs[2], J.jump)
    <3>1. Len(cfs) = 2 /\ 1 \in DOMAIN cfs /\ 2 \in DOMAIN cfs
      BY <1>3, <2>1, <2>3 DEF Made
    <3>2. Makes(cfs[1], I) /\ Makes(cfs[2], J)
      BY <2>1, <2>3, <3>1 DEF Made
    <3> HIDE DEF Makes, Direct
    <3> QED
      BY <1>5, <2>3, <3>1, <3>2
  <2> HIDE DEF Made
  <2>4. CASE ins.kind \in {"jal", "call"}
    <3>1. PICK I : I = Cf(IF ins.kind = "jal" THEN "jump" ELSE "call", l, ins.t, Null)
      OBVIOUS
    <3>2. CfsOf(ins, l) = <<I>> /\ Direct(I) /\ I.jump = ins.t /\ I.jump # 0 /\ I.instr = l
      <4>1. CfsOf(ins, l) = <<I>>
        BY <2>4, <3>1 DEF CfsOf
      <4>2. Direct(I) /\ I.jump = ins.t /\ I.instr = l
        BY <3>1 DEF Cf, Direct
      <4>3. ins.t # 0
        BY <1>3, <1>4, <2>4 DEF HasTarget
      <4> QED
        BY <4>1, <4>2, <4>3
    <3>3. Len(cfs) = 1 /\ 1 \in DOMAIN cfs /\ cfs[1].instr = l /\ Reaches(cfs[1], ins.t)
      BY <2>2, <3>2 DEF Makes
    <3>4. cfs[1].type = "call" => cfs[1].cont # Null /\ bbs[cfs[1].cont].start = l + 1
      BY <1>7, <3>3 DEF CallTypes
    <3> QED
      BY <1>1, <1>2, <2>4, <3>3, <3>4 DEF Performs
  <2>5. CASE ins.kind \in {"beq", "bne"}
    <3>1. PICK a, c : /\ a = (IF ins.kind = "beq" THEN ins.t ELSE l + 1)
                      /\ c = (IF ins.kind = "beq" THEN l + 1 ELSE ins.t)
      OBVIOUS
    <3>2. PICK I, J : I = Cf("cjump", l, a, Null) /\ J = Cf("jump", l, c, Null)
      OBVIOUS
    <3>3. CfsOf(ins, l) = <<I, J>>
      BY <2>5, <3>1, <3>2 DEF CfsOf
    <3>4. Direct(I) /\ Direct(J) /\ I.jump = a /\ J.jump = c /\ a # 0 /\ c # 0
      BY <1>3, <1>4, <2>5, <3>1, <3>2 DEF Cf, Direct, HasTarget
    <3>5. Len(cfs) = 2 /\ Reaches(cfs[1], a) /\ Reaches(cfs[2], c)
      BY <2>3, <3>3, <3>4
    <3> QED
      BY <1>1, <1>2, <2>5, <3>1, <3>5 DEF Performs
  <2>6. CASE ins.kind = "ecall"
    <3>1. PICK I : I = Cf("syscall", l, l + 1, Null)
      OBVIOUS
    <3>2. CfsOf(ins, l) = <<I>> /\ Direct(I) /\ I.jump = l + 1 /\ I.jump # 0 /\ I.type = "syscall"
      <4>1. CfsOf(ins, l) = <<I>>
        BY <2>6, <3>1 DEF CfsOf
      <4>2. Direct(I) /\ I.jump = l + 1 /\ I.type = "syscall"
        BY <3>1 DEF Cf, Direct
      <4>3. l + 1 # 0
        BY <1>3
      <4> QED
        BY <4>1, <4>2, <4>3
    <3>3. Len(cfs) = 1 /\ cfs[1].type = "syscall" /\ Reaches(cfs[1], l + 1)
      BY <2>2, <3>2 DEF Makes
    <3> QED
      BY <1>1, <1>2, <2>6, <3>3 DEF Performs
  <2>7. CASE ins.kind \in {"ijump", "table", "icall", "ret"}
    <3>1. PICK y : y = (IF ins.kind \in {"ijump", "table"} THEN "ijump" ELSE ins.kind)
      OBVIOUS
    <3>2. PICK I : I = Cf(y, l, 0, Null)
      OBVIOUS
    <3>3. CfsOf(ins, l) = <<I>> /\ I.instr = l /\ I.type = y /\ y \in {"ijump", "icall", "ret"}
      BY <2>7, <3>1, <3>2 DEF CfsOf, Cf
    <3>4. Len(cfs) = 1 /\ 1 \in DOMAIN cfs /\ cfs[1].type = y /\ cfs[1].instr = l
      BY <2>2, <3>3 DEF Makes
    <3>5. y = "icall" => cfs[1].cont # Null /\ bbs[cfs[1].cont].start = l + 1
      BY <1>7, <3>4 DEF CallTypes
    <3> QED
      BY <1>1, <1>2, <2>7, <3>1, <3>4, <3>5 DEF Performs
  <2> QED
    BY <1>8, <2>4, <2>5, <2>6, <2>7 DEF Terminators
<1>9. CASE ins.kind \notin Terminators
  <2>1. CASE Len(cfs) = 0 /\ l = N
    <3>1. cfs = <<>>
      BY <1>3, <2>1 DEF IsSeq
    <3> QED
      BY <1>1, <1>2, <1>9, <2>1, <3>1 DEF Performs, Terminators
  <2>2. CASE l < N /\ Len(cfs) = 1 /\ Falls(cfs[1], l)
    <3>1. 1 \in DOMAIN cfs
      BY <1>3, <2>2
    <3>2. Reaches(cfs[1], l + 1)
      <4>1. CASE cfs[1].type = "jump" /\ cfs[1].jump = l + 1
        <5>1. l + 1 # 0
          BY <1>3
        <5> QED
          BY <1>6, <3>1, <4>1, <5>1 DEF Direct
      <4>2. CASE cfs[1].type = "unreachable" /\ ~IsInstr(l + 1)
        BY <4>2 DEF Reaches, Traps
      <4> QED
        BY <2>2, <4>1, <4>2 DEF Falls
    <3>3. l # N
      BY <1>3, <2>2
    <3> QED
      BY <1>1, <1>2, <1>9, <2>2, <3>2, <3>3 DEF Performs, Terminators
  <2> QED
    BY <1>1, <1>2, <1>9, <2>1, <2>2 DEF GoesOn
<1> QED
  BY <1>8, <1>9

LEMMA FinishedFaithful ==
  ASSUME Finished
  PROVE  FaithfulCFG
<1>1. BlockIds = 1..Len(bbs)
  BY DEF Finished, Inv, Typed, WfBlocks, IsSeq, BlockIds
<1> SUFFICES ASSUME NEW b \in 1..Len(bbs), bbs[b].code # {}
             PROVE  /\ bbs[b].code = bbs[b].start..Max(bbs[b].code)
                    /\ \A i \in bbs[b].code \ {Max(bbs[b].code)} : prog[i].kind \notin Terminators
                    /\ Performs(bbs[b].cfs, prog[Max(bbs[b].code)], Max(bbs[b].code))
  BY <1>1, Zenon DEF FaithfulCFG
<1>2. PICK l \in Slots : Ends(bbs[b], l, FALSE)
  <2>1. Formed(bbs[b], b = Null)
    BY DEF Finished, Faith, Graph, Open
  <2>2. b # Null
    BY DEF Null
  <2> HIDE DEF Ends
  <2> QED
    BY <2>1, <2>2 DEF Formed
<1>3. /\ bbs[b].start \in 1..l /\ bbs[b].code = (bbs[b].start)..l /\ l \in Int
      /\ \A i \in (bbs[b].start)..(l - 1) : prog[i].kind \notin Terminators
      /\ GoesOn(bbs[b], l, FALSE)
  <2>1. l \in Int
    BY NAssumption DEF Slots
  <2> HIDE DEF GoesOn, Slots
  <2> QED
    BY <1>2, <2>1 DEF Ends
<1>4. Max(bbs[b].code) = l
  <2>1. PICK S : S = bbs[b].code
    OBVIOUS
  <2>2. l \in S /\ \A i \in S : i \in Int /\ l >= i
    BY <1>3, <2>1
  <2>3. Max(S) \in S /\ \A i \in S : Max(S) >= i
    BY <2>2 DEF Max
  <2> QED
    BY <2>1, <2>2, <2>3
<1>5. Performs(bbs[b].cfs, prog[l], l)
  <2> HIDE DEF Finished, GoesOn, Performs
  <2> QED
    BY <1>3, GoesOnPerforms
<1> HIDE DEF Performs, GoesOn
<1> QED
  BY <1>3, <1>4, <1>5

-----------------------------------------------------------------------------
(* The invariant and the theorem.                                          *)

FaithInv == AllInv /\ (AllYield /\ JumpsBack => Faith)

LEMMA FaithInductive ==
  /\ Init => FaithInv
  /\ FaithInv /\ [Next]_vars => FaithInv'
<1> HIDE DEF CodePartition, Inv, Pointers, Jumps, AllYield, JumpsBack, Next, vars, Init, Faith
<1>1. Init => FaithInv
  BY AllInductive, InitFaith DEF FaithInv
<1>2. ASSUME FaithInv, [Next]_vars
      PROVE  FaithInv'
  <2>1. AllInv'
    BY <1>2, AllInductive DEF FaithInv
  <2>2. Inv /\ CodePartition /\ (AllYield => Pointers /\ Jumps) /\ (AllYield /\ JumpsBack => Faith)
    BY <1>2 DEF FaithInv, AllInv
  <2>3. Inv'
    BY <2>1 DEF AllInv
  <2>4. (AllYield /\ JumpsBack => Faith)'
    BY <1>2, <2>2, <2>3, NextFaith
  <2> QED
    BY <2>1, <2>4 DEF FaithInv
<1> QED
  BY <1>1, <1>2

(* For the programs whose instructions, in front of another one, all       *)
(* declare a variable, and whose jumps back to an instruction lead over    *)
(* instructions only: when the lifter returns, every block is a run of     *)
(* instructions of which only the last may change the control flow, and    *)
(* its operations do what that one does to the program counter: each       *)
(* branch, fall-through and call goes to the block that starts there, and  *)
(* to a trap where there is no instruction.                                *)
THEOREM GraphFaithful == Spec => [](AllYield /\ JumpsBack => FaithfulCFG)
<1>1. FaithInv => (AllYield /\ JumpsBack => FaithfulCFG)
  <2> HIDE DEF Inv, Pointers, Jumps, Faith, AllYield, JumpsBack
  <2> SUFFICES ASSUME FaithInv, AllYield, JumpsBack, phase = "done"
               PROVE  FaithfulCFG
    BY DEF FaithfulCFG
  <2>1. Finished
    BY DEF FaithInv, AllInv, Finished
  <2> QED
    BY <2>1, FinishedFaithful
<1> QED
  BY <1>1, FaithInductive, PTL DEF Spec
=============================================================================

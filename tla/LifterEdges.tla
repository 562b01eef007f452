---------------------------- MODULE LifterEdges ----------------------------
(***************************************************************************)
(* The edge vectors of the blocks and their control flow operations agree  *)
(* (Verified), for the programs LifterJumps is about whose calls go to an  *)
(* instruction, a backward call over instructions only.  A call to an      *)
(* address without a block loses its operation and keeps its continuation's*)
(* edges.                                                                  *)
(***************************************************************************)
EXTENDS LifterJumps

(* A call goes to an instruction; between a call and an earlier target     *)
(* nothing is undecodable.                                                 *)
CallsLand ==
  \A i \in Slots : prog[i].kind = "call" =>
    IsInstr(prog[i].t) /\ \A j \in (prog[i].t)..i : IsInstr(j)

-----------------------------------------------------------------------------
(* The inductive invariant.                                                *)

(* The edges of a block are the blocks its operations name.                *)
Points(cf, t) == cf.target = t \/ cf.cont = t

Connected(B, b, t) == \E k \in DOMAIN B[b].cfs : Points(B[b].cfs[k], t)

Matched(B) ==
  \A b, t \in 1..Len(B) : /\ b \in DOMAIN B[t].preds <=> Connected(B, b, t)
                          /\ t \in DOMAIN B[b].succs <=> Connected(B, b, t)

(* A block that jumps to its own start has one such edge: a split takes    *)
(* one away.                                                               *)
Simple(B) == \A b \in 1..Len(B) : b \in DOMAIN B[b].preds => B[b].preds[b] = 1

(* Only a direct jump has a target.  A call ends its block and continues   *)
(* in the block behind it.                                                 *)
CallTypes == {"call", "icall"}

Shaped(cf, b, B) ==
  /\ cf.target # Null => Direct(cf)
  /\ Direct(cf) => cf.jump # 0
  /\ cf.type \in CallTypes => cf.instr = b.end /\ cf.instr \in b.code
  /\ cf.cont # Null => cf.type \in CallTypes /\ B[cf.cont].start = cf.instr + 1

AllShaped(B) == \A b \in 1..Len(B) : \A k \in DOMAIN B[b].cfs : Shaped(B[b].cfs[k], B[b], B)

(* Continuations are set by postprocess. *)
Unvisited ==
  \A b \in 1..Len(bbs) : \A k \in DOMAIN bbs[b].cfs :
    Lifting \/ (phase = "post" /\ <<b, k>> \in todo) => bbs[b].cfs[k].cont = Null

(* A call without a target has a block to go to, or will get one.          *)
Awaits(a) == a \in needs /\ a > Horizon /\ IsInstr(a)

Lands(cf) ==
  cf.type = "call" /\ cf.target = Null => cf.jump \in Slots /\ (ptr[cf.jump] # Null \/ Awaits(cf.jump))

AllLand == \A b \in 1..Len(bbs) : \A k \in DOMAIN bbs[b].cfs : Waiting(b, k) \/ Lands(bbs[b].cfs[k])

(* The operations of the block that has just ended jump where they did     *)
(* when they were appended.                                                *)
AsIssued ==
  Lifting /\ phase # "scan" =>
    \A k \in DOMAIN bbs[cur].cfs : Direct(bbs[cur].cfs[k]) => bbs[cur].cfs[k].jump = Issued[k].jump

(* A block without end, unless it is still open, ends at undecodable bytes *)
(* below h.                                                                *)
Ended(B, b, h) ==
  B[b].end = 0 => \A a \in B[b].code : \E j \in (a + 1)..h : ~IsInstr(j)

DataEnds == Lifting => \A b \in 1..Len(bbs) : (phase = "scan" /\ b = cur) \/ Ended(bbs, b, Horizon)

Live == phase \notin {"crashed", "done"}

Edges ==
  /\ Matched(bbs)
  /\ Live => Simple(bbs) /\ AllShaped(bbs) /\ Unvisited /\ AllLand /\ AsIssued /\ DataEnds

-----------------------------------------------------------------------------
(* Edges and operations change together.                                   *)

(* The edges of the blocks C are those of B and the one from b to t.       *)
PredsGain(B, C, b, t) ==
  \A c \in 1..Len(B) : DOMAIN C[c].preds = DOMAIN B[c].preds \cup (IF c = t THEN {b} ELSE {})
SuccsGain(B, C, b, t) ==
  \A c \in 1..Len(B) : DOMAIN C[c].succs = DOMAIN B[c].succs \cup (IF c = b THEN {t} ELSE {})

(* Nothing changes. *)
LEMMA SameMatched ==
  ASSUME NEW B, NEW C, Len(C) = Len(B), Matched(B),
         \A b, t \in 1..Len(B) : Connected(C, b, t) <=> Connected(B, b, t),
         \A b \in 1..Len(B) : /\ DOMAIN C[b].preds = DOMAIN B[b].preds
                              /\ DOMAIN C[b].succs = DOMAIN B[b].succs
  PROVE  Matched(C)
<1> HIDE DEF Connected
<1> QED
  BY DEF Matched

(* One operation names one more block, and the edge to it is entered. *)
LEMMA EdgeMatched ==
  ASSUME NEW B, NEW C, Len(C) = Len(B), Matched(B),
         NEW b \in 1..Len(B), NEW t \in 1..Len(B),
         \A c, d \in 1..Len(B) : Connected(C, c, d) <=> Connected(B, c, d) \/ (c = b /\ d = t),
         PredsGain(B, C, b, t), SuccsGain(B, C, b, t)
  PROVE  Matched(C)
<1> SUFFICES ASSUME NEW c \in 1..Len(B), NEW d \in 1..Len(B)
             PROVE  /\ c \in DOMAIN C[d].preds <=> Connected(C, c, d)
                    /\ d \in DOMAIN C[c].succs <=> Connected(C, c, d)
  BY Zenon DEF Matched
<1> HIDE DEF Connected
<1>1. /\ c \in DOMAIN B[d].preds <=> Connected(B, c, d)
      /\ d \in DOMAIN B[c].succs <=> Connected(B, c, d)
  BY Zenon DEF Matched
<1>2. c \in DOMAIN C[d].preds <=> c \in DOMAIN B[d].preds \/ (c = b /\ d = t)
  BY DEF PredsGain
<1>3. d \in DOMAIN C[c].succs <=> d \in DOMAIN B[c].succs \/ (c = b /\ d = t)
  BY DEF SuccsGain
<1> QED
  BY <1>1, <1>2, <1>3

(* One more block, that has no edges and names none. *)
LEMMA AppendMatched ==
  ASSUME NEW B, WfBlocks(B), Matched(B), NEW x, \A t : t # Null => ~ \E k \in DOMAIN x.cfs : Points(x.cfs[k], t),
         DOMAIN x.preds = {}, DOMAIN x.succs = {}
  PROVE  Matched(Append(B, x))
<1> DEFINE n == Len(B) + 1
           C == Append(B, x)
<1>1. /\ IsSeq(B) /\ Len(B) \in Nat /\ n \notin 1..Len(B) /\ n # Null
      /\ \A b \in 1..n : b \in 1..Len(B) \/ b = n
      /\ \A b \in 1..Len(B) : b \in 1..n /\ b # n /\ b # Null
  BY DEF WfBlocks, IsSeq, Null
<1>2. /\ Len(C) = n /\ C[n] = x /\ \A b \in 1..Len(B) : C[b] = B[b]
  BY <1>1, AppendIsSeq
<1>3. \A b \in 1..Len(B) : /\ DOMAIN B[b].preds \subseteq 1..Len(B) /\ DOMAIN B[b].succs \subseteq 1..Len(B)
                           /\ \A k \in DOMAIN B[b].cfs : B[b].cfs[k].target # n /\ B[b].cfs[k].cont # n
  <2> TAKE b \in 1..Len(B)
  <2>1. WfBlock(B[b], Len(B))
    BY DEF WfBlocks
  <2>2. n \notin 0..Len(B)
    BY <1>1
  <2>3. \A k \in DOMAIN B[b].cfs : B[b].cfs[k].target \in 0..Len(B) /\ B[b].cfs[k].cont \in 0..Len(B)
    BY <2>1 DEF WfBlock, WfCfs, WfCf
  <2> HIDE DEF n
  <2> QED
    BY <2>1, <2>2, <2>3 DEF WfBlock
<1>4. \A b \in 1..Len(B) : ~Connected(C, b, n)
  BY <1>2, <1>3 DEF Connected, Points
<1>5. \A t \in 1..n : ~Connected(C, n, t)
  <2> TAKE t \in 1..n
  <2>1. t # Null
    BY <1>1
  <2> HIDE DEF n, C
  <2> QED
    BY <1>2, <2>1 DEF Connected
<1>6. \A b, t \in 1..Len(B) : Connected(C, b, t) <=> Connected(B, b, t)
  BY <1>2 DEF Connected
<1> HIDE DEF n, C, Connected
<1> SUFFICES ASSUME NEW b \in 1..n, NEW t \in 1..n
             PROVE  /\ b \in DOMAIN C[t].preds <=> Connected(C, b, t)
                    /\ t \in DOMAIN C[b].succs <=> Connected(C, b, t)
  BY <1>2, Zenon DEF Matched, C
<1>7. CASE b = n
  BY <1>1, <1>2, <1>3, <1>5, <1>7
<1>8. CASE t = n /\ b # n
  BY <1>1, <1>2, <1>3, <1>4, <1>8
<1>9. CASE t # n /\ b # n
  <2>1. b \in 1..Len(B) /\ t \in 1..Len(B)
    BY <1>1, <1>9
  <2>2. /\ b \in DOMAIN B[t].preds <=> Connected(B, b, t)
        /\ t \in DOMAIN B[b].succs <=> Connected(B, b, t)
    BY <2>1 DEF Matched
  <2> QED
    BY <1>2, <1>6, <2>1, <2>2
<1> QED
  BY <1>7, <1>8, <1>9

(* One operation replaced by one that names no fewer blocks. *)
LEMMA PutConnected ==
  ASSUME NEW B, NEW C, WfBlocks(B), NEW b \in 1..Len(B), NEW k \in DOMAIN B[b].cfs, NEW cf,
         \A c \in 1..Len(B) : C[c].cfs = CfsBut(B, b, k, cf, c),
         \A d \in 1..Len(B) : Points(B[b].cfs[k], d) => Points(cf, d)
  PROVE  \A c, d \in 1..Len(B) : Connected(C, c, d) <=> Connected(B, c, d) \/ (c = b /\ Points(cf, d))
<1> SUFFICES ASSUME NEW c \in 1..Len(B), NEW d \in 1..Len(B)
             PROVE  Connected(C, c, d) <=> Connected(B, c, d) \/ (c = b /\ Points(cf, d))
  OBVIOUS
<1>1. C[c].cfs = IF c = b THEN [B[b].cfs EXCEPT ![k] = cf] ELSE B[c].cfs
  BY DEF CfsBut
<1>2. CASE c = b
  <2>1. /\ DOMAIN C[c].cfs = DOMAIN B[b].cfs
        /\ \A l \in DOMAIN B[b].cfs : C[c].cfs[l] = IF l = k THEN cf ELSE B[b].cfs[l]
    BY <1>1, <1>2
  <2> QED
    BY <1>2, <2>1 DEF Connected
<1>3. CASE c # b
  BY <1>1, <1>3 DEF Connected
<1> QED
  BY <1>2, <1>3

(* The values of a bag after an addition. *)
LEMMA BagAddValues ==
  /\ \A P, x : x \notin DOMAIN P => BagAdd(P, x)[x] = 1
  /\ \A P, x, y : y \in DOMAIN P /\ y # x => BagAdd(P, x)[y] = P[y]
BY DEF BagAdd

LEMMA AddEdgeSuccs ==
  ASSUME NEW B, WfBlocks(B), NEW b \in 1..Len(B), NEW t \in 1..Len(B)
  PROVE  \A c \in 1..Len(B) : AddEdge(B, b, t)[c].succs = IF c = b THEN BagAdd(B[c].succs, t) ELSE B[c].succs
<1> DEFINE C == [B EXCEPT ![b].succs = BagAdd(@, t)]
<1>1. DOMAIN B = 1..Len(B) /\ \A c \in 1..Len(B) : DOMAIN B[c] = BlockFields
  BY DEF WfBlocks, WfBlock, IsSeq
<1>2. DOMAIN C = DOMAIN B
  OBVIOUS
<1>3. \A c \in 1..Len(B) : /\ DOMAIN C[c] = BlockFields
                           /\ C[c].succs = IF c = b THEN BagAdd(B[c].succs, t) ELSE B[c].succs
  BY <1>1 DEF BlockFields
<1>4. AddEdge(B, b, t) = [C EXCEPT ![t].preds = BagAdd(@, b)]
  BY DEF AddEdge
<1> HIDE DEF C
<1>5. \A c \in 1..Len(B) : AddEdge(B, b, t)[c].succs = C[c].succs
  BY <1>1, <1>2, <1>3, <1>4 DEF BlockFields
<1> QED
  BY <1>3, <1>5

(* The edges after AddEdge; a loop is entered once if there was none.      *)
LEMMA AddEdgeGains ==
  ASSUME NEW B, WfBlocks(B), NEW b \in 1..Len(B), NEW t \in 1..Len(B), NEW C, C = AddEdge(B, b, t)
  PROVE  /\ PredsGain(B, C, b, t)
         /\ SuccsGain(B, C, b, t)
         /\ Simple(B) /\ (b = t => b \notin DOMAIN B[b].preds) => Simple(C)
<1>1. \A c \in 1..Len(B) : C[c].preds = PredsWith(B, b, t, c)
  BY AddEdgePreds
<1>2. \A c \in 1..Len(B) : C[c].succs = IF c = b THEN BagAdd(B[c].succs, t) ELSE B[c].succs
  BY AddEdgeSuccs
<1>3. \A P, x : DOMAIN BagAdd(P, x) = DOMAIN P \cup {x}
  BY BagDomains, Zenon
<1>4. PredsGain(B, C, b, t)
  <2> SUFFICES ASSUME NEW c \in 1..Len(B)
               PROVE  DOMAIN C[c].preds = DOMAIN B[c].preds \cup (IF c = t THEN {b} ELSE {})
    BY DEF PredsGain
  <2>1. CASE c = t
    BY <1>1, <1>3, <2>1 DEF PredsWith
  <2>2. CASE c # t
    BY <1>1, <2>2 DEF PredsWith
  <2> QED
    BY <2>1, <2>2
<1>5. SuccsGain(B, C, b, t)
  <2> SUFFICES ASSUME NEW c \in 1..Len(B)
               PROVE  DOMAIN C[c].succs = DOMAIN B[c].succs \cup (IF c = b THEN {t} ELSE {})
    BY DEF SuccsGain
  <2>1. CASE c = b
    BY <1>2, <1>3, <2>1
  <2>2. CASE c # b
    BY <1>2, <2>2
  <2> QED
    BY <2>1, <2>2
<1>6. Len(C) = Len(B)
  BY AddEdgeSame DEF SameExtent
<1>7. ASSUME Simple(B), b = t => b \notin DOMAIN B[b].preds, NEW c \in 1..Len(B), c \in DOMAIN C[c].preds
      PROVE  C[c].preds[c] = 1
  <2>1. CASE c # t
    <3>1. C[c].preds = B[c].preds
      BY <1>1, <2>1 DEF PredsWith
    <3> QED
      BY <1>7, <3>1 DEF Simple
  <2>2. CASE c = t /\ c # b
    <3>1. C[c].preds = BagAdd(B[c].preds, b)
      BY <1>1, <2>2 DEF PredsWith
    <3>2. c \in DOMAIN B[c].preds
      <4>1. DOMAIN C[c].preds = DOMAIN B[c].preds \cup {b}
        BY <1>3, <3>1
      <4> QED
        BY <1>7, <2>2, <4>1
    <3>3. B[c].preds[c] = 1
      BY <1>7, <3>2 DEF Simple
    <3> QED
      BY <2>2, <3>1, <3>2, <3>3, BagAddValues
  <2>3. CASE c = t /\ c = b
    <3>1. C[c].preds = BagAdd(B[c].preds, c)
      BY <1>1, <2>3 DEF PredsWith
    <3>2. c \notin DOMAIN B[c].preds
      BY <1>7, <2>3
    <3> QED
      BY <3>1, <3>2, BagAddValues
  <2> QED
    BY <2>1, <2>2, <2>3
<1>8. ASSUME Simple(B), b = t => b \notin DOMAIN B[b].preds
      PROVE  Simple(C)
  <2> SUFFICES ASSUME NEW c \in 1..Len(B), c \in DOMAIN C[c].preds
               PROVE  C[c].preds[c] = 1
    BY <1>6, Zenon DEF Simple
  <2> QED
    BY <1>7, <1>8
<1> QED
  BY <1>4, <1>5, <1>8

(* The edges after AddEdgeIfAbsent. *)
LEMMA AddEdgeIfAbsentGains ==
  ASSUME NEW B, WfBlocks(B), NEW b \in 1..Len(B), NEW t \in 1..Len(B),
         NEW C, C = AddEdgeIfAbsent(B, b, t)
  PROVE  /\ PredsGain(B, C, b, t)
         /\ SuccsGain(B, C, b, t)
         /\ Simple(B) => Simple(C)
<1> DEFINE S == IF BagIn(t, B[b].succs) THEN B[b].succs ELSE BagAdd(B[b].succs, t)
           P == IF BagIn(b, B[t].preds) THEN B[t].preds ELSE BagAdd(B[t].preds, b)
<1>1. DOMAIN B = 1..Len(B) /\ \A c \in 1..Len(B) : DOMAIN B[c] = BlockFields
  BY DEF WfBlocks, WfBlock, IsSeq
<1>2. C = Edge(B, b, S, t, P)
  BY <1>1 DEF AddEdgeIfAbsent, Edge, Put, WithSuccs, WithPreds, BlockFields
<1>3. DOMAIN S = DOMAIN B[b].succs \cup {t} /\ DOMAIN P = DOMAIN B[t].preds \cup {b}
  BY BagDomains
<1>4. b \in DOMAIN B[t].preds => P = B[t].preds
  BY DEF BagIn, BagToSet
<1>5. b \notin DOMAIN B[t].preds => P = BagAdd(B[t].preds, b)
  BY DEF BagIn, BagToSet
<1> HIDE DEF S, P
<1>6. \A c \in 1..Len(B) : /\ C[c].preds = IF c = t THEN P ELSE B[c].preds
                           /\ C[c].succs = IF c = b THEN S ELSE B[c].succs
  <2> DEFINE D == Put(B, b, WithSuccs(B[b], S))
  <2>1. /\ DOMAIN D = 1..Len(B)
        /\ \A c \in 1..Len(B) : /\ DOMAIN D[c] = BlockFields /\ D[c].preds = B[c].preds
                                /\ D[c].succs = IF c = b THEN S ELSE B[c].succs
    BY <1>1 DEF Put, WithSuccs, BlockFields
  <2>2. C = Put(D, t, WithPreds(D[t], P))
    BY <1>2 DEF Edge
  <2> HIDE DEF D
  <2>3. \A c \in 1..Len(B) : /\ C[c].preds = IF c = t THEN P ELSE D[c].preds
                             /\ C[c].succs = D[c].succs
    BY <2>1, <2>2 DEF Put, WithPreds, BlockFields
  <2> QED
    BY <2>1, <2>3
<1>7. PredsGain(B, C, b, t)
  BY <1>3, <1>6 DEF PredsGain
<1>8. SuccsGain(B, C, b, t)
  BY <1>3, <1>6 DEF SuccsGain
<1>9. Len(C) = Len(B)
  BY AddEdgeIfAbsentSame DEF SameExtent
<1>10. ASSUME Simple(B), NEW c \in 1..Len(B), c \in DOMAIN C[c].preds
       PROVE  C[c].preds[c] = 1
  <2>1. CASE c # t \/ (c = t /\ b \in DOMAIN B[t].preds)
    <3>1. C[c].preds = B[c].preds
      BY <1>4, <1>6, <2>1
    <3> QED
      BY <1>10, <3>1 DEF Simple
  <2>2. CASE c = t /\ b \notin DOMAIN B[t].preds
    <3>1. C[c].preds = BagAdd(B[c].preds, b)
      BY <1>5, <1>6, <2>2
    <3>2. CASE c = b
      BY <2>2, <3>1, <3>2, BagAddValues
    <3>3. CASE c # b
      <4>1. c \in DOMAIN B[c].preds
        BY <1>3, <1>6, <1>10, <2>2, <3>3
      <4>2. B[c].preds[c] = 1
        BY <1>10, <4>1 DEF Simple
      <4> QED
        BY <3>1, <3>3, <4>1, <4>2, BagAddValues
    <3> QED
      BY <3>2, <3>3
  <2> QED
    BY <2>1, <2>2
<1>11. ASSUME Simple(B)
       PROVE  Simple(C)
  <2> SUFFICES ASSUME NEW c \in 1..Len(B), c \in DOMAIN C[c].preds
               PROVE  C[c].preds[c] = 1
    BY <1>9, Zenon DEF Simple
  <2> QED
    BY <1>10, <1>11
<1> QED
  BY <1>7, <1>8, <1>11

-----------------------------------------------------------------------------
(* The blocks of the scan.                                                 *)

Wired(B) == Matched(B) /\ Simple(B) /\ AllShaped(B)

(* An operation that names no block and is no call.                        *)
Plain(cf) ==
  cf.target = Null /\ cf.cont = Null /\ cf.type \notin CallTypes /\ (Direct(cf) => cf.jump # 0)

(* One more block, without edges. *)
LEMMA AppendWired ==
  ASSUME NEW B, WfBlocks(B), Wired(B), NEW x, WfBlock(x, Len(B) + 1), \A k \in DOMAIN x.cfs : Plain(x.cfs[k]),
         DOMAIN x.preds = {}, DOMAIN x.succs = {}
  PROVE  Wired(Append(B, x))
<1> DEFINE n == Len(B) + 1
           C == Append(B, x)
<1>1. /\ IsSeq(B) /\ Len(B) \in Nat
      /\ \A b \in 1..n : b \in 1..Len(B) \/ b = n
      /\ \A b \in 1..Len(B) : b \in 1..n
  BY DEF WfBlocks, IsSeq
<1>2. /\ Len(C) = n /\ C[n] = x /\ \A b \in 1..Len(B) : C[b] = B[b]
  BY <1>1, AppendIsSeq
<1>3. Matched(C)
  <2>1. \A t : t # Null => ~ \E k \in DOMAIN x.cfs : Points(x.cfs[k], t)
    BY DEF Points, Plain
  <2> HIDE DEF Matched
  <2> QED
    BY <2>1, AppendMatched DEF Wired
<1>4. ASSUME NEW b \in 1..n, b \in DOMAIN C[b].preds
      PROVE  C[b].preds[b] = 1
  BY <1>1, <1>2, <1>4 DEF Wired, Simple
<1>5. ASSUME NEW b \in 1..n, NEW k \in DOMAIN C[b].cfs
      PROVE  Shaped(C[b].cfs[k], C[b], C)
  <2>1. CASE b = n
    <3>1. Plain(C[b].cfs[k])
      BY <1>2, <1>5, <2>1
    <3> QED
      BY <3>1 DEF Plain, Shaped
  <2>2. CASE b \in 1..Len(B)
    <3>1. /\ C[b] = B[b] /\ k \in DOMAIN B[b].cfs
          /\ Shaped(B[b].cfs[k], B[b], B)
      BY <1>2, <1>5, <2>2 DEF Wired, AllShaped
    <3>2. B[b].cfs[k].cont \in 0..Len(B)
      BY <2>2, <3>1 DEF WfBlocks, WfBlock, WfCfs, WfCf
    <3>3. B[b].cfs[k].cont # Null => C[B[b].cfs[k].cont] = B[B[b].cfs[k].cont]
      BY <1>1, <1>2, <3>2 DEF Null
    <3> QED
      BY <3>1, <3>3 DEF Shaped
  <2> QED
    BY <1>1, <2>1, <2>2
<1> HIDE DEF C, n
<1> QED
  BY <1>2, <1>3, <1>4, <1>5 DEF Wired, Simple, AllShaped, C

(***************************************************************************)
(* Block b of the blocks B gets other code, another end and the operations *)
(* cfs behind those it has: none of the old ones is a call unless code and *)
(* end stay.                                                               *)
(***************************************************************************)
LEMMA OpsWired ==
  ASSUME NEW B, WfBlocks(B), Wired(B), NEW C, Len(C) = Len(B), NEW b \in 1..Len(B),
         \A c \in 1..Len(B) : /\ C[c].start = B[c].start
                              /\ C[c].preds = B[c].preds /\ C[c].succs = B[c].succs
                              /\ c # b => C[c].cfs = B[c].cfs /\ C[c].code = B[c].code /\ C[c].end = B[c].end,
         \/ C[b].code = B[b].code /\ C[b].end = B[b].end
         \/ DOMAIN B[b].cfs = {},
         \A k \in DOMAIN B[b].cfs : k \in DOMAIN C[b].cfs /\ C[b].cfs[k] = B[b].cfs[k],
         \A k \in DOMAIN C[b].cfs : k \in DOMAIN B[b].cfs
           \/ (C[b].cfs[k].target = Null /\ C[b].cfs[k].cont = Null /\ Shaped(C[b].cfs[k], C[b], C))
  PROVE  Wired(C)
<1>1. \A c, t \in 1..Len(B) : Connected(C, c, t) <=> Connected(B, c, t)
  <2> TAKE c, t \in 1..Len(B)
  <2>1. CASE c # b
    BY <2>1 DEF Connected
  <2>2. CASE c = b
    <3>1. t # Null
      BY DEF WfBlocks, IsSeq, Null
    <3>2. \A k \in DOMAIN C[b].cfs : Points(C[b].cfs[k], t) => k \in DOMAIN B[b].cfs
      BY <3>1 DEF Points
    <3> QED
      BY <2>2, <3>2 DEF Connected
  <2> QED
    BY <2>1, <2>2
<1>2. Matched(C)
  <2> HIDE DEF Connected, Matched
  <2> QED
    BY <1>1, SameMatched DEF Wired
<1>3. Simple(C)
  BY DEF Wired, Simple
<1>4. ASSUME NEW c \in 1..Len(B), NEW k \in DOMAIN C[c].cfs
      PROVE  Shaped(C[c].cfs[k], C[c], C)
  <2>1. CASE c = b /\ k \notin DOMAIN B[b].cfs
    BY <1>4, <2>1
  <2>2. CASE c # b \/ k \in DOMAIN B[b].cfs
    <3>1. k \in DOMAIN B[c].cfs /\ C[c].cfs[k] = B[c].cfs[k]
      BY <1>4, <2>2
    <3>2. C[c].code = B[c].code /\ C[c].end = B[c].end
      BY <3>1
    <3>3. B[c].cfs[k].cont \in 0..Len(B)
      BY <3>1 DEF WfBlocks, WfBlock, WfCfs, WfCf
    <3>4. B[c].cfs[k].cont # Null => C[B[c].cfs[k].cont].start = B[B[c].cfs[k].cont].start
      BY <3>3 DEF WfBlocks, IsSeq, Null
    <3>5. Shaped(B[c].cfs[k], B[c], B)
      BY <3>1 DEF Wired, AllShaped
    <3> QED
      BY <3>1, <3>2, <3>4, <3>5 DEF Shaped
  <2> QED
    BY <2>1, <2>2
<1> QED
  BY <1>2, <1>3, <1>4 DEF Wired, AllShaped

(* The operation in front of undecodable bytes. *)
LEMMA UnreachableWired ==
  ASSUME NEW B, WfBlocks(B), Wired(B), NEW b \in 1..Len(B), NEW i \in 0..N
  PROVE  Wired(Unreachable(B, b, i))
<1> DEFINE u == Cf("unreachable", i, 0, Null)
           cfs == Append(B[b].cfs, u)
<1>1. DOMAIN B = 1..Len(B) /\ \A c \in 1..Len(B) : DOMAIN B[c] = BlockFields /\ IsSeq(B[c].cfs)
  BY DEF WfBlocks, WfBlock, WfCfs, IsSeq
<1>2. PICK C : C = [B EXCEPT ![b].cfs = cfs]
  OBVIOUS
<1>3. Unreachable(B, b, i) = C
  BY <1>2 DEF Unreachable
<1>4. Len(C) = Len(B)
  BY <1>3, UnreachableSame DEF SameExtent
<1>5. /\ IsSeq(cfs) /\ DOMAIN cfs = 1..(Len(B[b].cfs) + 1) /\ DOMAIN B[b].cfs = 1..Len(B[b].cfs)
      /\ Len(B[b].cfs) \in Nat
      /\ \A k \in DOMAIN B[b].cfs : cfs[k] = B[b].cfs[k]
      /\ cfs[Len(B[b].cfs) + 1] = u
  BY <1>1, AppendIsSeq DEF IsSeq
<1>6. Plain(u)
  BY DEF Plain, Cf, CallTypes, Direct
<1> HIDE DEF cfs, u
<1>7. /\ \A c \in 1..Len(B) : /\ C[c].start = B[c].start
                              /\ C[c].preds = B[c].preds /\ C[c].succs = B[c].succs
                              /\ C[c].code = B[c].code /\ C[c].end = B[c].end
                              /\ c # b => C[c].cfs = B[c].cfs
      /\ C[b].cfs = cfs
  BY <1>1, <1>2 DEF BlockFields
<1>8. \A k \in DOMAIN B[b].cfs : k \in DOMAIN C[b].cfs /\ C[b].cfs[k] = B[b].cfs[k]
  BY <1>5, <1>7
<1>9. \A k \in DOMAIN cfs : k \in DOMAIN B[b].cfs \/ cfs[k] = u
  BY <1>5
<1>10. Shaped(u, C[b], C) /\ u.target = Null /\ u.cont = Null
  BY <1>6 DEF Shaped, Plain
<1>11. \A k \in DOMAIN C[b].cfs : k \in DOMAIN B[b].cfs
         \/ (C[b].cfs[k].target = Null /\ C[b].cfs[k].cont = Null /\ Shaped(C[b].cfs[k], C[b], C))
  <2> HIDE DEF Shaped
  <2> QED
    BY <1>7, <1>9, <1>10
<1>12. Wired(C)
  <2> HIDE DEF Wired, Shaped
  <2>1. C[b].code = B[b].code /\ C[b].end = B[b].end
    BY <1>7
  <2> QED
    BY <1>4, <1>7, <1>8, <1>11, <2>1, OpsWired
<1> QED
  BY <1>3, <1>12

LEMMA SoleOperation ==
  ASSUME NEW cfs, cfs = <<>>, NEW u
  PROVE  DOMAIN Append(cfs, u) = {1} /\ Append(cfs, u)[1] = u /\ DOMAIN cfs = {}
<1>1. IsSeq(cfs) /\ Len(cfs) = 0
  BY EmptyIsSeq
<1> QED
  BY <1>1, AppendIsSeq DEF IsSeq

LEMMA EmptyWired ==
  ASSUME NEW B, WfBlocks(B), Wired(B), NEW a \in 0..N
  PROVE  /\ WfBlocks(Append(B, EmptyBlock(a))) /\ Wired(Append(B, EmptyBlock(a)))
         /\ Len(Append(B, EmptyBlock(a))) = Len(B) + 1
         /\ \A b \in 1..Len(B) : Append(B, EmptyBlock(a))[b] = B[b]
         /\ Append(B, EmptyBlock(a))[Len(B) + 1] = EmptyBlock(a)
<1>1. Len(B) \in Nat /\ Len(B) + 1 \in Nat /\ IsSeq(B)
  BY DEF WfBlocks, IsSeq
<1>2. PICK x : x = EmptyBlock(a)
  OBVIOUS
<1>3. WfBlock(x, Len(B) + 1)
  BY <1>1, <1>2, EmptyBlockWf
<1>4. DOMAIN x.preds = {} /\ DOMAIN x.succs = {} /\ DOMAIN x.cfs = {}
  BY <1>2, BagDomains, SoleOperation DEF EmptyBlock
<1>5. WfBlocks(Append(B, x)) /\ Len(Append(B, x)) = Len(B) + 1
  BY <1>3, AppendBlockWf
<1>6. Wired(Append(B, x))
  <2> HIDE DEF Wired
  <2> QED
    BY <1>3, <1>4, AppendWired
<1> QED
  BY <1>1, <1>2, <1>5, <1>6, AppendIsSeq

(* The new block, and the jump of the one before it. *)
LEMMA OpenWired ==
  ASSUME Inv, phase = "scan", pos <= N, Wired(bbs), cur # Null => bbs[cur].cfs = <<>>
  PROVE  Wired(OpenBlocks)
<1> DEFINE n == Len(bbs) + 1
           u == Cf("jump", pos - 1, pos, n)
<1>1. /\ WfBlocks(bbs) /\ Len(bbs) \in Nat /\ pos \in 0..N /\ pos \in Nat \ {0} /\ cur \in 0..Len(bbs)
      /\ n \in 1..n /\ n # Null
  BY NAssumption DEF Inv, Typed, WfBlocks, IsSeq, Null
<1>2. PICK B : B = Append(bbs, EmptyBlock(pos))
  OBVIOUS
<1>3. /\ WfBlocks(B) /\ Wired(B) /\ Len(B) = n
      /\ \A b \in 1..Len(bbs) : B[b] = bbs[b]
  BY <1>1, <1>2, EmptyWired
<1>4. CASE cur = Null
  BY <1>2, <1>3, <1>4 DEF OpenBlocks
<1>5. CASE cur # Null
  <2>1. cur \in 1..Len(bbs) /\ cur \in 1..n /\ cur # n
    BY <1>1, <1>5 DEF Null
  <2>2. PICK D : D = OpenBlocks
    OBVIOUS
  <2>3. PICK C : C = [B EXCEPT ![cur].cfs = Append(@, u), ![cur].end = pos - 1]
    OBVIOUS
  <2> HIDE DEF n
  <2>4. D = AddEdge(C, cur, n)
    BY <1>2, <1>5, <2>2, <2>3 DEF OpenBlocks, n
  <2>5. DOMAIN B = 1..n /\ \A c \in 1..n : DOMAIN B[c] = BlockFields
    BY <1>3 DEF WfBlocks, WfBlock, IsSeq
  <2> HIDE DEF u
  <2>6. \A c \in 1..n : /\ C[c].preds = B[c].preds /\ C[c].succs = B[c].succs
                        /\ C[c].start = B[c].start
                        /\ c # cur => C[c] = B[c]
    BY <2>1, <2>3, <2>5 DEF BlockFields
  <2>7. WfBlocks(C) /\ Len(C) = n
    <3> DEFINE cfs == Append(B[cur].cfs, u)
               x == WithCfs(B[cur], cfs)
               y == WithEnd(x, pos - 1)
    <3>1. WfBlock(B[cur], n)
      BY <1>3, <2>1 DEF WfBlocks
    <3>2. C = Put(B, cur, y)
      BY <2>1, <2>3, <2>5 DEF Put, WithCfs, WithEnd, BlockFields
    <3>3. WfCf(u, n) /\ WfCfs(B[cur].cfs, n) /\ pos - 1 \in 0..N /\ n \in Nat
      <4>1. pos - 1 \in 0..N /\ pos \in 0..(N + 1) /\ n \in 0..n /\ n \in Nat
        BY <1>1, NAssumption DEF n
      <4> QED
        BY <3>1, <4>1, CfWf DEF CfType, WfBlock, u
    <3>4. WfCfs(cfs, n)
      BY <3>3, AppendCfWf
    <3> HIDE DEF cfs
    <3>5. WfBlock(x, n)
      BY <3>1, <3>4, FieldsWf
    <3> HIDE DEF x
    <3>6. WfBlock(y, n)
      BY <3>3, <3>5, FieldsWf
    <3> HIDE DEF y
    <3> QED
      BY <1>3, <3>2, <3>6, PutWf
  <2>8. /\ PredsGain(C, D, cur, n) /\ SuccsGain(C, D, cur, n)
        /\ Simple(C) => Simple(D)
    BY <1>1, <2>1, <2>4, <2>7, AddEdgeGains
  <2>9. PredsGain(B, D, cur, n) /\ SuccsGain(B, D, cur, n)
    BY <1>3, <2>6, <2>7, <2>8 DEF PredsGain, SuccsGain
  <2>10. Simple(D)
    BY <1>3, <2>6, <2>7, <2>8 DEF Simple, Wired
  <2>11. /\ Len(D) = n
         /\ \A c \in 1..n : D[c].cfs = IF c = cur THEN Append(B[c].cfs, u) ELSE B[c].cfs
         /\ \A c \in 1..n : /\ D[c].start = B[c].start /\ D[c].code = B[c].code
                            /\ c # cur => D[c].end = B[c].end
    <3>1. /\ WfBlocks(D) /\ Len(D) = n
          /\ \A c \in 1..n : D[c].cfs = C[c].cfs
          /\ \A c \in 1..n : D[c].start = C[c].start /\ D[c].end = C[c].end /\ D[c].code = C[c].code
      <4>1. SameExtent(C, D) /\ \A c \in 1..Len(C) : D[c].cfs = C[c].cfs
        BY <1>1, <2>1, <2>4, <2>7, AddEdgeSame
      <4> QED
        BY <2>7, <4>1 DEF SameExtent, Extends
    <3>2. C[cur].cfs = Append(B[cur].cfs, u) /\ C[cur].code = B[cur].code /\ C[cur].start = B[cur].start
      BY <2>1, <2>3, <2>5 DEF BlockFields
    <3>3. \A c \in 1..n : D[c].cfs = IF c = cur THEN Append(B[c].cfs, u) ELSE B[c].cfs
      BY <2>6, <3>1, <3>2
    <3>4. \A c \in 1..n : D[c].start = B[c].start
      BY <2>6, <3>1
    <3>5. \A c \in 1..n : D[c].code = B[c].code
      BY <2>6, <3>1, <3>2
    <3>6. \A c \in 1..n : c # cur => D[c].end = B[c].end
      BY <2>6, <3>1
    <3> QED
      BY <3>1, <3>3, <3>4, <3>5, <3>6
  <2>12. B[cur].cfs = <<>>
    BY <1>3, <1>5, <2>1
  <2>13. DOMAIN D[cur].cfs = {1} /\ D[cur].cfs[1] = u /\ DOMAIN B[cur].cfs = {}
    <3>1. PICK s : s = B[cur].cfs
      OBVIOUS
    <3>2. s = <<>> /\ D[cur].cfs = Append(s, u)
      BY <2>1, <2>11, <2>12, <3>1
    <3>3. DOMAIN Append(s, u) = {1} /\ Append(s, u)[1] = u /\ DOMAIN s = {}
      BY <3>2, SoleOperation
    <3> QED
      BY <3>1, <3>2, <3>3
  <2>14. /\ u.target = n /\ u.cont = Null /\ u.jump = pos /\ u.type = "jump" /\ Direct(u)
    BY DEF u, Cf, Direct
  <2>15. \A c, d \in 1..n : Connected(D, c, d) <=> Connected(B, c, d) \/ (c = cur /\ d = n)
    <3> TAKE c, d \in 1..n
    <3>1. d # Null
      BY DEF Null
    <3>2. CASE c # cur
      BY <2>11, <3>2 DEF Connected
    <3>3. CASE c = cur
      BY <2>13, <2>14, <3>1, <3>3 DEF Connected, Points
    <3> QED
      BY <3>2, <3>3
  <2>16. Matched(D)
    <3> HIDE DEF Connected, Matched, PredsGain, SuccsGain
    <3>1. n \in 1..n
      BY <1>1 DEF n
    <3> QED
      BY <1>3, <2>1, <2>9, <2>11, <2>15, <3>1, EdgeMatched DEF Wired
  <2>17. ASSUME NEW c \in 1..n, NEW k \in DOMAIN D[c].cfs
         PROVE  Shaped(D[c].cfs[k], D[c], D)
    <3>1. CASE c = cur
      BY <1>1, <2>13, <2>14, <2>17, <3>1 DEF Shaped, CallTypes
    <3>2. CASE c # cur
      <4>1. k \in DOMAIN B[c].cfs /\ D[c].cfs[k] = B[c].cfs[k]
        BY <2>11, <2>17, <3>2
      <4>2. B[c].cfs[k].cont \in 0..n
        BY <1>3, <4>1 DEF WfBlocks, WfBlock, WfCfs, WfCf
      <4>3. B[c].cfs[k].cont # Null => D[B[c].cfs[k].cont].start = B[B[c].cfs[k].cont].start
        BY <1>1, <2>11, <4>2 DEF n, Null
      <4>4. Shaped(B[c].cfs[k], B[c], B)
        BY <1>3, <4>1 DEF Wired, AllShaped
      <4> QED
        BY <2>11, <3>2, <4>1, <4>3, <4>4 DEF Shaped
    <3> QED
      BY <3>1, <3>2
  <2> QED
    BY <2>2, <2>10, <2>11, <2>16, <2>17 DEF Wired, AllShaped
<1> QED
  BY <1>4, <1>5

-----------------------------------------------------------------------------
(* The scan.                                                               *)

(* A call that parse_instruction appends goes where the instruction says;  *)
(* a direct jump has an address.                                           *)
LEMMA IssuedCalls ==
  ASSUME NEW ins \in Instr, NEW i \in Slots, NEW I, I = CfsOf(ins, i)
  PROVE  /\ \A k \in DOMAIN I : /\ I[k].target = Null /\ I[k].cont = Null
                                /\ I[k].type = "call" => ins.kind = "call" /\ I[k].jump = ins.t
                                /\ Direct(I[k]) => I[k].jump # 0
                                /\ I[k].instr = i
         /\ ins.kind \notin Terminators => DOMAIN I = {}
         /\ \A k \in DOMAIN I : k \in Nat /\ k >= 1
<1>1. IsSeq(I) /\ DOMAIN I = 1..Len(I) /\ Len(I) \in Nat
  BY IssuedShape DEF IsSeq
<1>2. \A k \in DOMAIN I : WfCf(I[k], 0) /\ I[k].target = Null
  BY <1>1, IssuedShape
<1>3. \A k \in DOMAIN I : I[k].cont = Null
  BY <1>2 DEF WfCf, Null
<1>4. ins.kind \notin Terminators => DOMAIN I = {}
  <2>1. ins.kind \notin Terminators => I = <<>>
    BY CfsOfSites
  <2> QED
    BY <2>1
<1>5. \A k \in DOMAIN I : I[k].instr = i
  BY <1>4, CfsOfSites
<1>6. ins.kind \in HasTarget => ins.t \in 1..(N + 1)
  BY DEF Instr, Targets, HasTarget
<1>7. i + 1 # 0 /\ \A t \in 1..(N + 1) : t # 0
  BY NAssumption DEF Slots
<1>8. ASSUME NEW k \in DOMAIN I
      PROVE  /\ I[k].type = "call" => ins.kind = "call" /\ I[k].jump = ins.t
             /\ Direct(I[k]) => I[k].jump # 0
  <2>1. CASE ins.kind \in {"beq", "bne"}
    <3>1. I[k] \in {Cf("cjump", i, ins.t, Null), Cf("jump", i, i + 1, Null),
                    Cf("cjump", i, i + 1, Null), Cf("jump", i, ins.t, Null)}
      BY <1>8, <2>1 DEF CfsOf
    <3>2. ins.t # 0
      BY <1>6, <1>7, <2>1 DEF HasTarget
    <3> QED
      BY <1>7, <3>1, <3>2 DEF Cf
  <2>2. CASE ins.kind = "call"
    <3>1. I[k] = Cf("call", i, ins.t, Null)
      BY <1>8, <2>2 DEF CfsOf
    <3>2. ins.t # 0
      BY <1>6, <1>7, <2>2 DEF HasTarget
    <3> QED
      BY <2>2, <3>1, <3>2 DEF Cf
  <2>3. CASE ins.kind \in {"jal", "ecall"}
    <3>1. I[k] \in {Cf("jump", i, ins.t, Null), Cf("syscall", i, i + 1, Null)}
      BY <1>8, <2>3 DEF CfsOf
    <3>2. ins.kind = "jal" => ins.t # 0
      BY <1>6, <1>7 DEF HasTarget
    <3>3. ins.kind = "jal" => I[k] = Cf("jump", i, ins.t, Null)
      BY <1>8 DEF CfsOf
    <3>4. ins.kind = "ecall" => I[k] = Cf("syscall", i, i + 1, Null)
      BY <1>8 DEF CfsOf
    <3> QED
      BY <1>7, <2>3, <3>2, <3>3, <3>4 DEF Cf
  <2>4. CASE ins.kind \in {"ijump", "table", "icall", "ret"}
    <3>1. I[k] \in {Cf("ijump", i, 0, Null), Cf("icall", i, 0, Null), Cf("ret", i, 0, Null)}
      BY <1>8, <2>4 DEF CfsOf
    <3> QED
      BY <3>1 DEF Cf, Direct
  <2> QED
    BY <1>4, <2>1, <2>2, <2>3, <2>4 DEF Terminators
<1>9. \A k \in DOMAIN I : k \in Nat /\ k >= 1
  BY <1>1
<1> QED
  BY <1>2, <1>3, <1>4, <1>5, <1>8, <1>9

(* A call stays able to find its block. *)
LEMMA LandsKept ==
  ASSUME \A a \in Slots : ptr[a] # Null => ptr'[a] # Null,
         \A a \in Slots : Awaits(a) => ptr'[a] # Null \/ Awaits(a)'
  PROVE  \A cf : Lands(cf) => Lands(cf)'
<1> HIDE DEF Awaits
<1> QED
  BY DEF Lands

(* During the scan no operation continues anywhere, and every call lands.  *)
LEMMA ScanOps ==
  ASSUME Edges, phase = "scan"
  PROVE  \A b \in 1..Len(bbs) : \A k \in DOMAIN bbs[b].cfs : bbs[b].cfs[k].cont = Null /\ Lands(bbs[b].cfs[k])
BY DEF Edges, Live, Unvisited, AllLand, Waiting, Lifting

LEMMA EndedLater ==
  ASSUME NEW B, NEW C, NEW b, NEW h \in Int, NEW g \in Int, h <= g, Ended(B, b, h),
         C[b].code = B[b].code, C[b].end = B[b].end
  PROVE  Ended(C, b, g)
<1>1. \A a : (a + 1)..h \subseteq (a + 1)..g
  OBVIOUS
<1> QED
  BY <1>1 DEF Ended

(* The blocks before the step, and after a block was opened.               *)
LEMMA ScanEnded ==
  ASSUME Inv, Pointers, Edges, phase = "scan", pos <= N
  PROVE  /\ \A b \in 1..Len(bbs) : b = cur \/ Ended(bbs, b, pos)
         /\ cur # Null /\ ~IsInstr(pos) => Ended(bbs, cur, pos)
         /\ \A b \in 1..(Len(bbs) + 1) : Ended(OpenBlocks, b, pos)
<1>1. /\ WfBlocks(bbs) /\ Len(bbs) \in Nat /\ cur \in 0..Len(bbs) /\ pos \in 1..N /\ Horizon = pos - 1 /\ pos \in Int
      /\ pos - 1 \in Int /\ pos - 1 <= pos
  BY NAssumption DEF Inv, Typed, Horizon, WfBlocks, IsSeq
<1>2. \A b \in 1..Len(bbs) : b = cur \/ Ended(bbs, b, pos)
  <2> TAKE b \in 1..Len(bbs)
  <2>1. b = cur \/ Ended(bbs, b, Horizon)
    BY DEF Edges, Live, DataEnds, Lifting
  <2> HIDE DEF Ended
  <2> QED
    BY <1>1, <2>1, EndedLater
<1>3. ASSUME cur # Null
      PROVE  /\ bbs[cur].start \in 1..(pos - 1) /\ bbs[cur].code = bbs[cur].start..(pos - 1)
             /\ ~IsInstr(pos) => Ended(bbs, cur, pos)
  <2>1. /\ bbs[cur].start \in 1..(pos - 1) /\ bbs[cur].code = bbs[cur].start..(pos - 1)
    BY <1>3 DEF Pointers, OpenBlock
  <2>2. \A a \in bbs[cur].code : pos \in (a + 1)..pos
    BY <1>1, <2>1
  <2> HIDE DEF IsInstr
  <2> QED
    BY <2>1, <2>2 DEF Ended
<1>4. ASSUME NEW b \in 1..(Len(bbs) + 1)
      PROVE  Ended(OpenBlocks, b, pos)
  <2>1. b \in 1..Len(bbs) \/ b = Len(bbs) + 1
    BY <1>1
  <2>2. CASE b = Len(bbs) + 1
    <3>1. OpenBlocks[b].code = {}
      BY <1>1, <2>2, OpenWf
    <3> QED
      BY <3>1 DEF Ended
  <2>3. CASE b \in 1..Len(bbs) /\ b = cur
    <3>1. OpenBlocks[b].end = pos - 1
      BY <1>1, <2>3, OpenWf
    <3>2. pos - 1 # 0
      BY <1>1, <1>3, <2>3 DEF Null
    <3> QED
      BY <3>1, <3>2 DEF Ended
  <2>4. CASE b \in 1..Len(bbs) /\ b # cur
    <3>1. OpenBlocks[b].end = bbs[b].end /\ OpenBlocks[b].code = bbs[b].code
      BY <1>1, <2>4, OpenWf
    <3> HIDE DEF Ended
    <3> QED
      BY <1>1, <1>2, <2>4, <3>1, EndedLater
  <2> QED
    BY <2>1, <2>2, <2>3, <2>4
<1> QED
  BY <1>2, <1>3, <1>4

(* The operations of C are some of B, and others that are no calls.        *)
OpsOf(B, C) ==
  \A b \in 1..Len(C) : \A k \in DOMAIN C[b].cfs :
    \/ \E c \in 1..Len(B) : \E l \in DOMAIN B[c].cfs : C[b].cfs[k] = B[c].cfs[l]
    \/ C[b].cfs[k].cont = Null /\ C[b].cfs[k].type # "call"

(* The scan passes undecodable bytes. *)
LEMMA PassedEdges ==
  ASSUME Inv, Edges, phase = "scan", pos <= N, ~IsInstr(pos),
         cur' = Null, pos' = pos + 1, phase' = "scan", UNCHANGED <<prog, needs>>,
         Wired(bbs'),
         \A a \in Slots : ptr[a] # Null => ptr'[a] # Null,
         OpsOf(bbs, bbs'),
         \A b \in 1..Len(bbs') : Ended(bbs', b, pos)
  PROVE  Edges'
<1>1. pos \in Int /\ Horizon = pos - 1 /\ Horizon' = pos /\ \A a \in Slots : a \in Int
  BY DEF Inv, Typed, Horizon, Slots
<1>2. \A a \in Slots : Awaits(a) => Awaits(a)'
  <2> TAKE a \in Slots
  <2>1. IsInstr(a)' <=> IsInstr(a)
    BY DEF IsInstr
  <2> HIDE DEF IsInstr
  <2> QED
    BY <1>1, <2>1 DEF Awaits
<1>3. \A cf : Lands(cf) => Lands(cf)'
  <2> HIDE DEF Awaits, Lands
  <2> QED
    BY <1>2, LandsKept
<1>4. ASSUME NEW b \in 1..Len(bbs'), NEW k \in DOMAIN bbs'[b].cfs
      PROVE  bbs'[b].cfs[k].cont = Null /\ Lands(bbs[b].cfs[k])'
  <2>1. CASE \E c \in 1..Len(bbs) : \E l \in DOMAIN bbs[c].cfs : bbs'[b].cfs[k] = bbs[c].cfs[l]
    <3> PICK c \in 1..Len(bbs) : \E l \in DOMAIN bbs[c].cfs : bbs'[b].cfs[k] = bbs[c].cfs[l]
      BY <2>1
    <3>1. PICK l \in DOMAIN bbs[c].cfs : bbs'[b].cfs[k] = bbs[c].cfs[l]
      OBVIOUS
    <3>2. PICK cf : cf = bbs[c].cfs[l]
      OBVIOUS
    <3>3. cf.cont = Null /\ Lands(cf)
      BY <3>2, ScanOps
    <3>4. Lands(cf)'
      BY <1>3, <3>3
    <3> QED
      BY <3>1, <3>2, <3>3, <3>4 DEF Lands
  <2>2. CASE bbs'[b].cfs[k].cont = Null /\ bbs'[b].cfs[k].type # "call"
    BY <2>2 DEF Lands
  <2> QED
    BY <1>4, <2>1, <2>2 DEF OpsOf
<1>5. \A b \in 1..Len(bbs') : Ended(bbs, b, Horizon)'
  <2> TAKE b \in 1..Len(bbs')
  <2>1. Ended(bbs', b, pos)
    OBVIOUS
  <2> QED
    BY <1>1, <2>1 DEF Ended, IsInstr
<1> HIDE DEF Lands, Ended, Wired
<1>6. Unvisited' /\ AllLand'
  BY <1>4 DEF Unvisited, AllLand
<1>7. AsIssued' /\ DataEnds'
  BY <1>5 DEF AsIssued, DataEnds
<1> QED
  BY <1>6, <1>7 DEF Edges, Wired

(* The operations of a block that gets an unreachable operation.           *)
LEMMA UnreachableOps ==
  ASSUME NEW B, WfBlocks(B), NEW b \in 1..Len(B), NEW i \in 0..N, NEW C, C = Unreachable(B, b, i)
  PROVE  /\ Len(C) = Len(B)
         /\ \A c \in 1..Len(B) : C[c].code = B[c].code /\ C[c].end = B[c].end
         /\ OpsOf(B, C)
         /\ \A A : OpsOf(A, B) => OpsOf(A, C)
<1> DEFINE u == Cf("unreachable", i, 0, Null)
<1>1. /\ SameExtent(B, C)
      /\ \A c \in 1..Len(B) : C[c].cfs = IF c = b THEN Append(B[b].cfs, u) ELSE B[c].cfs
  BY UnreachableSame
<1>2. u.cont = Null /\ u.type # "call"
  BY DEF Cf
<1> HIDE DEF u
<1>3. ASSUME NEW c \in 1..Len(B), NEW k \in DOMAIN C[c].cfs
      PROVE  \/ \E l \in DOMAIN B[c].cfs : C[c].cfs[k] = B[c].cfs[l]
             \/ C[c].cfs[k].cont = Null /\ C[c].cfs[k].type # "call"
  <2>1. CASE c # b
    BY <1>1, <1>3, <2>1
  <2>2. CASE c = b
    <3>1. C[c].cfs = Append(B[b].cfs, u)
      BY <1>1, <2>2
    <3>2. IsSeq(B[b].cfs) /\ DOMAIN B[b].cfs = 1..Len(B[b].cfs) /\ Len(B[b].cfs) \in Nat
      BY OpsTyped DEF IsSeq
    <3>3. \/ k \in DOMAIN B[b].cfs /\ C[c].cfs[k] = B[b].cfs[k]
          \/ C[c].cfs[k] = u
      BY <3>1, <3>2, <1>3, AppendIsSeq DEF IsSeq
    <3> QED
      BY <1>2, <2>2, <3>3
  <2> QED
    BY <2>1, <2>2
<1>4. Len(C) = Len(B) /\ \A c \in 1..Len(B) : C[c].code = B[c].code /\ C[c].end = B[c].end
  BY <1>1 DEF SameExtent, Extends
<1>5. OpsOf(B, C)
  BY <1>3, <1>4 DEF OpsOf
<1>6. \A A : OpsOf(A, B) => OpsOf(A, C)
  BY <1>3, <1>4 DEF OpsOf
<1> QED
  BY <1>4, <1>5, <1>6

(* Whether a block is there or not, the data ends it. *)
LEMMA ScanDataEdges ==
  ASSUME Inv, Pointers, Edges, ScanData
  PROVE  Edges'
<1>1. /\ phase = "scan" /\ pos <= N /\ cur' = Null /\ pos' = pos + 1 /\ phase' = "scan" /\ UNCHANGED <<prog, needs, ptr>>
      /\ bbs' = IF cur = Null THEN bbs ELSE Unreachable(bbs, cur, pos)
      /\ ~IsInstr(pos)
  BY DEF ScanData, IsInstr
<1>2. WfBlocks(bbs) /\ cur \in 0..Len(bbs) /\ pos \in 0..N /\ pos \in Int
  BY <1>1, NAssumption DEF Inv, Typed
<1>3. Wired(bbs)
  BY <1>1 DEF Edges, Live, Wired
<1>4. /\ \A b \in 1..Len(bbs) : b = cur \/ Ended(bbs, b, pos)
      /\ cur # Null => Ended(bbs, cur, pos)
  BY <1>1, ScanEnded
<1>0. OpsOf(bbs, bbs)
  BY DEF OpsOf
<1> HIDE DEF Wired, Ended, IsInstr, OpsOf
<1>5. CASE cur = Null
  <2>1. \A b \in 1..Len(bbs) : b # cur
    BY <1>2, <1>5 DEF Null
  <2> QED
    BY <1>0, <1>1, <1>3, <1>4, <1>5, <2>1, PassedEdges
<1>6. CASE cur # Null
  <2>1. cur \in 1..Len(bbs) /\ bbs' = Unreachable(bbs, cur, pos)
    BY <1>1, <1>2, <1>6 DEF Null
  <2>2. Wired(bbs')
    BY <1>2, <1>3, <2>1, UnreachableWired
  <2>3. /\ Len(bbs') = Len(bbs)
        /\ \A c \in 1..Len(bbs) : bbs'[c].code = bbs[c].code /\ bbs'[c].end = bbs[c].end
        /\ OpsOf(bbs, bbs')
    <3>1. PICK C : C = bbs'
      OBVIOUS
    <3> QED
      BY <1>2, <2>1, <3>1, UnreachableOps
  <2>4. \A b \in 1..Len(bbs') : Ended(bbs', b, pos)
    BY <1>2, <1>4, <1>6, <2>3, EndedLater
  <2> QED
    BY <1>1, <2>2, <2>3, <2>4, PassedEdges
<1> QED
  BY <1>5, <1>6

(* A new block has no operations, the one before it gets a jump. *)
LEMMA OpenOps ==
  ASSUME Inv, phase = "scan", pos <= N, cur # Null => bbs[cur].cfs = <<>>
  PROVE  OpsOf(bbs, OpenBlocks)
<1> DEFINE n == Len(bbs) + 1
<1>1. phase = "scan" /\ pos <= N /\ Len(bbs) \in Nat /\ Len(OpenBlocks) = n /\ cur \in 0..Len(bbs)
  BY OpenWf DEF Inv, Typed, WfBlocks, IsSeq
<1>2. ASSUME NEW c \in 1..n, NEW k \in DOMAIN OpenBlocks[c].cfs
      PROVE  \/ \E d \in 1..Len(bbs) : \E l \in DOMAIN bbs[d].cfs : OpenBlocks[c].cfs[k] = bbs[d].cfs[l]
             \/ OpenBlocks[c].cfs[k].cont = Null /\ OpenBlocks[c].cfs[k].type # "call"
  <2>1. PICK cfs : cfs = OpenBlocks[c].cfs
    OBVIOUS
  <2>2. PICK u : u = Cf("jump", pos - 1, pos, n)
    OBVIOUS
  <2>3. u.cont = Null /\ u.type # "call"
    BY <2>2 DEF Cf
  <2>4. c \in 1..Len(bbs) \/ c = n
    BY <1>1
  <2>5. CASE c = n
    <3>1. cfs = <<>>
      BY <1>1, <2>1, <2>5, OpenWf
    <3> QED
      BY <1>2, <2>1, <3>1
  <2>6. CASE c \in 1..Len(bbs) /\ c # cur
    <3>1. cfs = bbs[c].cfs
      BY <1>1, <2>1, <2>6, OpenWf
    <3> QED
      BY <1>2, <2>1, <2>6, <3>1
  <2>7. CASE c \in 1..Len(bbs) /\ c = cur
    <3>1. cfs = Append(bbs[c].cfs, u)
      BY <1>1, <2>1, <2>2, <2>7, OpenWf
    <3>2. bbs[c].cfs = <<>>
      BY <2>7 DEF Null
    <3>3. PICK s : s = bbs[c].cfs
      OBVIOUS
    <3>4. DOMAIN cfs = {1} /\ cfs[1] = u
      BY <3>1, <3>2, <3>3, SoleOperation
    <3> QED
      BY <1>2, <2>1, <2>3, <3>4
  <2> QED
    BY <2>4, <2>5, <2>6, <2>7
<1> QED
  BY <1>1, <1>2 DEF OpsOf

(* Bytes that do not decode may first open the block a jump asked for.     *)
LEMMA ScanInvalidEdges ==
  ASSUME Inv, Pointers, Edges, ScanInvalid
  PROVE  Edges'
<1> DEFINE n == Len(bbs) + 1
<1>1. /\ phase = "scan" /\ pos <= N /\ cur' = Null /\ pos' = pos + 1 /\ phase' = "scan" /\ UNCHANGED <<prog, needs>>
      /\ cur # Null /\ pos \in needs => bbs' = Unreachable(OpenBlocks, n, pos) /\ ptr' = OpenPtr
      /\ ~(cur # Null /\ pos \in needs) => bbs' = (IF cur = Null THEN bbs ELSE Unreachable(bbs, cur, pos)) /\ ptr' = ptr
      /\ ~IsInstr(pos)
  BY DEF ScanInvalid, IsInstr
<1>2. WfBlocks(bbs) /\ cur \in 0..Len(bbs) /\ pos \in 0..N /\ pos \in Int /\ Len(bbs) \in Nat /\ n \in 1..n
  BY <1>1, NAssumption DEF Inv, Typed, WfBlocks, IsSeq
<1>3. Wired(bbs)
  BY <1>1 DEF Edges, Live, Wired
<1>4. /\ \A b \in 1..Len(bbs) : b = cur \/ Ended(bbs, b, pos)
      /\ cur # Null => Ended(bbs, cur, pos)
      /\ \A b \in 1..(Len(bbs) + 1) : Ended(OpenBlocks, b, pos)
  BY <1>1, ScanEnded
<1>0. OpsOf(bbs, bbs)
  BY DEF OpsOf
<1> HIDE DEF Wired, Ended, IsInstr, OpsOf
<1>5. ASSUME NEW B, WfBlocks(B), Wired(B), NEW b \in 1..Len(B), \A c \in 1..Len(B) : Ended(B, c, pos),
             bbs' = Unreachable(B, b, pos), \A a \in Slots : ptr[a] # Null => ptr'[a] # Null,
             OpsOf(bbs, B)
      PROVE  Edges'
  <2>1. Wired(bbs')
    BY <1>2, <1>5, UnreachableWired
  <2>2. /\ Len(bbs') = Len(B)
        /\ \A c \in 1..Len(B) : bbs'[c].code = B[c].code /\ bbs'[c].end = B[c].end
        /\ OpsOf(bbs, bbs')
    <3>1. PICK C : C = bbs'
      OBVIOUS
    <3> QED
      BY <1>2, <1>5, <3>1, UnreachableOps
  <2>3. \A c \in 1..Len(bbs') : Ended(bbs', c, pos)
    BY <1>2, <1>5, <2>2, EndedLater
  <2> QED
    BY <1>1, <1>5, <2>1, <2>2, <2>3, PassedEdges
<1>6. CASE cur # Null /\ pos \in needs
  <2>1. WfBlocks(OpenBlocks) /\ Len(OpenBlocks) = n
    BY <1>1, OpenWf
  <2>2. Wired(OpenBlocks)
    <3>1. bbs[cur].cfs = <<>>
      BY <1>1, <1>6 DEF Pointers, OpenBlock
    <3> QED
      BY <1>1, <1>3, <3>1, OpenWired
  <2>3. \A a \in Slots : ptr[a] # Null => ptr'[a] # Null
    BY <1>1, <1>6, OpenPtrKeeps
  <2>4. OpsOf(bbs, OpenBlocks)
    BY <1>1, <1>6, OpenOps DEF Pointers, OpenBlock
  <2> HIDE DEF n
  <2>5. PICK B : B = OpenBlocks
    OBVIOUS
  <2>6. n \in 1..Len(B) /\ \A c \in 1..Len(B) : Ended(B, c, pos)
    BY <1>2, <1>4, <2>1, <2>5 DEF n
  <2>7. OpsOf(bbs, B)
    BY <2>4, <2>5
  <2>8. bbs' = Unreachable(B, n, pos)
    BY <1>1, <1>6, <2>5
  <2> QED
    BY <1>5, <2>1, <2>2, <2>3, <2>5, <2>6, <2>7, <2>8
<1>7. CASE cur # Null /\ pos \notin needs
  <2>1. cur \in 1..Len(bbs) /\ \A c \in 1..Len(bbs) : Ended(bbs, c, pos)
    BY <1>2, <1>4, <1>7 DEF Null
  <2> QED
    BY <1>0, <1>1, <1>2, <1>3, <1>5, <1>7, <2>1
<1>8. CASE cur = Null
  <2>1. \A b \in 1..Len(bbs) : b # cur
    BY <1>2, <1>8 DEF Null
  <2> QED
    BY <1>0, <1>1, <1>3, <1>4, <1>8, <2>1, PassedEdges
<1> QED
  BY <1>6, <1>7, <1>8

(* An instruction goes into an open block; one that changes the control    *)
(* flow ends it.                                                           *)
LEMMA ScanInstrEdges ==
  ASSUME CallsLand, Inv, Disjoint(bbs), Pointers, Edges, ScanInstr
  PROVE  Edges'
<1>0. PICK opens : opens <=> cur = Null \/ pos \in needs
  OBVIOUS
<1>1. PICK b : b = IF opens THEN Len(bbs) + 1 ELSE cur
  OBVIOUS
<1>2. PICK B : B = IF opens THEN OpenBlocks ELSE bbs
  OBVIOUS
<1>3. PICK p : p = IF opens THEN OpenPtr ELSE ptr
  OBVIOUS
<1>4. PICK I : I = CfsOf(prog[pos], pos)
  OBVIOUS
<1>5. /\ phase = "scan" /\ pos <= N /\ WfBlocks(bbs) /\ Len(bbs) \in Nat /\ pos \in Slots /\ pos \in Int
      /\ prog[pos] \in Instr /\ cur \in 0..Len(bbs) /\ Horizon = pos - 1
  BY NAssumption, InstrAssumption DEF ScanInstr, Inv, Typed, WfBlocks, IsSeq, Slots, Horizon
<1>6. WfBlocks(B) /\ Len(B) \in Nat /\ b \in 1..Len(B)
  BY <1>0, <1>1, <1>2, <1>3, <1>5, TargetBlock
<1>7. /\ B[b].end = 0 /\ \A a \in Slots : ptr[a] # Null => p[a] # Null
  <2> HIDE DEF Disjoint
  <2> QED
    BY <1>0, <1>1, <1>2, <1>3, <1>5, TargetOpen
<1>8. /\ Len(bbs') = Len(B)
      /\ \A c \in 1..Len(B) :
           /\ bbs'[c].start = B[c].start
           /\ bbs'[c].code = CodeWith(B, b, pos, c)
           /\ c # b => bbs'[c].cfs = B[c].cfs /\ bbs'[c].end = B[c].end
      /\ bbs'[b].cfs = I
      /\ cur' = b /\ prog' = prog
      /\ \/ /\ prog[pos].kind \in Terminators
            /\ bbs'[b].end = pos
            /\ ptr' = SetEnd(p, b, B[b].start, pos)
            /\ phase' = "cf" /\ pos' = pos
         \/ /\ prog[pos].kind \notin Terminators
            /\ bbs'[b].end = B[b].end
            /\ ptr' = p
            /\ phase' = "scan" /\ pos' = pos + 1
  BY <1>0, <1>1, <1>2, <1>3, <1>4, ScanInstrFields
<1>9. /\ \/ bbs' = [[B EXCEPT ![b].code = @ \cup {pos}, ![b].cfs = CfsOf(prog[pos], pos)] EXCEPT ![b].end = pos]
         \/ bbs' = [B EXCEPT ![b].code = @ \cup {pos}, ![b].cfs = CfsOf(prog[pos], pos)]
      /\ needs' = needs
      /\ prog[pos].kind \in Terminators => cfi' = 1
  <2>1. /\ b = (IF cur = Null \/ pos \in needs THEN Len(bbs) + 1 ELSE cur)
        /\ B = (IF cur = Null \/ pos \in needs THEN OpenBlocks ELSE bbs)
        /\ p = (IF cur = Null \/ pos \in needs THEN OpenPtr ELSE ptr)
    BY <1>0, <1>1, <1>2, <1>3
  <2> QED
    BY <2>1, ScanInstrSteps
<1>10. \A c \in 1..Len(B) : bbs'[c].preds = B[c].preds /\ bbs'[c].succs = B[c].succs
  <2>1. DOMAIN B = 1..Len(B) /\ \A c \in 1..Len(B) : DOMAIN B[c] = BlockFields
    BY <1>6 DEF WfBlocks, WfBlock, IsSeq
  <2>2. PICK code, cfs : code = B[b].code \cup {pos} /\ cfs = CfsOf(prog[pos], pos)
    OBVIOUS
  <2>3. \/ bbs' = [[B EXCEPT ![b].code = code, ![b].cfs = cfs] EXCEPT ![b].end = pos]
        \/ bbs' = [B EXCEPT ![b].code = code, ![b].cfs = cfs]
    BY <1>9, <2>2
  <2> QED
    BY <1>6, <2>1, <2>3 DEF BlockFields
<1>11. Wired(bbs) /\ (cur # Null => bbs[cur].cfs = <<>>)
  BY <1>5 DEF Edges, Live, Wired, Pointers, OpenBlock
<1>12. Wired(B) /\ DOMAIN B[b].cfs = {} /\ OpsOf(bbs, B)
  <2>1. CASE opens
    <3>1. B = OpenBlocks /\ b = Len(bbs) + 1
      BY <1>1, <1>2, <2>1
    <3> HIDE DEF Wired
    <3>2. Wired(B)
      BY <1>5, <1>11, <3>1, OpenWired
    <3>3. OpsOf(bbs, B)
      BY <1>5, <1>11, <3>1, OpenOps
    <3>4. B[b].cfs = <<>>
      BY <1>5, <3>1, OpenWf
    <3> QED
      BY <3>2, <3>3, <3>4
  <2>2. CASE ~opens
    <3>1. B = bbs /\ b = cur /\ cur # Null
      BY <1>0, <1>1, <1>2, <2>2
    <3> QED
      BY <1>11, <3>1 DEF OpsOf
  <2> QED
    BY <2>1, <2>2
<1>13. /\ \A k \in DOMAIN I : /\ I[k].target = Null /\ I[k].cont = Null
                              /\ I[k].type = "call" => prog[pos].kind = "call" /\ I[k].jump = prog[pos].t
                              /\ Direct(I[k]) => I[k].jump # 0
                              /\ I[k].instr = pos
       /\ prog[pos].kind \notin Terminators => DOMAIN I = {}
       /\ \A k \in DOMAIN I : k \in Nat /\ k >= 1
  BY <1>4, <1>5, IssuedCalls
<1>14. \A k \in DOMAIN I : prog[pos].kind \in Terminators /\ Shaped(I[k], bbs'[b], bbs')
  <2>1. bbs'[b].code = B[b].code \cup {pos}
    BY <1>6, <1>8 DEF CodeWith
  <2> QED
    BY <1>8, <1>13, <2>1 DEF Shaped
<1>15. Wired(bbs')
  <2>1. \A c \in 1..Len(B) :
          /\ bbs'[c].start = B[c].start
          /\ bbs'[c].preds = B[c].preds /\ bbs'[c].succs = B[c].succs
          /\ c # b => bbs'[c].cfs = B[c].cfs /\ bbs'[c].code = B[c].code /\ bbs'[c].end = B[c].end
    BY <1>8, <1>10 DEF CodeWith
  <2>2. \A k \in DOMAIN B[b].cfs : k \in DOMAIN bbs'[b].cfs /\ bbs'[b].cfs[k] = B[b].cfs[k]
    BY <1>12
  <2>3. \A k \in DOMAIN bbs'[b].cfs : k \in DOMAIN B[b].cfs
          \/ (bbs'[b].cfs[k].target = Null /\ bbs'[b].cfs[k].cont = Null /\ Shaped(bbs'[b].cfs[k], bbs'[b], bbs'))
    <3> HIDE DEF Shaped
    <3> QED
      BY <1>8, <1>13, <1>14
  <2>4. PICK C : C = bbs'
    OBVIOUS
  <2> HIDE DEF Wired, Shaped
  <2> QED
    BY <1>6, <1>8, <1>12, <2>1, <2>2, <2>3, <2>4, OpsWired
<1>16. Horizon' = pos
  BY <1>5, <1>8 DEF Horizon
<1>17. \A a \in Slots : ptr[a] # Null => ptr'[a] # Null
  BY <1>6, <1>7, <1>8 DEF SetEnd, Null
<1>18. \A a \in Slots : Awaits(a) => ptr'[a] # Null \/ Awaits(a)'
  <2> SUFFICES ASSUME NEW a \in Slots, Awaits(a)
               PROVE  ptr'[a] # Null \/ Awaits(a)'
    OBVIOUS
  <2>1. a \in needs /\ a > pos - 1 /\ IsInstr(a) /\ a \in Int
    BY <1>5 DEF Awaits, Slots
  <2>2. IsInstr(a)'
    BY <1>8, <2>1 DEF IsInstr
  <2>3. CASE a > pos
    BY <1>9, <1>16, <2>1, <2>2, <2>3 DEF Awaits
  <2>4. CASE a = pos
    <3>1. p = OpenPtr
      BY <1>0, <1>3, <2>1, <2>4
    <3>2. p[pos] # Null
      BY <1>5, <3>1, OpenPtrKeeps DEF Null
    <3> QED
      BY <1>5, <1>6, <1>8, <2>4, <3>2 DEF SetEnd, Null
  <2> QED
    BY <1>5, <2>1, <2>3, <2>4
<1>19. \A cf : Lands(cf) => Lands(cf)'
  <2> HIDE DEF Awaits, Lands
  <2> QED
    BY <1>17, <1>18, LandsKept
<1>20. ASSUME NEW c \in 1..Len(B), NEW k \in DOMAIN bbs'[c].cfs
       PROVE  bbs'[c].cfs[k].cont = Null /\ (Waiting(c, k)' \/ Lands(bbs[c].cfs[k])')
  <2>1. CASE c = b
    <3>1. k \in DOMAIN I /\ bbs'[c].cfs[k] = I[k]
      BY <1>8, <1>20, <2>1
    <3>2. Waiting(c, k)'
      BY <1>8, <1>9, <1>13, <1>14, <2>1, <3>1 DEF Waiting, Lifting
    <3> QED
      BY <1>13, <3>1, <3>2
  <2>2. CASE c # b
    <3>1. PICK cf : cf = B[c].cfs[k]
      OBVIOUS
    <3>2. k \in DOMAIN B[c].cfs /\ bbs'[c].cfs[k] = cf
      BY <1>8, <1>20, <2>2, <3>1
    <3>3. \/ \E d \in 1..Len(bbs) : \E l \in DOMAIN bbs[d].cfs : cf = bbs[d].cfs[l]
          \/ cf.cont = Null /\ cf.type # "call"
      BY <1>12, <3>1, <3>2 DEF OpsOf
    <3>4. CASE \E d \in 1..Len(bbs) : \E l \in DOMAIN bbs[d].cfs : cf = bbs[d].cfs[l]
      <4>1. cf.cont = Null /\ Lands(cf)
        BY <1>5, <3>4, ScanOps
      <4>2. Lands(cf)'
        BY <1>19, <4>1
      <4> QED
        BY <3>2, <4>1, <4>2 DEF Lands
    <3>5. CASE cf.cont = Null /\ cf.type # "call"
      BY <3>2, <3>5 DEF Lands
    <3> QED
      BY <3>3, <3>4, <3>5
  <2> QED
    BY <2>1, <2>2
<1>21. ASSUME NEW c \in 1..Len(B)
       PROVE  (phase' = "scan" /\ c = cur') \/ Ended(bbs, c, Horizon)'
  <2>1. CASE c = b
    <3>1. pos # 0
      BY <1>5 DEF Slots
    <3> QED
      BY <1>8, <2>1, <3>1 DEF Ended
  <2>2. CASE c # b
    <3>1. Ended(B, c, pos)
      <4>1. CASE opens
        <5>1. B = OpenBlocks /\ Len(B) = Len(bbs) + 1
          BY <1>2, <1>5, <4>1, OpenWf
        <5> HIDE DEF Ended
        <5> QED
          BY <1>5, <5>1, ScanEnded
      <4>2. CASE ~opens
        <5>1. B = bbs /\ b = cur
          BY <1>1, <1>2, <4>2
        <5> HIDE DEF Ended
        <5> QED
          BY <1>5, <2>2, <5>1, ScanEnded
      <4> QED
        BY <4>1, <4>2
    <3>2. bbs'[c].code = B[c].code /\ bbs'[c].end = B[c].end
      BY <1>8, <2>2 DEF CodeWith
    <3>3. Ended(bbs', c, pos)
      <4>1. PICK C : C = bbs'
        OBVIOUS
      <4> HIDE DEF Ended
      <4> QED
        BY <1>5, <3>1, <3>2, <4>1, EndedLater
    <3> QED
      BY <1>8, <1>16, <3>3 DEF Ended, IsInstr
  <2> QED
    BY <2>1, <2>2
<1>22. AsIssued'
  <2> SUFFICES ASSUME phase' = "cf"
               PROVE  \A k \in DOMAIN bbs'[cur'].cfs : Direct(bbs'[cur'].cfs[k]) => bbs'[cur'].cfs[k].jump = Issued'[k].jump
    BY <1>8 DEF AsIssued, Lifting, Direct
  <2>1. Issued' = I
    BY <1>4, <1>8 DEF Issued
  <2> QED
    BY <1>8, <2>1
<1> HIDE DEF Ended, Lands, Waiting, Wired
<1>23. Unvisited' /\ AllLand' /\ DataEnds'
  BY <1>8, <1>20, <1>21 DEF Unvisited, AllLand, DataEnds
<1> QED
  BY <1>15, <1>22, <1>23 DEF Edges, Wired

-----------------------------------------------------------------------------
(* Behind the scan.                                                        *)

(* A call has a target or finds a block. *)
Landed(cf, p) == cf.type = "call" /\ cf.target = Null => cf.jump \in Slots /\ p[cf.jump] # Null

(* Nothing is awaited any more, and no operation waits. *)
LEMMA Settled ==
  ASSUME Inv, Edges, Live, ~Lifting \/ (phase = "scan" /\ pos > N)
  PROVE  /\ Wired(bbs)
         /\ \A b \in 1..Len(bbs) : \A k \in DOMAIN bbs[b].cfs :
              /\ Landed(bbs[b].cfs[k], ptr)
              /\ phase = "scan" \/ (phase = "post" /\ <<b, k>> \in todo) => bbs[b].cfs[k].cont = Null
<1>1. /\ Wired(bbs) /\ Unvisited /\ AllLand
  BY DEF Edges, Wired
<1>2. N \in Nat /\ pos \in Int /\ needs \subseteq Slots
  BY NAssumption DEF Inv, Typed
<1>3. Horizon >= N
  <2>1. CASE ~Lifting
    BY <1>2, <2>1 DEF Inv, Control, Lifting, Horizon, Live
  <2>2. CASE phase = "scan" /\ pos > N
    BY <1>2, <2>2 DEF Horizon
  <2> QED
    BY <2>1, <2>2
<1>4. Horizon \in Int
  BY <1>2 DEF Horizon
<1>5. \A a \in Slots : ~Awaits(a)
  BY <1>2, <1>3, <1>4 DEF Awaits, Slots
<1> SUFFICES ASSUME NEW b \in 1..Len(bbs), NEW k \in DOMAIN bbs[b].cfs
             PROVE  /\ Landed(bbs[b].cfs[k], ptr)
                    /\ phase = "scan" \/ (phase = "post" /\ <<b, k>> \in todo) => bbs[b].cfs[k].cont = Null
  BY <1>1, Zenon
<1>6. Landed(bbs[b].cfs[k], ptr)
  <2>1. ~Waiting(b, k)
    BY DEF Waiting, Lifting
  <2>2. Lands(bbs[b].cfs[k])
    BY <1>1, <2>1 DEF AllLand
  <2> QED
    BY <1>5, <2>2 DEF Lands, Landed
<1>7. phase = "scan" \/ (phase = "post" /\ <<b, k>> \in todo) => bbs[b].cfs[k].cont = Null
  BY <1>1 DEF Unvisited, Lifting
<1> QED
  BY <1>6, <1>7

(* What is left of the invariant there. *)
LEMMA LateEdges ==
  ASSUME Len(bbs') \in Nat, phase' \in {"post", "ijumps", "register", "split"}, phase' = "split" => req'.back = "register",
         Wired(bbs'),
         \A b \in 1..Len(bbs') : \A k \in DOMAIN bbs'[b].cfs :
           /\ Landed(bbs'[b].cfs[k], ptr')
           /\ phase' = "post" /\ <<b, k>> \in todo' => bbs'[b].cfs[k].cont = Null
  PROVE  Edges'
<1>1. ~Lifting'
  BY DEF Lifting
<1>2. Unvisited'
  BY <1>1 DEF Unvisited
<1>3. AllLand'
  BY DEF AllLand, Lands, Landed
<1>4. AsIssued' /\ DataEnds'
  BY <1>1 DEF AsIssued, DataEnds
<1>5. Matched(bbs)' /\ Simple(bbs)' /\ AllShaped(bbs)'
  BY DEF Wired
<1> QED
  BY <1>2, <1>3, <1>4, <1>5 DEF Edges

(* A step that leaves the blocks alone. *)
LEMMA SameEdges ==
  ASSUME Inv, Edges, Live, UNCHANGED <<bbs, ptr>>,
         \/ phase' = "crashed"
         \/ /\ ~Lifting \/ (phase = "scan" /\ pos > N)
            /\ phase' \in {"post", "ijumps", "register"}
            /\ phase' = "post" => phase = "scan"
  PROVE  Edges'
<1>1. CASE phase' = "crashed"
  BY <1>1 DEF Edges, Live, Matched, Connected
<1>2. CASE /\ ~Lifting \/ (phase = "scan" /\ pos > N)
           /\ phase' \in {"post", "ijumps", "register"}
           /\ phase' = "post" => phase = "scan"
  <2>1. /\ Wired(bbs)
        /\ \A b \in 1..Len(bbs) : \A k \in DOMAIN bbs[b].cfs :
              /\ Landed(bbs[b].cfs[k], ptr)
              /\ phase = "scan" \/ (phase = "post" /\ <<b, k>> \in todo) => bbs[b].cfs[k].cont = Null
    BY <1>2, Settled
  <2>2. bbs' = bbs /\ ptr' = ptr /\ Len(bbs) \in Nat
    BY DEF Inv, Typed, WfBlocks, IsSeq
  <2>3. Wired(bbs')
    BY <2>1, <2>2
  <2>4. \A b \in 1..Len(bbs') : \A k \in DOMAIN bbs'[b].cfs :
           /\ Landed(bbs'[b].cfs[k], ptr')
           /\ phase' = "post" /\ <<b, k>> \in todo' => bbs'[b].cfs[k].cont = Null
    <3> HIDE DEF Landed
    <3> QED
      BY <1>2, <2>1, <2>2
  <2> HIDE DEF Landed, Wired
  <2> QED
    BY <1>2, <2>2, <2>3, <2>4, LateEdges
<1> QED
  BY <1>1, <1>2

-----------------------------------------------------------------------------
(* One operation replaced.                                                 *)

(* The edges stay. *)
LEMMA PutCfEdges ==
  ASSUME NEW B, WfBlocks(B), NEW b \in 1..Len(B), NEW k, NEW cf
  PROVE  \A c \in 1..Len(B) : PutCf(B, b, k, cf)[c].preds = B[c].preds /\ PutCf(B, b, k, cf)[c].succs = B[c].succs
<1>1. DOMAIN B = 1..Len(B) /\ \A c \in 1..Len(B) : DOMAIN B[c] = BlockFields
  BY DEF WfBlocks, WfBlock, IsSeq
<1> QED
  BY <1>1 DEF PutCf, Put, WithCfs, BlockFields

(* The shape of an operation is that in other blocks of the same extent.   *)
LEMMA ShapedSame ==
  ASSUME NEW B, NEW C, WfBlocks(B), SameExtent(B, C), NEW b \in 1..Len(B), NEW cf, cf.cont \in 0..Len(B),
         Shaped(cf, B[b], B)
  PROVE  Shaped(cf, C[b], C)
<1>1. \A c \in 1..Len(B) : C[c].start = B[c].start /\ C[c].end = B[c].end /\ C[c].code = B[c].code
  BY DEF SameExtent, Extends
<1>2. cf.cont # Null => C[cf.cont].start = B[cf.cont].start
  BY <1>1 DEF WfBlocks, IsSeq, Null
<1> QED
  BY <1>1, <1>2 DEF Shaped

LEMMA PutShaped ==
  ASSUME NEW B, NEW C, WfBlocks(B), AllShaped(B), SameExtent(B, C),
         NEW b \in 1..Len(B), NEW k \in DOMAIN B[b].cfs, NEW cf, WfCf(cf, Len(B)), Shaped(cf, B[b], B),
         \A c \in 1..Len(B) : C[c].cfs = CfsBut(B, b, k, cf, c)
  PROVE  AllShaped(C)
<1>1. Len(C) = Len(B)
  BY DEF SameExtent
<1> SUFFICES ASSUME NEW c \in 1..Len(B), NEW l \in DOMAIN C[c].cfs
             PROVE  Shaped(C[c].cfs[l], C[c], C)
  BY <1>1, Zenon DEF AllShaped
<1>2. PICK op : op = C[c].cfs[l]
  OBVIOUS
<1>3. Shaped(op, B[c], B) /\ op.cont \in 0..Len(B)
  <2>1. CASE c = b /\ l = k
    <3>1. op = cf
      BY <1>2, <2>1 DEF CfsBut
    <3> QED
      BY <2>1, <3>1 DEF WfCf
  <2>2. CASE ~(c = b /\ l = k)
    <3>1. l \in DOMAIN B[c].cfs /\ op = B[c].cfs[l]
      BY <1>2, <2>2 DEF CfsBut
    <3>2. Shaped(B[c].cfs[l], B[c], B)
      BY <3>1 DEF AllShaped
    <3>3. B[c].cfs[l].cont \in 0..Len(B)
      BY <3>1 DEF WfBlocks, WfBlock, WfCfs, WfCf
    <3> QED
      BY <3>1, <3>2, <3>3
  <2> QED
    BY <2>1, <2>2
<1> HIDE DEF Shaped, SameExtent
<1>4. Shaped(op, C[c], C)
  BY <1>3, ShapedSame
<1> QED
  BY <1>2, <1>4

(* The operation names one more block, and the edge to it is entered.      *)
LEMMA EdgeWired ==
  ASSUME NEW B, WfBlocks(B), Wired(B), NEW b \in 1..Len(B), NEW k \in DOMAIN B[b].cfs, NEW t \in 1..Len(B),
         NEW cf, WfCf(cf, Len(B)), Shaped(cf, B[b], B),
         \A d \in 1..Len(B) : Points(cf, d) <=> Points(B[b].cfs[k], d) \/ d = t,
         NEW C, \/ C = AddEdgeIfAbsent(PutCf(B, b, k, cf), b, t)
                \/ C = AddEdge(PutCf(B, b, k, cf), b, t) /\ (b = t => b \notin DOMAIN B[b].preds)
  PROVE  Wired(C) /\ SameExtent(B, C) /\ \A c \in 1..Len(B) : C[c].cfs = CfsBut(B, b, k, cf, c)
<1>1. PICK D : D = PutCf(B, b, k, cf)
  OBVIOUS
<1>2. SameExtent(B, D) /\ \A c \in 1..Len(B) : D[c].cfs = CfsBut(B, b, k, cf, c)
  BY <1>1, PutCfSame, PutCfCfs
<1>3. \A c \in 1..Len(B) : D[c].preds = B[c].preds /\ D[c].succs = B[c].succs
  BY <1>1, PutCfEdges
<1>4. WfBlocks(D) /\ Len(D) = Len(B)
  BY <1>2 DEF SameExtent
<1>5. /\ SameExtent(D, C)
      /\ \A c \in 1..Len(D) : C[c].cfs = D[c].cfs
      /\ PredsGain(D, C, b, t) /\ SuccsGain(D, C, b, t)
      /\ Simple(D) => Simple(C)
  <2>1. CASE C = AddEdgeIfAbsent(D, b, t)
    BY <1>4, <2>1, AddEdgeIfAbsentSame, AddEdgeIfAbsentGains
  <2>2. CASE C = AddEdge(D, b, t) /\ (b = t => b \notin DOMAIN B[b].preds)
    <3>1. b = t => b \notin DOMAIN D[b].preds
      BY <1>3, <2>2
    <3> QED
      BY <1>4, <2>2, <3>1, AddEdgeSame, AddEdgeGains
  <2> QED
    BY <1>1, <2>1, <2>2
<1>6. /\ PredsGain(B, C, b, t) /\ SuccsGain(B, C, b, t)
      /\ Simple(C) /\ Len(C) = Len(B)
  <2>1. Simple(D)
    BY <1>3, <1>4 DEF Simple, Wired
  <2> QED
    BY <1>3, <1>4, <1>5, <2>1 DEF PredsGain, SuccsGain, SameExtent
<1>7. \A c \in 1..Len(B) : C[c].cfs = CfsBut(B, b, k, cf, c)
  BY <1>2, <1>4, <1>5
<1>8. SameExtent(B, C)
  <2>1. WfBlocks(C) /\ Len(C) = Len(B)
    BY <1>4, <1>5 DEF SameExtent
  <2>2. Extends(B, C)
    BY <1>2, <1>4, <1>5, <2>1, ExtendsTransitive DEF SameExtent
  <2> QED
    BY <2>1, <2>2 DEF SameExtent
<1>9. Matched(C)
  <2>1. \A d \in 1..Len(B) : Points(B[b].cfs[k], d) => Points(cf, d)
    OBVIOUS
  <2>2. \A c, d \in 1..Len(B) : Connected(C, c, d) <=> Connected(B, c, d) \/ (c = b /\ Points(cf, d))
    BY <1>7, <2>1, PutConnected
  <2>3. \A d \in 1..Len(B) : Points(B[b].cfs[k], d) => Connected(B, b, d)
    BY DEF Connected
  <2>4. \A c, d \in 1..Len(B) : Connected(C, c, d) <=> Connected(B, c, d) \/ (c = b /\ d = t)
    BY <2>2, <2>3
  <2> QED
    BY <1>6, <2>4, EdgeMatched DEF Wired
<1>10. AllShaped(C)
  <2> HIDE DEF Shaped, CfsBut, AllShaped, SameExtent
  <2> QED
    BY <1>7, <1>8, PutShaped DEF Wired
<1> QED
  BY <1>6, <1>7, <1>8, <1>9, <1>10 DEF Wired

(* The operation names the same blocks. *)
LEMMA OpWired ==
  ASSUME NEW B, WfBlocks(B), Wired(B), NEW b \in 1..Len(B), NEW k \in DOMAIN B[b].cfs,
         NEW cf, WfCf(cf, Len(B)), Shaped(cf, B[b], B),
         \A d \in 1..Len(B) : Points(cf, d) <=> Points(B[b].cfs[k], d),
         NEW C, C = PutCf(B, b, k, cf)
  PROVE  Wired(C) /\ SameExtent(B, C) /\ \A c \in 1..Len(B) : C[c].cfs = CfsBut(B, b, k, cf, c)
<1>1. SameExtent(B, C) /\ \A c \in 1..Len(B) : C[c].cfs = CfsBut(B, b, k, cf, c)
  BY PutCfSame, PutCfCfs
<1>2. \A c \in 1..Len(B) : C[c].preds = B[c].preds /\ C[c].succs = B[c].succs
  BY PutCfEdges
<1>3. Len(C) = Len(B)
  BY <1>1 DEF SameExtent
<1>4. Simple(C)
  BY <1>2, <1>3 DEF Simple, Wired
<1>5. Matched(C)
  <2>1. \A d \in 1..Len(B) : Points(B[b].cfs[k], d) => Points(cf, d)
    OBVIOUS
  <2>2. \A c, d \in 1..Len(B) : Connected(C, c, d) <=> Connected(B, c, d) \/ (c = b /\ Points(cf, d))
    BY <1>1, <2>1, PutConnected
  <2>3. \A d \in 1..Len(B) : Points(B[b].cfs[k], d) => Connected(B, b, d)
    BY DEF Connected
  <2>4. \A c, d \in 1..Len(B) : Connected(C, c, d) <=> Connected(B, c, d)
    BY <2>2, <2>3
  <2> QED
    BY <1>2, <1>3, <2>4, SameMatched DEF Wired
<1>6. AllShaped(C)
  <2> HIDE DEF Shaped, CfsBut, AllShaped, SameExtent
  <2> QED
    BY <1>1, PutShaped DEF Wired
<1> QED
  BY <1>1, <1>4, <1>5, <1>6 DEF Wired

(* Only flags change. *)
LEMMA FlagWired ==
  ASSUME NEW B, WfBlocks(B), Wired(B), NEW b \in 1..Len(B), NEW F
  PROVE  Wired(PutFlag(B, b, F)) /\ \A c \in 1..Len(B) : PutFlag(B, b, F)[c].cfs = B[c].cfs
<1>1. DOMAIN B = 1..Len(B) /\ \A c \in 1..Len(B) : DOMAIN B[c] = BlockFields
  BY DEF WfBlocks, WfBlock, IsSeq
<1>2. PICK C : C = PutFlag(B, b, F)
  OBVIOUS
<1>3. C = [B EXCEPT ![b] = WithFlags(B[b], B[b].flags \cup F)]
  BY <1>2 DEF PutFlag, Put
<1>4. \A c \in 1..Len(B) : /\ C[c].start = B[c].start /\ C[c].code = B[c].code /\ C[c].end = B[c].end
                           /\ C[c].preds = B[c].preds /\ C[c].succs = B[c].succs
                           /\ C[c].cfs = B[c].cfs
  BY <1>1, <1>3 DEF WithFlags, BlockFields
<1>5. Len(C) = Len(B)
  <2>1. IsSeq(B)
    BY DEF WfBlocks
  <2> QED
    BY <1>3, <2>1, ExceptIsSeq
<1>6. Wired(C)
  <2> HIDE DEF Wired, Shaped
  <2>1. C[b].code = B[b].code /\ C[b].end = B[b].end /\ C[b].cfs = B[b].cfs
    BY <1>4
  <2>2. \A k \in DOMAIN B[b].cfs : k \in DOMAIN C[b].cfs /\ C[b].cfs[k] = B[b].cfs[k]
    BY <2>1
  <2>3. \A k \in DOMAIN C[b].cfs : k \in DOMAIN B[b].cfs
          \/ (C[b].cfs[k].target = Null /\ C[b].cfs[k].cont = Null /\ Shaped(C[b].cfs[k], C[b], C))
    BY <2>1
  <2> QED
    BY <1>4, <1>5, <2>1, <2>2, <2>3, OpsWired
<1> QED
  BY <1>2, <1>4, <1>6

-----------------------------------------------------------------------------
(* Lifter::postprocess.                                                    *)

(* C is B with operation m replaced, and with more blocks, which do not    *)
(* call.  A call keeps its jump and loses no target.                       *)
Follows(cf, op) ==
  cf.type = "call" => op.type = "call" /\ cf.jump = op.jump /\ (cf.target = Null => op.target = Null)

Rewires(B, C, m) ==
  /\ WfBlocks(C) /\ Wired(C) /\ Extends(B, C)
  /\ \A b \in 1..Len(B) :
       /\ DOMAIN C[b].cfs = DOMAIN B[b].cfs
       /\ \A k \in DOMAIN B[b].cfs : /\ ~(b = m[1] /\ k = m[2]) => C[b].cfs[k] = B[b].cfs[k]
                                     /\ Follows(C[b].cfs[k], B[b].cfs[k])
  /\ \A b \in (Len(B) + 1)..Len(C) : \A k \in DOMAIN C[b].cfs : C[b].cfs[k].type # "call"

LEMMA RewiresTransitive ==
  ASSUME NEW B, NEW C, NEW D, NEW m, WfBlocks(B), Rewires(B, C, m), Rewires(C, D, m)
  PROVE  Rewires(B, D, m)
<1>1. /\ Len(B) \in Nat /\ Len(C) \in Nat /\ Len(D) \in Nat /\ Len(B) <= Len(C) /\ Len(C) <= Len(D)
      /\ WfBlocks(C) /\ WfBlocks(D) /\ Wired(D)
  BY DEF Rewires, Extends, WfBlocks, IsSeq
<1>2. Extends(B, D)
  BY <1>1, ExtendsTransitive DEF Rewires
<1>3. ASSUME NEW b \in 1..Len(B)
      PROVE  /\ DOMAIN D[b].cfs = DOMAIN B[b].cfs
             /\ \A k \in DOMAIN B[b].cfs : /\ ~(b = m[1] /\ k = m[2]) => D[b].cfs[k] = B[b].cfs[k]
                                           /\ Follows(D[b].cfs[k], B[b].cfs[k])
  <2>1. b \in 1..Len(C)
    BY <1>1
  <2>2. /\ DOMAIN C[b].cfs = DOMAIN B[b].cfs
        /\ \A k \in DOMAIN B[b].cfs : /\ ~(b = m[1] /\ k = m[2]) => C[b].cfs[k] = B[b].cfs[k]
                                      /\ Follows(C[b].cfs[k], B[b].cfs[k])
    BY DEF Rewires
  <2>3. /\ DOMAIN D[b].cfs = DOMAIN C[b].cfs
        /\ \A k \in DOMAIN C[b].cfs : /\ ~(b = m[1] /\ k = m[2]) => D[b].cfs[k] = C[b].cfs[k]
                                      /\ Follows(D[b].cfs[k], C[b].cfs[k])
    BY <2>1 DEF Rewires
  <2> QED
    BY <2>2, <2>3 DEF Follows
<1>4. ASSUME NEW b \in (Len(B) + 1)..Len(D), NEW k \in DOMAIN D[b].cfs
      PROVE  D[b].cfs[k].type # "call"
  <2>1. CASE b \in 1..Len(C)
    <3>1. b \in (Len(B) + 1)..Len(C) /\ k \in DOMAIN C[b].cfs /\ Follows(D[b].cfs[k], C[b].cfs[k])
      BY <1>1, <1>4, <2>1 DEF Rewires
    <3>2. C[b].cfs[k].type # "call"
      BY <3>1 DEF Rewires
    <3> QED
      BY <3>1, <3>2 DEF Follows
  <2>2. CASE b \notin 1..Len(C)
    <3>1. b \in (Len(C) + 1)..Len(D)
      BY <1>1, <2>2
    <3> QED
      BY <1>4, <3>1 DEF Rewires
  <2> QED
    BY <2>1, <2>2
<1> QED
  BY <1>1, <1>2, <1>3, <1>4 DEF Rewires

LEMMA PutRewires ==
  ASSUME NEW B, NEW C, NEW m, m[1] \in 1..Len(B), m[2] \in DOMAIN B[m[1]].cfs, WfBlocks(B), Wired(C),
         SameExtent(B, C), NEW cf, Follows(cf, B[m[1]].cfs[m[2]]),
         \A c \in 1..Len(B) : C[c].cfs = CfsBut(B, m[1], m[2], cf, c)
  PROVE  Rewires(B, C, m)
<1>1. WfBlocks(C) /\ Len(C) = Len(B) /\ Extends(B, C) /\ Len(B) \in Nat
  BY DEF SameExtent, WfBlocks, IsSeq
<1>2. ASSUME NEW b \in 1..Len(B)
      PROVE  /\ DOMAIN C[b].cfs = DOMAIN B[b].cfs
             /\ \A k \in DOMAIN B[b].cfs : /\ ~(b = m[1] /\ k = m[2]) => C[b].cfs[k] = B[b].cfs[k]
                                           /\ Follows(C[b].cfs[k], B[b].cfs[k])
  <2>1. CASE b = m[1]
    <3>1. C[b].cfs = [B[b].cfs EXCEPT ![m[2]] = cf]
      BY <2>1 DEF CfsBut
    <3> QED
      BY <2>1, <3>1 DEF Follows
  <2>2. CASE b # m[1]
    <3>1. C[b].cfs = B[b].cfs
      BY <2>2 DEF CfsBut
    <3> QED
      BY <2>2, <3>1 DEF Follows
  <2> QED
    BY <2>1, <2>2
<1>3. \A b : b \notin (Len(B) + 1)..Len(C)
  BY <1>1
<1> QED
  BY <1>1, <1>2, <1>3 DEF Rewires

(* Nothing but a flag changes. *)
LEMMA FlagRewires ==
  ASSUME NEW B, WfBlocks(B), Wired(B), NEW b \in 1..Len(B), NEW F \in SUBSET Flags, NEW m
  PROVE  Rewires(B, PutFlag(B, b, F), m) /\ Rewires(B, B, m)
<1>1. PICK C : C = PutFlag(B, b, F)
  OBVIOUS
<1>2. /\ WfBlocks(C) /\ Extends(B, C) /\ Len(C) = Len(B) /\ Len(B) \in Nat
      /\ Wired(C) /\ \A c \in 1..Len(B) : C[c].cfs = B[c].cfs
  BY <1>1, PutFlagGrows, FlagWired DEF Grows, WfBlocks, IsSeq
<1>3. Extends(B, B)
  BY ExtendsReflexive
<1>4. \A c : c \notin (Len(B) + 1)..Len(B)
  BY <1>2
<1>5. Rewires(B, C, m)
  BY <1>2, <1>4 DEF Rewires, Follows
<1>6. Rewires(B, B, m)
  BY <1>2, <1>3, <1>4 DEF Rewires, Follows
<1> QED
  BY <1>1, <1>5, <1>6

(* The fields of an operation that gets a target or a continuation. *)
LEMMA OpFields ==
  ASSUME NEW n, NEW op, WfCf(op, n), NEW v
  PROVE  LET t == [op EXCEPT !.target = v]
             c == [op EXCEPT !.cont = v]
             u == [op EXCEPT !.type = "unreachable", !.cont = Null]
         IN  /\ t.target = v /\ t.cont = op.cont /\ t.type = op.type /\ t.jump = op.jump /\ t.instr = op.instr
             /\ c.cont = v /\ c.target = op.target /\ c.type = op.type /\ c.jump = op.jump /\ c.instr = op.instr
             /\ u.type = "unreachable" /\ u.cont = Null /\ u.target = op.target
BY DEF WfCf, CfFields

LEMMA OpOfBlock ==
  ASSUME NEW B, WfBlocks(B), NEW b \in 1..Len(B), NEW k \in DOMAIN B[b].cfs
  PROVE  /\ WfCf(B[b].cfs[k], Len(B))
         /\ AllShaped(B) => Shaped(B[b].cfs[k], B[b], B)
<1>1. WfBlock(B[b], Len(B))
  BY DEF WfBlocks
<1> QED
  BY <1>1 DEF WfBlock, WfCfs, AllShaped

(* A direct jump gets its target. *)
LEMMA LinkWired ==
  ASSUME NEW B, WfBlocks(B), Wired(B), NEW m, m[1] \in 1..Len(B), m[2] \in DOMAIN B[m[1]].cfs, NEW t \in 1..Len(B),
         Direct(B[m[1]].cfs[m[2]]), B[m[1]].cfs[m[2]].target = Null,
         NEW C, \/ C = AddEdgeIfAbsent(LinkTo(B, m, t), m[1], t)
                \/ C = AddEdge(LinkTo(B, m, t), m[1], t) /\ (m[1] = t => m[1] \notin DOMAIN B[t].preds)
  PROVE  Rewires(B, C, m)
<1>1. PICK op : op = B[m[1]].cfs[m[2]]
  OBVIOUS
<1>2. PICK cf : cf = [op EXCEPT !.target = t]
  OBVIOUS
<1>3. PICK b, k : b = m[1] /\ k = m[2]
  OBVIOUS
<1>4. b \in 1..Len(B) /\ k \in DOMAIN B[b].cfs /\ op = B[b].cfs[k]
  BY <1>1, <1>3
<1>5. WfCf(op, Len(B)) /\ Shaped(op, B[b], B) /\ Direct(op) /\ op.target = Null
  BY <1>1, <1>4, OpOfBlock DEF Wired
<1>6. WfCf(cf, Len(B)) /\ t # Null /\ \A d \in 1..Len(B) : d # Null
  <2>1. PICK n : n = Len(B)
    OBVIOUS
  <2>2. n \in Nat /\ t \in 0..n /\ WfCf(op, n)
    BY <1>5, <2>1 DEF WfBlocks, IsSeq
  <2>3. WfCf(cf, n)
    BY <1>2, <2>2, CfFieldsWf
  <2>4. \A d \in 1..n : d # Null
    BY <2>2 DEF Null
  <2> QED
    BY <2>1, <2>3, <2>4
<1>7. cf.target = t /\ cf.cont = op.cont /\ cf.type = op.type /\ cf.jump = op.jump /\ cf.instr = op.instr
  BY <1>2, <1>5, OpFields
<1>8. Shaped(cf, B[b], B)
  BY <1>5, <1>7 DEF Shaped, Direct
<1>9. \A d \in 1..Len(B) : Points(cf, d) <=> Points(B[b].cfs[k], d) \/ d = t
  BY <1>4, <1>5, <1>6, <1>7 DEF Points
<1>10. LinkTo(B, m, t) = PutCf(B, b, k, cf)
  BY <1>1, <1>2, <1>3 DEF LinkTo
<1>11. \/ C = AddEdgeIfAbsent(PutCf(B, b, k, cf), b, t)
       \/ C = AddEdge(PutCf(B, b, k, cf), b, t) /\ (b = t => b \notin DOMAIN B[b].preds)
  BY <1>3, <1>10
<1>12. Wired(C) /\ SameExtent(B, C) /\ \A c \in 1..Len(B) : C[c].cfs = CfsBut(B, b, k, cf, c)
  BY <1>4, <1>6, <1>8, <1>9, <1>11, EdgeWired
<1>13. Follows(cf, op)
  BY <1>6, <1>7 DEF Follows
<1> QED
  BY <1>1, <1>3, <1>12, <1>13, PutRewires

(* A call gets its continuation. *)
LEMMA WithContWired ==
  ASSUME NEW B, WfBlocks(B), Wired(B), NEW m, m[1] \in 1..Len(B), m[2] \in DOMAIN B[m[1]].cfs, NEW c \in 1..Len(B),
         NEW op, op = B[m[1]].cfs[m[2]], op.type \in CallTypes, op.cont = Null, B[c].start = op.instr + 1
  PROVE  /\ Rewires(B, WithCont(B, m, c), m)
         /\ LET cf == WithCont(B, m, c)[m[1]].cfs[m[2]]
            IN  cf.type = op.type /\ cf.jump = op.jump /\ cf.target = op.target
<1>1. PICK cf : cf = [op EXCEPT !.cont = c]
  OBVIOUS
<1>2. PICK b, k : b = m[1] /\ k = m[2]
  OBVIOUS
<1>3. b \in 1..Len(B) /\ k \in DOMAIN B[b].cfs /\ op = B[b].cfs[k]
  BY <1>2
<1>4. WfCf(op, Len(B)) /\ Shaped(op, B[b], B)
  BY <1>3, OpOfBlock DEF Wired
<1>5. WfCf(cf, Len(B)) /\ \A d \in 1..Len(B) : d # Null
  <2>1. PICK n : n = Len(B)
    OBVIOUS
  <2>2. n \in Nat /\ c \in 0..n /\ WfCf(op, n)
    BY <1>4, <2>1 DEF WfBlocks, IsSeq
  <2>3. WfCf(cf, n)
    BY <1>1, <2>2, CfFieldsWf
  <2>4. \A d \in 1..n : d # Null
    BY <2>2 DEF Null
  <2> QED
    BY <2>1, <2>3, <2>4
<1>6. cf.cont = c /\ cf.target = op.target /\ cf.type = op.type /\ cf.jump = op.jump /\ cf.instr = op.instr
  BY <1>1, <1>4, OpFields
<1>7. Shaped(cf, B[b], B)
  BY <1>4, <1>6 DEF Shaped, Direct
<1>8. \A d \in 1..Len(B) : Points(cf, d) <=> Points(B[b].cfs[k], d) \/ d = c
  BY <1>3, <1>5, <1>6 DEF Points
<1>9. PICK D : D = AddEdgeIfAbsent(PutCf(B, b, k, cf), b, c)
  OBVIOUS
<1>10. Wired(D) /\ SameExtent(B, D) /\ \A d \in 1..Len(B) : D[d].cfs = CfsBut(B, b, k, cf, d)
  BY <1>3, <1>5, <1>7, <1>8, <1>9, EdgeWired
<1>11. Rewires(B, D, m)
  <2>1. Follows(cf, B[m[1]].cfs[m[2]])
    BY <1>6 DEF Follows
  <2>2. \A d \in 1..Len(B) : D[d].cfs = CfsBut(B, m[1], m[2], cf, d)
    BY <1>2, <1>10
  <2> QED
    BY <1>10, <2>1, <2>2, PutRewires
<1>12. WfBlocks(D) /\ Len(D) = Len(B)
  BY <1>10 DEF SameExtent
<1>13. WithCont(B, m, c) = PutFlag(D, c, {"call_cont_block"})
  <2>1. PutCf(B, b, k, cf) = [B EXCEPT ![m[1]].cfs[m[2]].cont = c]
    BY <1>1, <1>2 DEF PutCf, Put, WithCfs
  <2> QED
    BY <1>2, <1>9, <2>1 DEF WithCont, PutFlag, Put, WithFlags
<1>14. {"call_cont_block"} \in SUBSET Flags
  BY DEF Flags
<1>15. Rewires(D, PutFlag(D, c, {"call_cont_block"}), m)
  BY <1>10, <1>12, <1>14, FlagRewires
<1>16. PutFlag(D, c, {"call_cont_block"})[b].cfs = D[b].cfs
  BY <1>3, <1>10, <1>12, FlagWired
<1>17. D[b].cfs[k] = cf
  BY <1>3, <1>10 DEF CfsBut
<1> QED
  BY <1>2, <1>6, <1>11, <1>13, <1>15, <1>16, <1>17, RewiresTransitive

(* A block without edges that does nothing but trap. *)
LEMMA TrapRewires ==
  ASSUME NEW B, WfBlocks(B), Wired(B), NEW x, WfBlock(x, Len(B) + 1), x.code = {},
         x.cfs = <<Cf("unreachable", 0, 0, Null)>>, x.preds = EmptyBag, x.succs = EmptyBag, NEW m
  PROVE  Rewires(B, Append(B, x), m)
<1>1. \A k \in DOMAIN x.cfs : Plain(x.cfs[k]) /\ x.cfs[k].type # "call"
  <2>1. PICK u : u = Cf("unreachable", 0, 0, Null)
    OBVIOUS
  <2>2. Plain(u) /\ u.type # "call"
    BY <2>1 DEF Plain, Cf, CallTypes, Direct
  <2>3. DOMAIN x.cfs = {1} /\ x.cfs[1] = u
    BY <2>1, SingleIsSeq
  <2> HIDE DEF Plain
  <2> QED
    BY <2>2, <2>3
<1>2. DOMAIN x.preds = {} /\ DOMAIN x.succs = {}
  BY BagDomains
<1>3. PICK C : C = Append(B, x)
  OBVIOUS
<1>4. Wired(C)
  <2> HIDE DEF Wired, Plain
  <2> QED
    BY <1>1, <1>2, <1>3, AppendWired
<1>5. /\ WfBlocks(C) /\ Extends(B, C) /\ Len(C) = Len(B) + 1 /\ Len(B) \in Nat
  BY <1>3, AppendGrows DEF Grows, WfBlocks, IsSeq
<1>6. /\ \A b \in 1..Len(B) : C[b] = B[b]
      /\ C[Len(B) + 1] = x
  BY <1>3, AppendIsSeq DEF WfBlocks
<1>7. \A b \in (Len(B) + 1)..Len(C) : b = Len(B) + 1
  BY <1>5
<1> QED
  BY <1>1, <1>3, <1>4, <1>5, <1>6, <1>7 DEF Rewires, Follows

LEMMA TrapBlockFields ==
  ASSUME NEW a
  PROVE  /\ TrapBlock(a).cfs = <<Cf("unreachable", 0, 0, Null)>>
         /\ TrapBlock(a).preds = EmptyBag /\ TrapBlock(a).succs = EmptyBag /\ TrapBlock(a).start = a
         /\ [TrapBlock(a) EXCEPT !.end = 0].cfs = <<Cf("unreachable", 0, 0, Null)>>
         /\ [TrapBlock(a) EXCEPT !.end = 0].preds = EmptyBag /\ [TrapBlock(a) EXCEPT !.end = 0].succs = EmptyBag
BY DEF TrapBlock, EmptyBlock

(* The target of the operation cf is set; it keeps the continuation it has *)
(* got.  Only a jump or a branch without a target traps.                   *)
LEMMA PostTargetWired ==
  ASSUME NEW B, WfBlocks(B), Wired(B), NEW p \in [Slots -> 0..Len(B)],
         NEW m, m[1] \in 1..Len(B), m[2] \in DOMAIN B[m[1]].cfs, NEW op, op = B[m[1]].cfs[m[2]],
         NEW cf, cf.type = op.type, cf.jump = op.jump, cf.target = op.target,
         cf.type \notin {"ret", "unreachable"}, Landed(cf, p)
  PROVE  Rewires(B, PostTarget(B, p, m, cf), m)
<1>1. PICK b, k : b = m[1] /\ k = m[2]
  OBVIOUS
<1>2. b \in 1..Len(B) /\ k \in DOMAIN B[b].cfs /\ op = B[b].cfs[k]
  BY <1>1
<1>3. WfCf(op, Len(B)) /\ Shaped(op, B[b], B)
  BY <1>2, OpOfBlock DEF Wired
<1>4. PICK t : t = IF cf.jump \in Slots THEN p[cf.jump] ELSE Null
  OBVIOUS
<1>5. Len(B) \in Nat /\ t \in 0..Len(B) /\ {"call_target"} \in SUBSET Flags /\ Rewires(B, B, m)
  <2>1. {"call_target"} \in SUBSET Flags
    BY DEF Flags
  <2>2. Rewires(B, B, m)
    BY <1>2, <2>1, FlagRewires
  <2> QED
    BY <1>4, <2>1, <2>2 DEF WfBlocks, IsSeq, Null
<1>6. CASE cf.type \in {"ijump", "icall"}
  BY <1>5, <1>6 DEF PostTarget
<1>7. CASE cf.type \notin {"ijump", "icall"} /\ cf.target # Null
  <2>1. CASE cf.type = "call"
    <3>1. PostTarget(B, p, m, cf) = PutFlag(B, cf.target, {"call_target"})
      <4>1. PostTarget(B, p, m, cf) = [B EXCEPT ![cf.target].flags = @ \cup {"call_target"}]
        BY <1>7, <2>1 DEF PostTarget
      <4> QED
        BY <4>1 DEF PutFlag, Put, WithFlags
    <3>2. cf.target \in 1..Len(B)
      <4>1. op.target \in 0..Len(B)
        BY <1>3 DEF WfCf
      <4>2. cf.target \in 0..Len(B) /\ cf.target # 0
        BY <1>7, <4>1 DEF Null
      <4>3. Len(B) \in Nat
        BY <1>5
      <4> QED
        BY <4>2, <4>3
    <3> QED
      BY <1>5, <3>1, <3>2, FlagRewires
  <2>2. CASE cf.type # "call"
    BY <1>5, <1>7, <2>2 DEF PostTarget
  <2> QED
    BY <2>1, <2>2
<1>8. CASE cf.type \notin {"ijump", "icall"} /\ cf.target = Null /\ t # Null
  <2>1. t \in 1..Len(B)
    BY <1>5, <1>8 DEF Null
  <2>2. PICK L : L = AddEdgeIfAbsent(LinkTo(B, m, t), b, t)
    OBVIOUS
  <2>3. PostTarget(B, p, m, cf) = IF cf.type = "call" THEN PutFlag(L, t, {"call_target"}) ELSE L
    <3>1. LinkTo(B, m, t) = [B EXCEPT ![m[1]].cfs[m[2]].target = t]
      BY DEF LinkTo, PutCf, Put, WithCfs
    <3>2. L = AddEdgeIfAbsent([B EXCEPT ![m[1]].cfs[m[2]].target = t], m[1], t)
      BY <1>1, <2>2, <3>1
    <3>3. PutFlag(L, t, {"call_target"}) = [L EXCEPT ![t].flags = @ \cup {"call_target"}]
      BY DEF PutFlag, Put, WithFlags
    <3> QED
      BY <1>4, <1>8, <3>2, <3>3 DEF PostTarget
  <2>4. Direct(op)
    BY <1>3, <1>8 DEF WfCf, CfType, Direct
  <2>5. Rewires(B, L, m)
    <3>1. Direct(B[m[1]].cfs[m[2]]) /\ B[m[1]].cfs[m[2]].target = Null
      BY <1>8, <2>4
    <3>2. L = AddEdgeIfAbsent(LinkTo(B, m, t), m[1], t)
      BY <1>1, <2>2
    <3> QED
      BY <2>1, <3>1, <3>2, LinkWired
  <2>6. t \in 1..Len(L) /\ WfBlocks(L) /\ Wired(L)
    <3>1. Len(B) <= Len(L) /\ Len(L) \in Nat
      BY <2>5 DEF Rewires, Extends, WfBlocks, IsSeq
    <3> QED
      BY <1>5, <2>1, <2>5, <3>1 DEF Rewires
  <2>7. Rewires(L, PutFlag(L, t, {"call_target"}), m)
    BY <1>5, <2>6, FlagRewires
  <2> QED
    BY <2>3, <2>5, <2>7, RewiresTransitive
<1>9. CASE cf.type = "syscall" /\ cf.target = Null /\ t = Null
  <2>1. PICK n : n = Len(B) + 1
    OBVIOUS
  <2>2. PICK x : x = [TrapBlock(0) EXCEPT !.end = 0]
    OBVIOUS
  <2>3. PICK A : A = Append(B, x)
    OBVIOUS
  <2>4. PICK C : C = AddEdge(LinkTo(A, m, n), b, n)
    OBVIOUS
  <2>5. PostTarget(B, p, m, cf) = C
    <3>1. LinkTo(A, m, n) = [A EXCEPT ![m[1]].cfs[m[2]].target = n]
      BY DEF LinkTo, PutCf, Put, WithCfs
    <3> QED
      BY <1>1, <1>4, <1>9, <2>1, <2>2, <2>3, <2>4, <3>1 DEF PostTarget
  <2>6. /\ WfBlock(x, n) /\ x.code = {}
        /\ x.cfs = <<Cf("unreachable", 0, 0, Null)>> /\ x.preds = EmptyBag /\ x.succs = EmptyBag
    <3>1. n \in Nat /\ 0 \in 0..N
      BY <1>5, <2>1, NAssumption
    <3> QED
      BY <2>2, <3>1, TrapBlockWf, TrapBlockFields
  <2>7. Rewires(B, A, m)
    BY <2>1, <2>3, <2>6, TrapRewires
  <2>8. /\ WfBlocks(A) /\ Wired(A) /\ Len(A) = n /\ A[b] = B[b]
        /\ n \in 1..n /\ b \in 1..n /\ b # n
    <3>1. Len(A) = n /\ A[b] = B[b]
      BY <1>2, <2>1, <2>3, AppendIsSeq DEF WfBlocks
    <3> QED
      BY <1>2, <1>5, <2>1, <2>7, <3>1 DEF Rewires
  <2>9. Direct(A[m[1]].cfs[m[2]]) /\ A[m[1]].cfs[m[2]].target = Null /\ m[2] \in DOMAIN A[m[1]].cfs
    BY <1>1, <1>2, <1>9, <2>8 DEF Direct
  <2>10. C = AddEdge(LinkTo(A, m, n), m[1], n) /\ m[1] # n /\ m[1] \in 1..Len(A) /\ n \in 1..Len(A)
    BY <1>1, <2>4, <2>8
  <2>11. Rewires(A, C, m)
    BY <2>8, <2>9, <2>10, LinkWired
  <2> QED
    BY <2>5, <2>7, <2>11, RewiresTransitive
<1>10. CASE cf.type \notin {"ijump", "icall", "syscall"} /\ cf.target = Null /\ t = Null
  <2>1. PICK q : q = [op EXCEPT !.type = "unreachable", !.cont = Null]
    OBVIOUS
  <2>2. PostTarget(B, p, m, cf) = PutCf(B, b, k, q)
    BY <1>1, <1>4, <1>10, <2>1 DEF PostTarget, PutCf, Put, WithCfs
  <2>3. q.type = "unreachable" /\ q.cont = Null /\ q.target = op.target
    BY <1>3, <2>1, OpFields
  <2>4. op.cont = Null /\ op.target = Null
    <3>1. cf.type # "call"
      BY <1>4, <1>10 DEF Landed
    <3> QED
      BY <1>3, <1>10, <3>1 DEF Shaped, CallTypes
  <2>5. WfCf(q, Len(B))
    <3>1. PICK n : n = Len(B)
      OBVIOUS
    <3>2. n \in Nat /\ WfCf(op, n)
      BY <1>3, <1>5, <3>1
    <3> QED
      BY <2>1, <3>1, <3>2, CfFieldsWf
  <2>6. Shaped(q, B[b], B)
    BY <2>3, <2>4 DEF Shaped, CallTypes, Direct
  <2>7. \A d \in 1..Len(B) : Points(q, d) <=> Points(B[b].cfs[k], d)
    BY <1>2, <2>3, <2>4 DEF Points
  <2>8. PICK C : C = PutCf(B, b, k, q)
    OBVIOUS
  <2>9. Wired(C) /\ SameExtent(B, C) /\ \A c \in 1..Len(B) : C[c].cfs = CfsBut(B, b, k, q, c)
    BY <1>2, <2>5, <2>6, <2>7, <2>8, OpWired
  <2>10. Follows(q, op)
    BY <2>3 DEF Follows
  <2>11. Rewires(B, C, m)
    BY <1>1, <2>9, <2>10, PutRewires
  <2> QED
    BY <2>2, <2>8, <2>11
<1> QED
  BY <1>6, <1>7, <1>8, <1>9, <1>10

LEMMA RewiredEdges ==
  ASSUME Inv, Edges, phase = "post", NEW m \in todo, Rewires(bbs, bbs', m), phase' = "post", todo' = todo \ {m},
         \A a \in Slots : ptr[a] # Null => ptr'[a] # Null
  PROVE  Edges'
<1>1. /\ Len(bbs) \in Nat /\ Len(bbs') \in Nat /\ todo \subseteq (1..Len(bbs)) \X (Nat \ {0})
      /\ Live /\ ~Lifting
  BY DEF Rewires, Inv, Typed, WfBlocks, IsSeq, Live, Lifting
<1>2. /\ \A b \in 1..Len(bbs) : \A k \in DOMAIN bbs[b].cfs :
           /\ Landed(bbs[b].cfs[k], ptr)
           /\ phase = "scan" \/ (phase = "post" /\ <<b, k>> \in todo) => bbs[b].cfs[k].cont = Null
  BY <1>1, Settled
<1>3. ASSUME NEW b \in 1..Len(bbs'), NEW k \in DOMAIN bbs'[b].cfs
      PROVE  /\ Landed(bbs'[b].cfs[k], ptr')
             /\ phase' = "post" /\ <<b, k>> \in todo' => bbs'[b].cfs[k].cont = Null
  <2>1. CASE b \in 1..Len(bbs)
    <3>1. /\ k \in DOMAIN bbs[b].cfs
          /\ ~(b = m[1] /\ k = m[2]) => bbs'[b].cfs[k] = bbs[b].cfs[k]
          /\ Follows(bbs'[b].cfs[k], bbs[b].cfs[k])
      BY <1>3, <2>1 DEF Rewires
    <3>2. Landed(bbs[b].cfs[k], ptr)
      BY <1>2, <2>1, <3>1
    <3>3. Landed(bbs'[b].cfs[k], ptr')
      BY <3>1, <3>2 DEF Landed, Follows
    <3>4. ASSUME <<b, k>> \in todo'
          PROVE  bbs'[b].cfs[k].cont = Null
      <4>1. <<b, k>> \in todo /\ <<b, k>> # m
        BY <3>4
      <4>2. ~(b = m[1] /\ k = m[2])
        BY <1>1, <4>1
      <4> QED
        BY <1>2, <2>1, <3>1, <4>1, <4>2
    <3> QED
      BY <3>3, <3>4
  <2>2. CASE b \notin 1..Len(bbs)
    <3>1. b \in (Len(bbs) + 1)..Len(bbs')
      BY <1>1, <2>2
    <3>2. bbs'[b].cfs[k].type # "call"
      BY <1>3, <3>1 DEF Rewires
    <3>3. <<b, k>> \notin todo'
      BY <1>1, <2>2
    <3> QED
      BY <3>2, <3>3 DEF Landed
  <2> QED
    BY <2>1, <2>2
<1>4. Wired(bbs')
  BY DEF Rewires
<1> HIDE DEF Landed, Wired
<1> QED
  BY <1>1, <1>3, <1>4, LateEdges

(* The block found behind a call starts there. *)
LEMMA ContinuesAtStart ==
  ASSUME Inv, Disjoint(bbs), Pointers, NEW b \in 1..Len(bbs), NEW i, i = bbs[b].end, i \in bbs[b].code,
         i + 1 \in Slots, ptr[i + 1] # Null
  PROVE  bbs[ptr[i + 1]].start = i + 1
<1> DEFINE a == i + 1
           c == ptr[a]
<1>1. /\ WfBlocks(bbs) /\ Len(bbs) \in Nat /\ c \in 1..Len(bbs)
      /\ \A d \in 1..Len(bbs) : WfBlock(bbs[d], Len(bbs))
  BY DEF Inv, Typed, WfBlocks, IsSeq, Null
<1>2. i \in Slots /\ a \in Slots /\ a \in Int /\ i \in Int /\ a # 0
  BY <1>1 DEF WfBlock, Slots
<1>3. /\ OwnCode(bbs, ptr, 0) /\ OpenAtStart(bbs, ptr) /\ Runs(bbs)
  BY DEF Pointers, Mapped
<1>4. CASE bbs[c].end = 0
  BY <1>2, <1>3, <1>4 DEF OpenAtStart
<1>5. CASE bbs[c].end # 0 /\ a \in bbs[c].code /\ a # bbs[c].start
  <2>1. bbs[c].code = bbs[c].start..bbs[c].end /\ bbs[c].start \in Slots /\ bbs[c].end \in Int
    BY <1>1, <1>3, <1>5 DEF Runs, WfBlock
  <2>2. i \in bbs[c].code
    BY <1>2, <1>5, <2>1 DEF Slots
  <2>3. c = b
    BY <1>1, <2>2 DEF Disjoint
  <2> QED
    BY <1>2, <1>5, <2>1, <2>3
<1>6. a \in bbs[c].code \/ a = bbs[c].start
  BY <1>2, <1>3 DEF OwnCode
<1> QED
  BY <1>4, <1>5, <1>6

LEMMA PostEdges ==
  ASSUME Inv, Disjoint(bbs), Pointers, Edges, Post
  PROVE  Edges'
<1>1. PICK m : m = Least(todo)
  OBVIOUS
<1>2. PICK cf : cf = bbs[m[1]].cfs[m[2]]
  OBVIOUS
<1>3. PICK a : a = cf.instr + 1
  OBVIOUS
<1>4. /\ WfBlocks(bbs) /\ Len(bbs) \in Nat /\ phase = "post" /\ todo # {}
      /\ todo \subseteq (1..Len(bbs)) \X (Nat \ {0})
      /\ \A o \in todo : o[2] \in DOMAIN bbs[o[1]].cfs
      /\ ptr \in [Slots -> 0..Len(bbs)] /\ N \in Nat /\ Live /\ ~Lifting
  BY NAssumption DEF Inv, Typed, Control, WfBlocks, IsSeq, Post, Live, Lifting
<1>5. m \in todo /\ m[1] \in 1..Len(bbs) /\ m[2] \in DOMAIN bbs[m[1]].cfs /\ m = <<m[1], m[2]>>
  <2>1. todo \subseteq Nat \X Nat
    BY <1>4
  <2>2. Least(todo) \in todo
    BY <1>4, <2>1, LeastIn
  <2> QED
    BY <1>1, <1>4, <2>2
<1>6. /\ PostPass(m, cf) \/ PostJump(m, cf) \/ PostCall(m, cf) \/ PostCallTrap(m, cf) \/ PostCrash(m, cf)
      /\ UNCHANGED <<prog, pos, cur, cfi, req, needs, entry, found>>
  BY <1>1, <1>2, Zenon DEF Post
<1>7. Wired(bbs) /\ Landed(cf, ptr) /\ cf.cont = Null
  <2>1. /\ Wired(bbs)
        /\ \A b \in 1..Len(bbs) : \A k \in DOMAIN bbs[b].cfs :
              /\ Landed(bbs[b].cfs[k], ptr)
              /\ phase = "scan" \/ (phase = "post" /\ <<b, k>> \in todo) => bbs[b].cfs[k].cont = Null
    BY <1>4, Settled
  <2> QED
    BY <1>2, <1>4, <1>5, <2>1
<1>8. WfCf(cf, Len(bbs)) /\ Shaped(cf, bbs[m[1]], bbs)
  BY <1>2, <1>4, <1>5, <1>7, OpOfBlock DEF Wired
<1>9. CASE PostPass(m, cf) \/ PostCrash(m, cf)
  <2>1. CASE PostCrash(m, cf)
    <3>1. UNCHANGED <<bbs, ptr>> /\ phase' = "crashed"
      BY <2>1 DEF PostCrash
    <3> QED
      BY <1>4, <3>1, SameEdges
  <2>2. CASE PostPass(m, cf)
    <3>1. UNCHANGED <<bbs, ptr>> /\ phase' = "post" /\ todo' = todo \ {m}
      BY <2>2 DEF PostPass, PostGoOn
    <3>2. Rewires(bbs, bbs', m)
      <4>1. {} \in SUBSET Flags
        OBVIOUS
      <4> QED
        BY <1>4, <1>5, <1>7, <3>1, <4>1, FlagRewires
    <3> QED
      BY <1>4, <1>5, <3>1, <3>2, RewiredEdges
  <2> QED
    BY <1>9, <2>1, <2>2
<1>10. CASE PostJump(m, cf)
  <2>1. /\ bbs' = PostTarget(bbs, ptr, m, cf) /\ ptr' = ptr /\ phase' = "post" /\ todo' = todo \ {m}
        /\ cf.type \notin {"ret", "unreachable"}
    BY <1>10 DEF PostJump, PostGoOn
  <2>2. Rewires(bbs, PostTarget(bbs, ptr, m, cf), m)
    <3> HIDE DEF Landed, Wired
    <3> QED
      BY <1>2, <1>4, <1>5, <1>7, <2>1, PostTargetWired
  <2> QED
    BY <1>4, <1>5, <2>1, <2>2, RewiredEdges
<1>11. CASE PostCall(m, cf)
  <2>1. PICK c : c = ptr[a]
    OBVIOUS
  <2>2. PICK B : B = WithCont(bbs, m, c)
    OBVIOUS
  <2>3. a \in Slots /\ c \in 1..Len(bbs) /\ cf.type \in CallTypes
    BY <1>3, <1>11, <2>1, BlockAtLifted DEF PostCall, CallTypes
  <2>4. /\ bbs' = PostTarget(B, ptr, m, cf) /\ ptr' = ptr /\ phase' = "post" /\ todo' = todo \ {m}
        /\ cf.type \notin {"ret", "unreachable"}
    BY <1>3, <1>11, <2>1, <2>2 DEF PostCall, PostGoOn
  <2>5. bbs[c].start = cf.instr + 1
    <3>1. cf.instr = bbs[m[1]].end /\ cf.instr \in bbs[m[1]].code
      BY <1>8, <2>3 DEF Shaped
    <3>2. PICK i : i = cf.instr
      OBVIOUS
    <3>3. ptr[i + 1] # Null /\ i + 1 \in Slots /\ c = ptr[i + 1]
      BY <1>3, <2>1, <2>3, <3>2 DEF Null
    <3> QED
      BY <1>5, <3>1, <3>2, <3>3, ContinuesAtStart
  <2>6. /\ Rewires(bbs, B, m)
        /\ B[m[1]].cfs[m[2]].type = cf.type
        /\ B[m[1]].cfs[m[2]].jump = cf.jump
        /\ B[m[1]].cfs[m[2]].target = cf.target
    <3> HIDE DEF Wired
    <3> QED
      BY <1>2, <1>4, <1>5, <1>7, <2>2, <2>3, <2>5, WithContWired
  <2>7. WfBlocks(B) /\ Wired(B) /\ m[1] \in 1..Len(B) /\ m[2] \in DOMAIN B[m[1]].cfs /\ ptr \in [Slots -> 0..Len(B)]
    <3>1. Len(bbs) <= Len(B) /\ Len(B) \in Nat
      BY <2>6 DEF Rewires, Extends, WfBlocks, IsSeq
    <3>2. 0..Len(bbs) \subseteq 0..Len(B)
      BY <1>4, <3>1
    <3> QED
      BY <1>4, <1>5, <2>6, <3>1, <3>2 DEF Rewires
  <2>8. Rewires(B, PostTarget(B, ptr, m, cf), m)
    <3>1. PICK op : op = B[m[1]].cfs[m[2]]
      OBVIOUS
    <3>2. cf.type = op.type /\ cf.jump = op.jump /\ cf.target = op.target
      BY <2>6, <3>1
    <3> HIDE DEF Landed, Wired
    <3> QED
      BY <1>7, <2>4, <2>7, <3>1, <3>2, PostTargetWired
  <2>9. Rewires(bbs, bbs', m)
    BY <1>4, <2>4, <2>6, <2>8, RewiresTransitive
  <2> QED
    BY <1>4, <1>5, <2>4, <2>9, RewiredEdges
<1>12. CASE PostCallTrap(m, cf)
  <2>1. PICK n : n = Len(bbs) + 1
    OBVIOUS
  <2>2. PICK x : x = TrapBlock(a)
    OBVIOUS
  <2>3. PICK A : A = Append(bbs, x)
    OBVIOUS
  <2>4. PICK B : B = WithCont(A, m, n)
    OBVIOUS
  <2>5. PICK p : p = ptr'
    OBVIOUS
  <2>6. /\ a \in Slots /\ ptr[a] = Null /\ p = [ptr EXCEPT ![a] = n]
        /\ bbs' = PostTarget(B, p, m, cf) /\ phase' = "post" /\ todo' = todo \ {m}
        /\ cf.type \in CallTypes /\ cf.type \notin {"ret", "unreachable"}
    BY <1>3, <1>12, <2>1, <2>2, <2>3, <2>4, <2>5 DEF PostCallTrap, PostGoOn, CallTypes
  <2>7. WfBlock(x, n) /\ x.code = {} /\ x.start = a
        /\ x.cfs = <<Cf("unreachable", 0, 0, Null)>> /\ x.preds = EmptyBag /\ x.succs = EmptyBag
    <3>1. n \in Nat /\ a \in 0..N
      BY <1>4, <2>1, <2>6 DEF Slots
    <3> QED
      BY <2>2, <3>1, TrapBlockWf, TrapBlockFields
  <2>8. Rewires(bbs, A, m)
    <3> HIDE DEF Wired
    <3> QED
      BY <1>4, <1>7, <2>1, <2>3, <2>7, TrapRewires
  <2>9. /\ WfBlocks(A) /\ Wired(A) /\ Len(A) = n /\ n \in 1..n /\ m[1] \in 1..n
        /\ A[n].start = a /\ A[m[1]] = bbs[m[1]]
    <3>1. Len(A) = n /\ A[n] = x /\ A[m[1]] = bbs[m[1]]
      BY <1>4, <1>5, <2>1, <2>3, AppendIsSeq DEF WfBlocks
    <3> QED
      BY <1>4, <1>5, <2>1, <2>7, <2>8, <3>1 DEF Rewires
  <2>10. /\ Rewires(A, B, m)
         /\ B[m[1]].cfs[m[2]].type = cf.type
         /\ B[m[1]].cfs[m[2]].jump = cf.jump
         /\ B[m[1]].cfs[m[2]].target = cf.target
    <3>1. /\ m[1] \in 1..Len(A) /\ n \in 1..Len(A) /\ m[2] \in DOMAIN A[m[1]].cfs /\ cf = A[m[1]].cfs[m[2]]
          /\ A[n].start = cf.instr + 1
      BY <1>2, <1>3, <1>5, <2>9
    <3>2. WfBlocks(A) /\ Wired(A) /\ cf.type \in CallTypes /\ cf.cont = Null
      BY <1>7, <2>6, <2>9
    <3> QED
      BY <2>4, <3>1, <3>2, WithContWired
  <2>11. WfBlocks(B) /\ Wired(B) /\ m[1] \in 1..Len(B) /\ m[2] \in DOMAIN B[m[1]].cfs /\ p \in [Slots -> 0..Len(B)]
    <3>1. n <= Len(B) /\ Len(B) \in Nat
      BY <2>9, <2>10 DEF Rewires, Extends, WfBlocks, IsSeq
    <3>2. 0..Len(bbs) \subseteq 0..Len(B) /\ n \in 0..Len(B)
      BY <1>4, <2>1, <3>1
    <3>3. p \in [Slots -> 0..Len(B)]
      BY <1>4, <2>6, <3>2
    <3>4. m[2] \in DOMAIN B[m[1]].cfs
      BY <1>5, <2>9, <2>10 DEF Rewires
    <3> QED
      BY <1>4, <2>1, <2>9, <2>10, <3>1, <3>3, <3>4 DEF Rewires
  <2>12. Landed(cf, p) /\ \A s \in Slots : ptr[s] # Null => p[s] # Null
    <3>1. \A s \in Slots : ptr[s] # Null => p[s] # Null
      BY <1>4, <2>1, <2>6 DEF Null
    <3> QED
      BY <1>7, <3>1 DEF Landed
  <2>13. Rewires(B, PostTarget(B, p, m, cf), m)
    <3>1. PICK op : op = B[m[1]].cfs[m[2]]
      OBVIOUS
    <3>2. cf.type = op.type /\ cf.jump = op.jump /\ cf.target = op.target
      BY <2>10, <3>1
    <3> HIDE DEF Landed, Wired
    <3> QED
      BY <2>6, <2>11, <2>12, <3>1, <3>2, PostTargetWired
  <2>14. Rewires(bbs, bbs', m)
    <3>1. Rewires(A, bbs', m)
      BY <2>6, <2>9, <2>10, <2>13, RewiresTransitive
    <3> QED
      BY <1>4, <2>8, <3>1, RewiresTransitive
  <2> QED
    BY <1>4, <1>5, <2>5, <2>6, <2>12, <2>14, RewiredEdges
<1> QED
  BY <1>6, <1>9, <1>10, <1>11, <1>12

-----------------------------------------------------------------------------
(* Lifter::process_ijumps and the entry block.                             *)

LEMMA RegisterEdges ==
  ASSUME Inv, Edges, NEW a \in 0..(N + 1), RegisterAddr(a)
  PROVE  Edges'
<1>1. PICK b : b = IF a = 0 THEN Dummy ELSE BlockAt(a)
  OBVIOUS
<1>2. /\ phase = "register" /\ ptr' = ptr
      /\ bbs' = IF b = Null THEN bbs ELSE [bbs EXCEPT ![b].flags = @ \cup {"needs_trans_bb"}]
      /\ phase' \in {"register", "split"} /\ (phase' = "split" => req'.back = "register")
  BY <1>1 DEF RegisterAddr
<1>3. /\ WfBlocks(bbs) /\ Len(bbs) \in Nat /\ b \in 0..Len(bbs) /\ Live /\ ~Lifting
  BY <1>1, <1>2 DEF Inv, Typed, Control, WfBlocks, IsSeq, Live, Lifting, BlockAt, Dummy, Null
<1>4. /\ Wired(bbs)
      /\ \A c \in 1..Len(bbs) : \A k \in DOMAIN bbs[c].cfs : Landed(bbs[c].cfs[k], ptr)
  BY <1>3, Settled
<1>5. Wired(bbs') /\ Len(bbs') = Len(bbs) /\ \A c \in 1..Len(bbs) : bbs'[c].cfs = bbs[c].cfs
  <2>1. CASE b = Null
    BY <1>2, <1>4, <2>1
  <2>2. CASE b # Null
    <3>1. bbs' = PutFlag(bbs, b, {"needs_trans_bb"})
      BY <1>2, <2>2 DEF PutFlag, Put, WithFlags
    <3>2. b \in 1..Len(bbs) /\ {"needs_trans_bb"} \in SUBSET Flags
      BY <1>3, <2>2 DEF Null, Flags
    <3> HIDE DEF Wired
    <3> QED
      BY <1>3, <1>4, <3>1, <3>2, FlagWired, PutFlagGrows
  <2> QED
    BY <2>1, <2>2
<1>6. \A c \in 1..Len(bbs') : \A k \in DOMAIN bbs'[c].cfs :
        /\ Landed(bbs'[c].cfs[k], ptr')
        /\ phase' = "post" /\ <<c, k>> \in todo' => bbs'[c].cfs[k].cont = Null
  BY <1>2, <1>4, <1>5
<1> QED
  BY <1>2, <1>3, <1>5, <1>6, LateEdges

LEMMA SoleConnected ==
  ASSUME NEW B, NEW b, NEW t, B[b].cfs = <<Cf("jump", 0, 0, t)>>
  PROVE  \A d : d # Null => (Connected(B, b, d) <=> d = t)
<1>1. PICK u : u = Cf("jump", 0, 0, t)
  OBVIOUS
<1>2. DOMAIN B[b].cfs = {1} /\ B[b].cfs[1] = u
  BY <1>1, SingleIsSeq
<1>3. u.target = t /\ u.cont = Null
  BY <1>1 DEF Cf
<1> QED
  BY <1>2, <1>3 DEF Connected, Points

(* The entry block goes to the block at the entry address. *)
LEMMA AddEntryEdges ==
  ASSUME Inv, Edges, AddEntry
  PROVE  Edges'
<1>1. PICK n : n = Len(bbs) + 1
  OBVIOUS
<1>2. PICK x : x = [EmptyBlock(0) EXCEPT !.cfs = <<Cf("jump", 0, 0, entry)>>]
  OBVIOUS
<1>3. PICK A : A = Append(bbs, x)
  OBVIOUS
<1>4. PICK E : E = Append(bbs, EmptyBlock(0))
  OBVIOUS
<1>5. PICK D : D = AddEdge(A, n, entry)
  OBVIOUS
<1>6. bbs' = D /\ phase = "ijumps" /\ phase' = "done"
  BY <1>1, <1>2, <1>3, <1>5 DEF AddEntry
<1>7. /\ WfBlocks(bbs) /\ Len(bbs) \in Nat /\ entry \in 1..Len(bbs) /\ Wired(bbs)
      /\ 0 \in 0..N /\ N \in Nat /\ n \in Nat /\ entry \in 1..n /\ n \in 1..n
  BY <1>1, <1>6, NAssumption DEF Inv, Typed, Control, WfBlocks, IsSeq, Null, Lifting, Edges, Live, Wired
<1>8. /\ Wired(E) /\ Len(E) = n /\ E[n] = EmptyBlock(0)
      /\ \A b \in 1..Len(bbs) : E[b] = bbs[b]
  <2> HIDE DEF Wired
  <2> QED
    BY <1>1, <1>4, <1>7, EmptyWired
<1>9. /\ x.cfs = <<Cf("jump", 0, 0, entry)>>
      /\ x.preds = EmptyBlock(0).preds /\ x.succs = EmptyBlock(0).succs
      /\ EmptyBlock(0).cfs = <<>>
  BY <1>2 DEF EmptyBlock
<1>10. WfBlock(x, n)
  <2>1. WfBlock(EmptyBlock(0), n)
    BY <1>7, EmptyBlockWf
  <2>2. WfCf(Cf("jump", 0, 0, entry), n)
    <3>1. 0 \in 0..(N + 1) /\ entry \in 0..n
      BY <1>7
    <3> QED
      BY <1>7, <3>1, CfWf DEF CfType
  <2>3. WfCfs(<<Cf("jump", 0, 0, entry)>>, n)
    BY <2>2, SingleIsSeq DEF WfCfs
  <2>4. x = WithCfs(EmptyBlock(0), <<Cf("jump", 0, 0, entry)>>)
    BY <1>2 DEF WithCfs
  <2> QED
    BY <2>1, <2>3, <2>4, FieldsWf
<1>11. /\ WfBlocks(A) /\ Len(A) = n /\ A[n] = x
       /\ \A b \in 1..Len(bbs) : A[b] = bbs[b]
  BY <1>1, <1>3, <1>7, <1>10, AppendBlockWf, AppendIsSeq DEF WfBlocks
<1>12. \A b \in 1..n : b \in 1..Len(bbs) \/ b = n
  BY <1>1, <1>7
<1>13. \A b \in 1..n : A[b].preds = E[b].preds /\ A[b].succs = E[b].succs
  BY <1>8, <1>9, <1>11, <1>12
<1>14. /\ PredsGain(A, D, n, entry) /\ SuccsGain(A, D, n, entry)
       /\ Len(D) = n /\ \A b \in 1..n : D[b].cfs = A[b].cfs
  BY <1>5, <1>7, <1>11, AddEdgeGains, AddEdgeSame DEF SameExtent
<1>15. PredsGain(E, D, n, entry) /\ SuccsGain(E, D, n, entry)
  BY <1>8, <1>11, <1>13, <1>14 DEF PredsGain, SuccsGain
<1>16. \A c, d \in 1..n : Connected(D, c, d) <=> Connected(E, c, d) \/ (c = n /\ d = entry)
  <2> TAKE c, d \in 1..n
  <2>1. d # Null
    BY <1>7 DEF Null
  <2>2. CASE c = n
    <3>1. D[n].cfs = <<Cf("jump", 0, 0, entry)>>
      BY <1>7, <1>9, <1>11, <1>14
    <3>2. Connected(D, n, d) <=> d = entry
      BY <2>1, <3>1, SoleConnected
    <3>3. DOMAIN E[n].cfs = {}
      BY <1>8, <1>9, EmptyIsSeq DEF IsSeq
    <3> QED
      BY <2>2, <3>2, <3>3 DEF Connected
  <2>3. CASE c # n
    <3>1. D[c].cfs = E[c].cfs
      BY <1>8, <1>11, <1>12, <1>14, <2>3
    <3> QED
      BY <2>3, <3>1 DEF Connected
  <2> QED
    BY <2>2, <2>3
<1>17. Matched(D)
  BY <1>7, <1>8, <1>14, <1>15, <1>16, EdgeMatched DEF Wired
<1> QED
  BY <1>6, <1>17 DEF Edges, Live

-----------------------------------------------------------------------------
(* The loop over the operations.                                           *)

(* One operation of cur is resolved to cf, or waits for the split.         *)
LEMMA ResolvedEdges ==
  ASSUME Inv, Jumps, Edges, phase = "cf", SameExtent(bbs, bbs'), Wired(bbs'), UNCHANGED <<prog, ptr>>,
         needs \subseteq needs',
         NEW cf, \A c \in 1..Len(bbs) : bbs'[c].cfs = CfsBut(bbs, cur, cfi, cf, c),
         cf.cont = Null, Direct(cf) => Direct(CurCf) /\ cf.jump = CurCf.jump,
         \/ NextCf(cur) /\ Lands(cf)'
         \/ phase' = "split" /\ req'.back = "cf" /\ UNCHANGED <<pos, cur, cfi>>
  PROVE  Edges'
<1>1. PICK I : I = Issued
  OBVIOUS
<1>2. /\ Len(bbs) \in Nat /\ cur \in 1..Len(bbs) /\ cur # Null /\ pos \in Int /\ Horizon = pos
      /\ DOMAIN bbs[cur].cfs = 1..Len(I) /\ cfi \in 1..Len(I) /\ Len(I) \in Nat
      /\ Len(bbs[cur].cfs) = Len(I)
      /\ CurCf = I[cfi]
  BY <1>1, CurrentIssued
<1>3. \/ phase' = "cf" /\ cfi' = cfi + 1 /\ cfi < Len(I) /\ cur' = cur /\ pos' = pos /\ Lands(cf)'
      \/ phase' = "scan" /\ cfi = Len(I) /\ cur' = Null /\ pos' = pos + 1 /\ Lands(cf)'
      \/ phase' = "split" /\ req'.back = "cf" /\ UNCHANGED <<pos, cur, cfi>>
  BY <1>2 DEF NextCf
<1>4. Lifting /\ Lifting' /\ Live /\ Horizon' = pos
  BY <1>2, <1>3 DEF Lifting, Live, Horizon
<1>5. /\ Len(bbs') = Len(bbs)
      /\ \A b \in 1..Len(bbs) : /\ DOMAIN bbs'[b].cfs = DOMAIN bbs[b].cfs
                                /\ bbs'[b].code = bbs[b].code /\ bbs'[b].end = bbs[b].end
      /\ \A b \in 1..Len(bbs) : \A k \in DOMAIN bbs[b].cfs :
           bbs'[b].cfs[k] = IF b = cur /\ k = cfi THEN cf ELSE bbs[b].cfs[k]
  BY DEF CfsBut, SameExtent, Extends
<1>6. /\ Unvisited /\ AllLand /\ AsIssued /\ DataEnds
  BY <1>4 DEF Edges
<1>7. \A a \in Slots : Awaits(a) => Awaits(a)'
  BY <1>2, <1>4 DEF Awaits, IsInstr
<1>8. \A o : Lands(o) => Lands(o)'
  <2> HIDE DEF Awaits, Lands
  <2> QED
    BY <1>7, LandsKept
<1>9. Unvisited'
  BY <1>4, <1>5, <1>6 DEF Unvisited
<1>10. AllLand'
  <2> SUFFICES ASSUME NEW b \in 1..Len(bbs), NEW k \in DOMAIN bbs[b].cfs
               PROVE  Waiting(b, k)' \/ Lands(bbs[b].cfs[k])'
    <3>1. \A b \in 1..Len(bbs') : b \in 1..Len(bbs) /\ DOMAIN bbs'[b].cfs = DOMAIN bbs[b].cfs
      BY <1>5
    <3> HIDE DEF Waiting, Lands
    <3> QED
      BY <1>5, <3>1 DEF AllLand
  <2>1. CASE b = cur /\ k = cfi
    <3>1. bbs'[b].cfs[k] = cf
      BY <1>5, <2>1
    <3>2. phase' = "split" /\ UNCHANGED <<pos, cur, cfi>> => Waiting(b, k)'
      BY <1>2, <1>4, <2>1 DEF Waiting
    <3> HIDE DEF Waiting
    <3> QED
      BY <1>3, <3>1, <3>2 DEF Lands
  <2>2. CASE ~(b = cur /\ k = cfi)
    <3>1. bbs'[b].cfs[k] = bbs[b].cfs[k]
      BY <1>5, <2>2
    <3>2. Waiting(b, k) => b = cur /\ k \in 1..Len(I) /\ k > cfi
      BY <1>2, <2>2 DEF Waiting
    <3>3. Waiting(b, k) => Waiting(b, k)'
      BY <1>2, <1>3, <1>4, <3>2 DEF Waiting
    <3>4. Waiting(b, k) \/ Lands(bbs[b].cfs[k])
      BY <1>6 DEF AllLand
    <3>5. Lands(bbs[b].cfs[k]) => Lands(bbs[b].cfs[k])'
      <4>1. PICK o : o = bbs[b].cfs[k]
        OBVIOUS
      <4>2. bbs'[b].cfs[k] = o
        BY <3>1, <4>1
      <4>3. Lands(o)' => Lands(bbs[b].cfs[k])'
        BY <4>2 DEF Lands
      <4>4. Lands(o) => Lands(o)'
        BY <1>8
      <4> QED
        BY <4>1, <4>3, <4>4 DEF Lands
    <3> QED
      BY <3>3, <3>4, <3>5
  <2> QED
    BY <2>1, <2>2
<1>11. AsIssued'
  <2> SUFFICES ASSUME phase' # "scan", NEW k \in DOMAIN bbs'[cur'].cfs, Direct(bbs'[cur'].cfs[k])
               PROVE  bbs'[cur'].cfs[k].jump = Issued'[k].jump
    BY DEF AsIssued, Direct
  <2>1. cur' = cur /\ pos' = pos
    BY <1>3
  <2>2. Issued' = I
    BY <1>1, <2>1 DEF Issued
  <2>3. k \in DOMAIN bbs[cur].cfs /\ bbs'[cur].cfs[k] = IF k = cfi THEN cf ELSE bbs[cur].cfs[k]
    BY <1>2, <1>5, <2>1
  <2>4. \A l \in DOMAIN bbs[cur].cfs : Direct(bbs[cur].cfs[l]) => bbs[cur].cfs[l].jump = I[l].jump
    BY <1>1, <1>4, <1>6 DEF AsIssued
  <2> HIDE DEF Direct, CurCf
  <2> QED
    BY <1>2, <2>1, <2>2, <2>3, <2>4
<1>12. DataEnds'
  <2>1. \A b \in 1..Len(bbs) : Ended(bbs, b, pos)
    BY <1>2, <1>4, <1>6 DEF DataEnds
  <2>2. PICK C : C = bbs'
    OBVIOUS
  <2>3. \A b \in 1..Len(bbs) : Ended(C, b, pos)
    <3> TAKE b \in 1..Len(bbs)
    <3>1. Ended(bbs, b, pos) /\ C[b].code = bbs[b].code /\ C[b].end = bbs[b].end
      BY <1>5, <2>1, <2>2
    <3> HIDE DEF Ended
    <3> QED
      BY <1>2, <3>1, EndedLater
  <2> QED
    BY <1>4, <1>5, <2>2, <2>3 DEF DataEnds, Ended, IsInstr
<1> QED
  BY <1>9, <1>10, <1>11, <1>12 DEF Edges, Wired

(* What the loop knows of the operation it looks at.                       *)
LEMMA CurrentOp ==
  ASSUME Inv, Jumps, Edges, phase = "cf"
  PROVE  /\ WfBlocks(bbs) /\ Wired(bbs) /\ cur \in 1..Len(bbs) /\ cfi \in DOMAIN bbs[cur].cfs
         /\ CurCf.target = Null /\ CurCf.cont = Null
         /\ WfCf(CurCf, Len(bbs)) /\ Shaped(CurCf, bbs[cur], bbs)
         /\ CurCf.type = "call" => prog[pos].kind = "call" /\ CurCf.jump = prog[pos].t
         /\ prog[pos].kind = "table" => ~Direct(CurCf)
<1>1. PICK I : I = Issued
  OBVIOUS
<1>2. /\ WfBlocks(bbs) /\ cur \in 1..Len(bbs) /\ cfi \in 1..Len(I) /\ DOMAIN bbs[cur].cfs = 1..Len(I)
      /\ CurCf = I[cfi] /\ CurCf.target = Null /\ pos \in Slots
      /\ prog[pos].kind = "table" => ~Direct(CurCf)
  BY <1>1, CurrentIssued
<1>3. Wired(bbs) /\ CurCf.cont = Null
  BY <1>2 DEF Edges, Live, Wired, Unvisited, Lifting, CurCf
<1>4. WfCf(CurCf, Len(bbs)) /\ Shaped(CurCf, bbs[cur], bbs)
  BY <1>2, <1>3, OpOfBlock DEF Wired, CurCf
<1>5. CurCf.type = "call" => prog[pos].kind = "call" /\ CurCf.jump = prog[pos].t
  <2>1. prog[pos] \in Instr /\ I = CfsOf(prog[pos], pos)
    BY <1>1, <1>2, InstrAssumption DEF Inv, Typed, Issued
  <2>2. \A k \in DOMAIN I : I[k].type = "call" => prog[pos].kind = "call" /\ I[k].jump = prog[pos].t
    BY <1>2, <2>1, IssuedCalls
  <2>3. cfi \in DOMAIN I
    <3>1. IsSeq(I)
      BY <1>2, <2>1, IssuedShape
    <3> QED
      BY <1>2, <3>1 DEF IsSeq
  <2> QED
    BY <1>2, <2>2, <2>3
<1> HIDE DEF CurCf, Wired, Shaped, WfCf
<1> QED
  BY <1>2, <1>3, <1>4, <1>5

LEMMA ResolveReturnEdges ==
  ASSUME Inv, Jumps, Edges, ResolveReturn
  PROVE  Edges'
<1>1. PICK cf : cf = CurCf
  OBVIOUS
<1>2. /\ phase = "cf" /\ cf.type = "ret" /\ NextCf(cur) /\ UNCHANGED <<prog, ptr>>
      /\ bbs' = bbs /\ needs \subseteq needs'
  BY <1>1 DEF ResolveReturn
<1>3. WfBlocks(bbs) /\ Wired(bbs) /\ cf.cont = Null
  BY <1>1, <1>2, CurrentOp
<1>4. SameExtent(bbs, bbs') /\ Wired(bbs')
  BY <1>2, <1>3, ExtendsReflexive DEF SameExtent, Wired, AllShaped, Shaped, Matched, Simple, Connected
<1>5. \A c \in 1..Len(bbs) : bbs'[c].cfs = CfsBut(bbs, cur, cfi, cf, c)
  BY <1>1, <1>2, <1>3, CfsButSame DEF CurCf
<1>6. Lands(cf)'
  BY <1>2 DEF Lands
<1> HIDE DEF Lands, NextCf, CurCf, Jumps, Inv, Wired, SameExtent
<1> QED
  BY <1>1, <1>2, <1>3, <1>4, <1>5, <1>6, ResolvedEdges

(* An address that is behind, where no block is found, is one that data    *)
(* follows.                                                                *)
LEMMA UnknownBehind ==
  ASSUME Inv, CodePartition, Pointers, Edges, phase = "cf", NEW a \in Slots, IsInstr(a), a <= pos, ptr[a] = Null
  PROVE  \E j \in a..pos : ~IsInstr(j)
<1>1. /\ Len(bbs) \in Nat /\ DOMAIN bbs = 1..Len(bbs) /\ pos \in Int /\ a \in Int /\ Horizon = pos
      /\ Lifting /\ Live
  BY DEF Inv, Typed, WfBlocks, IsSeq, Slots, Horizon, Lifting, Live
<1>2. Lifted(a)
  BY <1>1 DEF Lifted
<1>3. PICK b \in 1..Len(bbs) : a \in bbs[b].code
  BY <1>1, <1>2 DEF CodePartition, BlockIds
<1>4. bbs[b].end = 0
  BY <1>1, <1>3 DEF Pointers, Mapped, FoundInCode, Null
<1>5. Ended(bbs, b, pos)
  BY <1>1 DEF Edges, DataEnds
<1>6. PICK j \in (a + 1)..pos : ~IsInstr(j)
  BY <1>3, <1>4, <1>5 DEF Ended
<1>7. j \in a..pos
  BY <1>1
<1> QED
  BY <1>6, <1>7

(* The target of a call that has no block yet will get one: the scan has   *)
(* not come to it.                                                         *)
LEMMA ResolveUnknownEdges ==
  ASSUME CallsLand, Inv, CodePartition, Pointers, Jumps, Edges, ResolveUnknown
  PROVE  Edges'
<1>1. /\ phase = "cf" /\ BlockAt(CurCf.jump) = Null /\ NextCf(cur) /\ UNCHANGED <<prog, ptr>>
      /\ needs \subseteq needs' /\ {CurCf.jump} \cap Slots \subseteq needs'
      /\ bbs' = IF TableEntries = {} THEN bbs
                ELSE [bbs EXCEPT ![cur].cfs[cfi] = [@ EXCEPT !.addrs = TableEntries, !.jump = prog[pos].t]]
  BY DEF ResolveUnknown
<1>2. PICK op : op = CurCf
  OBVIOUS
<1>3. /\ WfBlocks(bbs) /\ Wired(bbs) /\ cur \in 1..Len(bbs) /\ cfi \in DOMAIN bbs[cur].cfs
      /\ op.target = Null /\ op.cont = Null
      /\ WfCf(op, Len(bbs)) /\ Shaped(op, bbs[cur], bbs)
      /\ op.type = "call" => prog[pos].kind = "call" /\ op.jump = prog[pos].t
      /\ prog[pos].kind = "table" => ~Direct(op)
  BY <1>1, <1>2, CurrentOp
<1>4. Len(bbs) \in Nat /\ pos \in Slots /\ pos \in Int /\ N \in Nat
  BY <1>1, NAssumption DEF Inv, Typed, Control, Lifting, WfBlocks, IsSeq, Slots
<1>5. PICK cf : cf = IF TableEntries = {} THEN op ELSE [op EXCEPT !.addrs = TableEntries, !.jump = prog[pos].t]
  OBVIOUS
<1>6. /\ SameExtent(bbs, bbs') /\ Wired(bbs')
      /\ \A c \in 1..Len(bbs) : bbs'[c].cfs = CfsBut(bbs, cur, cfi, cf, c)
      /\ cf.cont = Null /\ (Direct(cf) => Direct(op) /\ cf.jump = op.jump)
      /\ TableEntries # {} => cf.type # "call"
  <2>1. CASE TableEntries = {}
    <3>1. SameExtent(bbs, bbs') /\ Wired(bbs')
      BY <1>1, <1>3, <2>1, ExtendsReflexive DEF SameExtent, Wired, AllShaped, Shaped, Matched, Simple, Connected
    <3>2. \A c \in 1..Len(bbs) : bbs'[c].cfs = CfsBut(bbs, cur, cfi, cf, c)
      BY <1>1, <1>2, <1>3, <1>5, <2>1, CfsButSame DEF CurCf
    <3> QED
      BY <1>3, <1>5, <2>1, <3>1, <3>2
  <2>2. CASE TableEntries # {}
    <3>1. prog[pos].t \in 0..(N + 1) /\ TableEntries \in SUBSET Slots /\ prog[pos].kind = "table"
      <4>1. prog[pos] \in Instr
        BY <1>4, InstrAssumption DEF Inv, Typed
      <4> QED
        BY <2>2, <4>1, NAssumption DEF Instr, Targets, TableEntries
    <3>2. /\ cf.type = op.type /\ cf.target = Null /\ cf.cont = Null /\ cf.instr = op.instr
          /\ ~Direct(cf) /\ cf.type # "call"
      BY <1>3, <1>5, <2>2, <3>1 DEF WfCf, CfFields, Direct
    <3>3. WfCf(cf, Len(bbs))
      <4> HIDE DEF WfCf
      <4> QED
        BY <1>3, <1>4, <1>5, <2>2, <3>1, CfFieldsWf
    <3>4. PICK C : C = bbs'
      OBVIOUS
    <3>5. C = PutCf(bbs, cur, cfi, cf)
      BY <1>1, <1>2, <1>5, <2>2, <3>4 DEF PutCf, Put, WithCfs, CurCf
    <3>6. Shaped(cf, bbs[cur], bbs)
      BY <1>3, <3>2 DEF Shaped
    <3>7. \A d \in 1..Len(bbs) : Points(cf, d) <=> Points(bbs[cur].cfs[cfi], d)
      BY <1>2, <1>3, <3>2 DEF Points, CurCf
    <3>8. Wired(C) /\ SameExtent(bbs, C) /\ \A c \in 1..Len(bbs) : C[c].cfs = CfsBut(bbs, cur, cfi, cf, c)
      <4> HIDE DEF Wired, SameExtent, WfCf, Shaped, Points
      <4> QED
        BY <1>3, <3>3, <3>5, <3>6, <3>7, OpWired
    <3>9. SameExtent(bbs, bbs') /\ Wired(bbs') /\ \A c \in 1..Len(bbs) : bbs'[c].cfs = CfsBut(bbs, cur, cfi, cf, c)
      BY <3>4, <3>8 DEF SameExtent, Wired, AllShaped, Shaped, Matched, Simple, Connected
    <3> QED
      BY <2>2, <3>2, <3>9
  <2> QED
    BY <2>1, <2>2
<1>7. Lands(cf)'
  <2> SUFFICES ASSUME cf.type = "call"
               PROVE  cf.jump \in Slots /\ (ptr'[cf.jump] # Null \/ Awaits(cf.jump)')
    BY DEF Lands
  <2>1. cf = op /\ prog[pos].kind = "call" /\ op.jump = prog[pos].t
    BY <1>3, <1>5, <1>6
  <2>2. PICK a : a = op.jump
    OBVIOUS
  <2>3. IsInstr(a) /\ \A j \in a..pos : IsInstr(j)
    BY <1>4, <2>1, <2>2 DEF CallsLand
  <2>4. a \in Slots /\ a \in Int /\ ptr[a] = Null /\ a \in needs'
    BY <1>1, <1>2, <2>2, <2>3 DEF BlockAt, IsInstr, Slots
  <2>5. a > pos
    BY <1>1, <1>4, <2>3, <2>4, UnknownBehind
  <2>6. Horizon' = pos
    BY <1>1, <1>4 DEF NextCf, Horizon
  <2>7. Awaits(a)'
    BY <1>1, <2>3, <2>4, <2>5, <2>6 DEF Awaits, IsInstr
  <2> QED
    BY <2>1, <2>2, <2>4, <2>7
<1> HIDE DEF Lands, NextCf, CurCf, Jumps, Inv, Wired, SameExtent
<1> QED
  BY <1>1, <1>2, <1>6, <1>7, ResolvedEdges

(* The target is lifted, so the operation is the first to go there: the    *)
(* block has no edges yet.                                                 *)
LEMMA LinkedEdges ==
  ASSUME Inv, Jumps, Edges, ResolveLink \/ ResolveSplit
  PROVE  Edges'
<1>1. PICK t : t = BlockAt(CurCf.jump)
  OBVIOUS
<1>2. PICK op : op = CurCf
  OBVIOUS
<1>3. /\ phase = "cf" /\ t # Null /\ UNCHANGED <<prog, ptr>>
      /\ needs \subseteq needs' /\ bbs' = Linked
      /\ NextCf(cur) \/ (phase' = "split" /\ req'.back = "cf" /\ UNCHANGED <<pos, cur, cfi>>)
  BY <1>1 DEF ResolveLink, ResolveSplit
<1>4. PICK I : I = Issued
  OBVIOUS
<1>5. /\ pos \in Int /\ Horizon = pos /\ op = I[cfi] /\ cfi \in 1..Len(I) /\ Len(I) \in Nat
      /\ Direct(op) \/ op.jump = 0
  BY <1>2, <1>3, <1>4, CurrentIssued
<1>6. /\ WfBlocks(bbs) /\ Wired(bbs) /\ cur \in 1..Len(bbs) /\ cfi \in DOMAIN bbs[cur].cfs
      /\ op.target = Null /\ op.cont = Null /\ WfCf(op, Len(bbs))
  BY <1>2, <1>3, CurrentOp
<1>7. op.jump \in Slots /\ t \in 1..Len(bbs) /\ op.jump <= pos /\ op.jump # pos + 1 /\ Direct(op)
  <2>1. op.jump \in Slots /\ t \in 1..Len(bbs) /\ op.jump <= pos
    BY <1>1, <1>2, <1>3, <1>5, BlockAtLifted
  <2> HIDE DEF Direct
  <2> QED
    BY <1>5, <2>1 DEF Slots
<1>8. cur \notin DOMAIN bbs[t].preds
  <2>1. NoEdges \/ \A k \in cfi..Len(I) : I[k].jump = pos + 1
    BY <1>3, <1>4 DEF Jumps, Resolving
  <2>2. cfi \in cfi..Len(I)
    BY <1>5
  <2>3. NoEdges
    <3> HIDE DEF NoEdges
    <3> QED
      BY <1>5, <1>7, <2>1, <2>2
  <2> QED
    BY <1>7, <2>3 DEF NoEdges
<1>9. PICK m : m = <<cur, cfi>>
  OBVIOUS
<1>10. m[1] = cur /\ m[2] = cfi
  BY <1>9
<1>11. PICK cf : cf = [op EXCEPT !.target = t]
  OBVIOUS
<1>12. cf.cont = Null /\ cf.jump = op.jump /\ cf.target = t /\ cf.target # Null
  BY <1>3, <1>6, <1>11 DEF WfCf, CfFields
<1>13. PICK C : C = bbs'
  OBVIOUS
<1>14. C = AddEdge(LinkTo(bbs, m, t), m[1], t)
  <2>1. [bbs EXCEPT ![cur].cfs[cfi].target = t] = LinkTo(bbs, m, t)
    BY <1>10 DEF LinkTo, PutCf, Put, WithCfs
  <2>2. C = AddEdge([bbs EXCEPT ![cur].cfs[cfi].target = t], cur, t)
    BY <1>1, <1>3, <1>13 DEF Linked
  <2> QED
    BY <1>10, <2>1, <2>2
<1>15. Wired(C)
  <2>1. Direct(bbs[m[1]].cfs[m[2]]) /\ bbs[m[1]].cfs[m[2]].target = Null
    BY <1>2, <1>6, <1>7, <1>10 DEF CurCf
  <2>2. Rewires(bbs, C, m)
    <3> HIDE DEF Wired, Direct, Rewires
    <3> QED
      BY <1>6, <1>7, <1>8, <1>10, <1>14, <2>1, LinkWired
  <2> QED
    BY <2>2 DEF Rewires
<1>16. Wired(bbs')
  BY <1>13, <1>15 DEF Wired, AllShaped, Shaped, Matched, Simple, Connected
<1>17. SameExtent(bbs, bbs') /\ \A c \in 1..Len(bbs) : bbs'[c].cfs = CfsBut(bbs, cur, cfi, cf, c)
  BY <1>1, <1>2, <1>3, <1>11, LinkedSame
<1>18. Lands(cf)'
  BY <1>12 DEF Lands
<1> HIDE DEF Lands, NextCf, CurCf, Jumps, Inv, Wired, SameExtent
<1> QED
  BY <1>2, <1>3, <1>7, <1>12, <1>16, <1>17, <1>18, ResolvedEdges

-----------------------------------------------------------------------------
(* Lifter::split_basic_block.                                              *)

(* The block with the operation that asked for the split, and what the     *)
(* operations of a block name afterwards; n is the second half.            *)
Asks(t) == Lifting /\ t = cur

StillPoints(t, d, n) == \E k \in DOMAIN bbs[t].cfs : Points(Kept(bbs[t].cfs[k], n), d)

(* A split moves the target of one operation and changes nothing else of   *)
(* any.                                                                    *)
LEMMA KeptFields ==
  ASSUME AllYield, Inv, Disjoint(bbs), Pointers, Jumps, Edges, phase = "split", NEW n, n = Len(bbs) + 1,
         NEW t \in 1..Len(bbs), NEW k \in DOMAIN bbs[t].cfs,
         NEW cf, cf = bbs[t].cfs[k], NEW o, o = Kept(cf, n)
  PROVE  /\ WfCf(cf, Len(bbs)) /\ Shaped(cf, bbs[t], bbs)
         /\ Asks(t) /\ k = cfi => o.target = n /\ cf.target = req.bb /\ Direct(cf)
         /\ ~(Asks(t) /\ k = cfi) => o = cf
         /\ o.cont = cf.cont /\ o.type = cf.type /\ o.jump = cf.jump /\ o.instr = cf.instr
         /\ Lifting => cf.cont = Null
<1>1. WfBlocks(bbs) /\ Wired(bbs)
  BY SplitFacts DEF Edges, Live, Wired
<1>2. WfCf(cf, Len(bbs)) /\ Shaped(cf, bbs[t], bbs)
  BY <1>1, OpOfBlock DEF Wired
<1>3. Lifting => cf.cont = Null
  BY DEF Edges, Live, Unvisited
<1>4. IntoSecond(cf) <=> Asks(t) /\ k = cfi
  <2>1. IntoSecond(cf) => Asks(t) /\ k = cfi
    <3> HIDE DEF IntoSecond
    <3> QED
      BY IntoSecondAsked DEF Asks
  <2>2. Asks(t) /\ k = cfi => IntoSecond(cf)
    <3> HIDE DEF IntoSecond
    <3> QED
      BY AskedOperation DEF Asks
  <2> QED
    BY <2>1, <2>2
<1>5. CASE IntoSecond(cf)
  <2>1. o = [cf EXCEPT !.target = n]
    BY <1>5 DEF Kept
  <2>2. /\ o.target = n /\ o.cont = cf.cont /\ o.type = cf.type /\ o.jump = cf.jump /\ o.instr = cf.instr
    BY <1>2, <2>1 DEF WfCf, CfFields
  <2>3. cf.target = req.bb /\ Direct(cf)
    <3>1. Lifting /\ t = cur /\ k = cfi
      BY <1>4, <1>5 DEF Asks
    <3> HIDE DEF IntoSecond
    <3> QED
      BY <3>1, AskedOperation
  <2> HIDE DEF IntoSecond, WfCf, Shaped, Asks
  <2> QED
    BY <1>2, <1>3, <1>4, <1>5, <2>2, <2>3
<1>6. CASE ~IntoSecond(cf)
  <2>1. o = cf
    BY <1>6 DEF Kept
  <2> HIDE DEF IntoSecond, WfCf, Shaped, Asks
  <2> QED
    BY <1>2, <1>3, <1>4, <1>6, <2>1
<1> QED
  BY <1>5, <1>6

(* Every block names the blocks it named, but for the operation that asked *)
(* for the split, which names the second half instead of the first.        *)
LEMMA SplitPoints ==
  ASSUME AllYield, Inv, Disjoint(bbs), Pointers, Jumps, Edges, phase = "split", NEW n, n = Len(bbs) + 1,
         NEW q, q = req.bb, NEW t \in 1..Len(bbs)
  PROVE  /\ \A d \in 1..Len(bbs) : d # q => (StillPoints(t, d, n) <=> Connected(bbs, t, d))
         /\ StillPoints(t, n, n) <=> Asks(t)
         /\ StillPoints(t, q, n) => Connected(bbs, t, q)
         /\ ~Asks(t) /\ Connected(bbs, t, q) => StillPoints(t, q, n)
         /\ Asks(t) => /\ Connected(bbs, t, q)
                       /\ StillPoints(t, q, n) <=> \E k \in DOMAIN bbs[t].cfs : Kept(bbs[t].cfs[k], n).target = q
<1>1. Len(bbs) \in Nat /\ q \in 1..Len(bbs) /\ n \notin 0..Len(bbs) /\ q # Null /\ n # q
      /\ \A d \in 1..Len(bbs) : d # n
  BY SplitFacts DEF Null
<1>2. ASSUME NEW k \in DOMAIN bbs[t].cfs
      PROVE  /\ Asks(t) /\ k = cfi => /\ Points(bbs[t].cfs[k], q) /\ Points(Kept(bbs[t].cfs[k], n), n)
                                      /\ \A d : d # Null /\ d # n => ~Points(Kept(bbs[t].cfs[k], n), d)
                                      /\ \A d : d # Null /\ d # q => ~Points(bbs[t].cfs[k], d)
             /\ ~(Asks(t) /\ k = cfi) => /\ Kept(bbs[t].cfs[k], n) = bbs[t].cfs[k]
                                         /\ ~Points(bbs[t].cfs[k], n)
             /\ Lifting => Kept(bbs[t].cfs[k], n).cont = Null
  <2>1. PICK cf : cf = bbs[t].cfs[k]
    OBVIOUS
  <2>2. PICK o : o = Kept(cf, n)
    OBVIOUS
  <2>3. /\ WfCf(cf, Len(bbs))
        /\ Asks(t) /\ k = cfi => o.target = n /\ cf.target = q
        /\ ~(Asks(t) /\ k = cfi) => o = cf
        /\ o.cont = cf.cont
        /\ Lifting => cf.cont = Null
    <3> HIDE DEF Kept, WfCf, Shaped, Asks
    <3> QED
      BY <2>1, <2>2, KeptFields
  <2>4. cf.target # n /\ cf.cont # n
    BY <1>1, <2>3 DEF WfCf
  <2>5. Asks(t) => Lifting
    BY DEF Asks
  <2> HIDE DEF Kept, Asks
  <2> QED
    BY <1>1, <2>1, <2>2, <2>3, <2>4, <2>5 DEF Points
<1>3. Asks(t) => cfi \in DOMAIN bbs[t].cfs
  BY AskedOperation DEF Asks
<1>4. \A d \in 1..Len(bbs) : d # Null
  BY DEF Null
<1> HIDE DEF Kept, Asks, Points
<1>5. \A d \in 1..Len(bbs) : d # q => (StillPoints(t, d, n) <=> Connected(bbs, t, d))
  <2> TAKE d \in 1..Len(bbs)
  <2> HAVE d # q
  <2>1. \A k \in DOMAIN bbs[t].cfs : Points(Kept(bbs[t].cfs[k], n), d) <=> Points(bbs[t].cfs[k], d)
    BY <1>1, <1>2, <1>4
  <2> QED
    BY <2>1 DEF StillPoints, Connected
<1>6. StillPoints(t, n, n) <=> Asks(t)
  BY <1>2, <1>3 DEF StillPoints
<1>7. StillPoints(t, q, n) => Connected(bbs, t, q)
  BY <1>1, <1>2 DEF StillPoints, Connected
<1>8. ~Asks(t) /\ Connected(bbs, t, q) => StillPoints(t, q, n)
  BY <1>2 DEF StillPoints, Connected
<1>9. Asks(t) => Connected(bbs, t, q)
  BY <1>2, <1>3 DEF Connected
<1>10. Asks(t) => (StillPoints(t, q, n) <=> \E k \in DOMAIN bbs[t].cfs : Kept(bbs[t].cfs[k], n).target = q)
  <2> SUFFICES ASSUME Asks(t)
               PROVE  \A k \in DOMAIN bbs[t].cfs : Points(Kept(bbs[t].cfs[k], n), q) <=> Kept(bbs[t].cfs[k], n).target = q
    BY DEF StillPoints
  <2>1. Lifting
    BY DEF Asks
  <2> QED
    BY <1>1, <1>2, <2>1 DEF Points
<1> QED
  BY <1>5, <1>6, <1>7, <1>8, <1>9, <1>10

(* The predecessors and the operations that the loops of split_basic_block *)
(* pick.                                                                   *)
LEMMA SplitMoved ==
  ASSUME AllYield, Inv, Disjoint(bbs), Pointers, Jumps, Edges, phase = "split", NEW n, n = Len(bbs) + 1,
         NEW q, q = req.bb
  PROVE  /\ \A t \in 1..Len(bbs) : Moved(t) <=> Asks(t) /\ t # q
         /\ \A t \in 1..Len(bbs) : t \in LostPreds(n) <=> Asks(t) /\ t # q /\ ~StillPoints(t, q, n)
         /\ SelfMoved(n) <=> Asks(q)
         /\ SelfLost(n) <=> Asks(q) /\ ~StillPoints(q, q, n)
<1>1. /\ WfBlocks(bbs) /\ Len(bbs) \in Nat /\ q \in 1..Len(bbs) /\ n # q /\ q # n
      /\ \A t \in 1..Len(bbs) : t \in DOMAIN bbs[q].preds <=> Connected(bbs, t, q)
  BY SplitFacts DEF Edges, Matched
<1>2. ASSUME NEW t \in 1..Len(bbs)
      PROVE  Moved(t) <=> Asks(t) /\ t # q
  <2>1. ASSUME Moved(t)
        PROVE  Asks(t) /\ t # q
    <3>1. PICK k \in DOMAIN bbs[t].cfs : <<t, k>> \in Movers
      BY <2>1 DEF Moved
    <3>2. Lifting /\ <<t, k>> = <<cur, cfi>>
      <4> HIDE DEF Movers
      <4> QED
        BY <3>1, MovesOne
    <3>3. PICK p \in BagToSet(bbs[q].preds) \ {q} : <<t, k>> \in {p} \X DOMAIN bbs[p].cfs
      BY <3>1 DEF Movers
    <3> QED
      BY <3>2, <3>3 DEF Asks
  <2>2. ASSUME Asks(t), t # q
        PROVE  Moved(t)
    <3>1. /\ cfi \in DOMAIN bbs[t].cfs /\ IntoSecond(bbs[t].cfs[cfi]) /\ t \in DOMAIN bbs[q].preds
      <4> HIDE DEF IntoSecond
      <4> QED
        BY <2>2, AskedOperation DEF Asks
    <3>2. t \in BagToSet(bbs[req.bb].preds) \ {req.bb}
      BY <2>2, <3>1 DEF BagToSet
    <3>3. <<t, cfi>> \in {t} \X DOMAIN bbs[t].cfs /\ <<t, cfi>>[1] = t /\ <<t, cfi>>[2] = cfi
      BY <3>1
    <3>4. <<t, cfi>> \in Movers
      <4> HIDE DEF IntoSecond
      <4> QED
        BY <3>1, <3>2, <3>3 DEF Movers
    <3> QED
      BY <3>1, <3>4 DEF Moved
  <2> QED
    BY <2>1, <2>2
<1>3. /\ DOMAIN SecondCfs(n) = DOMAIN bbs[q].cfs
      /\ \A k \in DOMAIN bbs[q].cfs : SecondCfs(n)[k] = Kept(bbs[q].cfs[k], n)
      /\ \A t \in 1..Len(bbs) :
           /\ DOMAIN MovedCfs(t, n) = DOMAIN bbs[t].cfs
           /\ t # q => \A k \in DOMAIN bbs[t].cfs : MovedCfs(t, n)[k] = Kept(bbs[t].cfs[k], n)
  <2> HIDE DEF Kept
  <2> QED
    BY SplitKept
<1>4. \A t \in 1..Len(bbs) : Asks(t) =>
        /\ Connected(bbs, t, q)
        /\ StillPoints(t, q, n) <=> \E k \in DOMAIN bbs[t].cfs : Kept(bbs[t].cfs[k], n).target = q
  <2> HIDE DEF Asks, StillPoints, Connected, Kept
  <2> QED
    BY SplitPoints
<1>5. ASSUME NEW t \in 1..Len(bbs)
      PROVE  t \in LostPreds(n) <=> Asks(t) /\ t # q /\ ~StillPoints(t, q, n)
  <2>1. t \in LostPreds(n) <=> t \in DOMAIN bbs[q].preds /\ Moved(t) /\ ~StillTargets(MovedCfs(t, n))
    BY DEF LostPreds, BagToSet
  <2>2. Asks(t) => t \in DOMAIN bbs[q].preds
    BY <1>1, <1>4
  <2>3. Asks(t) /\ t # q => (StillTargets(MovedCfs(t, n)) <=> StillPoints(t, q, n))
    <3> HIDE DEF Asks, StillPoints, MovedCfs, Kept
    <3> QED
      BY <1>3, <1>4 DEF StillTargets
  <2> HIDE DEF Asks, StillPoints, MovedCfs, LostPreds, Moved
  <2> QED
    BY <1>2, <2>1, <2>2, <2>3
<1>6. ASSUME Asks(q)
      PROVE  SelfMoved(n) /\ StillTargets(bbs[q].cfs) /\ (StillTargets(SecondCfs(n)) <=> StillPoints(q, q, n))
  <2>1. cfi \in DOMAIN bbs[q].cfs /\ bbs[q].cfs[cfi].target = q
    BY <1>6, AskedOperation DEF Asks
  <2>2. Kept(bbs[q].cfs[cfi], n).target = n
    <3>1. PICK cf : cf = bbs[q].cfs[cfi]
      OBVIOUS
    <3>2. PICK o : o = Kept(cf, n)
      OBVIOUS
    <3>3. o.target = n
      <4> HIDE DEF Kept, Asks
      <4> QED
        BY <1>1, <1>6, <2>1, <3>1, <3>2, KeptFields
    <3> QED
      BY <3>1, <3>2, <3>3
  <2> HIDE DEF Kept, SecondCfs, Asks, StillPoints
  <2>3. SecondCfs(n)[cfi] # bbs[q].cfs[cfi]
    BY <1>1, <1>3, <2>1, <2>2
  <2>4. SelfMoved(n)
    BY <2>3 DEF SelfMoved
  <2>5. StillTargets(bbs[q].cfs)
    BY <2>1 DEF StillTargets
  <2>6. StillTargets(SecondCfs(n)) <=> StillPoints(q, q, n)
    BY <1>1, <1>3, <1>4, <1>6 DEF StillTargets
  <2> QED
    BY <2>4, <2>5, <2>6
<1>7. ~Asks(q) => ~SelfMoved(n)
  <2> SUFFICES ASSUME ~Asks(q)
               PROVE  SecondCfs(n) = bbs[q].cfs
    BY DEF SelfMoved
  <2>1. \A k \in DOMAIN bbs[q].cfs : Kept(bbs[q].cfs[k], n) = bbs[q].cfs[k]
    <3> TAKE k \in DOMAIN bbs[q].cfs
    <3>1. PICK cf : cf = bbs[q].cfs[k]
      OBVIOUS
    <3>2. PICK o : o = Kept(cf, n)
      OBVIOUS
    <3>3. o = cf
      <4> HIDE DEF Kept, Asks
      <4> QED
        BY <1>1, <3>1, <3>2, KeptFields
    <3> QED
      BY <3>1, <3>2, <3>3
  <2>2. IsSeq(bbs[q].cfs)
    BY <1>1, OpsTyped
  <2>3. bbs[q].cfs = [k \in DOMAIN bbs[q].cfs |-> bbs[q].cfs[k]]
    BY <2>2 DEF IsSeq
  <2>4. SecondCfs(n) = [k \in DOMAIN bbs[q].cfs |-> SecondCfs(n)[k]]
    BY DEF SecondCfs
  <2> HIDE DEF SecondCfs, Kept
  <2> QED
    BY <1>3, <2>1, <2>3, <2>4
<1>8. SelfMoved(n) <=> Asks(q)
  BY <1>6, <1>7
<1>9. SelfLost(n) <=> Asks(q) /\ ~StillPoints(q, q, n)
  <2> HIDE DEF SelfMoved, StillTargets, Asks, StillPoints, SecondCfs
  <2> QED
    BY <1>6, <1>8 DEF SelfLost
<1> QED
  BY <1>2, <1>5, <1>8, <1>9

(* An operation of the split block that jumps into the first half, other   *)
(* than the one that asked for the split.                                  *)
LEMMA IntoFirstStarts ==
  ASSUME AllYield, Inv, Disjoint(bbs), Pointers, Jumps, Edges, phase = "split",
         NEW k \in DOMAIN bbs[req.bb].cfs, NEW cf, cf = bbs[req.bb].cfs[k]
  PROVE  /\ cf.target = req.bb \/ cf.cont = req.bb => IntoFirst(cf) \/ (Asks(req.bb) /\ k = cfi)
         /\ IntoFirst(cf) => ~Asks(req.bb)
              \/ (Asks(req.bb) /\ k = cfi)
<1>1. PICK q : q = req.bb
  OBVIOUS
<1>2. PICK s : s = bbs[q].start
  OBVIOUS
<1>3. PICK e : e = bbs[q].end
  OBVIOUS
<1>4. PICK a : a = req.addr
  OBVIOUS
<1>5. /\ q \in 1..Len(bbs) /\ q # Null /\ a <= pos /\ pos \in Int /\ Len(bbs) \in Nat
  BY <1>1, <1>4, SplitFacts DEF Null, Inv, Behind
<1>6. bbs[q].code = s..e /\ s \in 1..(a - 1) /\ a \in 1..e /\ e \in Slots /\ e \in Int /\ FirstEnd = a - 1
  BY <1>1, <1>2, <1>3, <1>4, SplitRun DEF Slots
<1>7. WfCf(cf, Len(bbs)) /\ Shaped(cf, bbs[q], bbs)
  <2>1. WfBlocks(bbs) /\ AllShaped(bbs)
    BY SplitFacts DEF Edges, Live
  <2> QED
    BY <1>1, <1>5, <2>1, OpOfBlock
<1>8. ASSUME cf.cont = q
      PROVE  FALSE
  <2>1. s = e + 1
    BY <1>2, <1>3, <1>5, <1>7, <1>8 DEF Shaped
  <2> QED
    BY <1>6, <2>1
<1>9. ASSUME cf.target = q, ~(Asks(q) /\ k = cfi)
      PROVE  IntoFirst(cf)
  <2>1. Direct(cf) /\ cf.jump # 0
    BY <1>5, <1>7, <1>9 DEF Shaped
  <2>2. CASE ~Waiting(q, k)
    <3>1. Good(cf, bbs, Places)
      <4> HIDE DEF Waiting, Good, Places
      <4> QED
        BY <1>1, <1>5, <2>2, IntoSecondAsked
    <3>2. s \in {0, cf.jump}
      BY <1>2, <1>5, <1>9, <2>1, <3>1 DEF Good
    <3>3. cf.jump = s /\ s \in Int /\ s <= a - 1
      BY <1>6, <3>2
    <3> QED
      BY <1>1, <1>2, <1>6, <2>1, <3>3 DEF IntoFirst
  <2>3. CASE Waiting(q, k)
    <3>1. k # cfi
      BY <1>9, <2>3 DEF Waiting, Asks
    <3>2. PICK I : I = Issued
      OBVIOUS
    <3>3. k \in (cfi + 1)..Len(I) /\ cf = I[k]
      <4> HIDE DEF Waiting
      <4> QED
        BY <1>1, <1>5, <2>3, <3>1, <3>2, IntoSecondAsked
    <3>4. cf.target = Null
      <4>1. prog[pos] \in Instr /\ pos \in Slots /\ I = CfsOf(prog[pos], pos) /\ Lifting /\ cfi \in Nat \ {0}
        <5>1. Lifting /\ phase # "scan"
          BY <2>3 DEF Waiting
        <5> QED
          BY <3>2, <5>1, InstrAssumption, NAssumption DEF Inv, Typed, Control, Issued, Slots
      <4>2. IsSeq(I) /\ Len(I) \in 0..2 /\ \A l \in 1..Len(I) : I[l].target = Null
        BY <4>1, IssuedShape
      <4>3. k \in 1..Len(I)
        BY <3>3, <4>1, <4>2
      <4> QED
        BY <3>3, <4>2, <4>3
    <3> QED
      BY <1>5, <1>9, <3>4
  <2> QED
    BY <2>2, <2>3
<1>10. ASSUME IntoFirst(cf), Asks(q), k # cfi
       PROVE  FALSE
  <2>1. Direct(cf) /\ cf.jump <= a - 1 /\ cf.jump \in Int /\ a \in Int
    <3>1. cf.jump \in 0..(N + 1)
      BY <1>7 DEF WfCf
    <3>2. Direct(cf) /\ cf.jump <= FirstEnd /\ a \in Int
      BY <1>6, <1>10 DEF IntoFirst
    <3> QED
      BY <1>6, <3>1, <3>2
  <2>2. PICK I : I = Issued
    OBVIOUS
  <2>3. Lifting /\ q = cur /\ phase # "scan"
    BY <1>10 DEF Asks
  <2>4. /\ Len(bbs[cur].cfs) = Len(I) /\ cfi \in 1..Len(I) /\ I[cfi].jump = a
    <3>1. req.back = "cf"
      BY <2>3 DEF Lifting
    <3> QED
      BY <1>4, <2>2, <3>1 DEF Jumps, Linking
  <2>5. cf.jump = I[k].jump
    BY <1>1, <2>1, <2>2, <2>3 DEF Edges, Live, AsIssued
  <2>6. \A l, m \in 1..Len(I) : l # m => I[l].jump = pos + 1 \/ I[m].jump = pos + 1
    <3>1. prog[pos] \in Instr /\ pos \in Slots /\ I = CfsOf(prog[pos], pos)
      BY <2>2, <2>3, InstrAssumption, NAssumption DEF Inv, Typed, Control, Issued, Slots
    <3> QED
      BY <3>1, IssuedShape
  <2>7. k \in 1..Len(I)
    <3>1. IsSeq(bbs[q].cfs)
      BY <1>5, OpsTyped, SplitFacts
    <3> QED
      BY <1>1, <2>3, <2>4, <3>1 DEF IsSeq
  <2>8. cf.jump = pos + 1 \/ a = pos + 1
    BY <1>10, <2>4, <2>5, <2>6, <2>7
  <2> QED
    BY <1>5, <2>1, <2>8
<1> HIDE DEF IntoFirst, Asks
<1> QED
  BY <1>1, <1>5, <1>8, <1>9, <1>10

(* The first half is entered by a jump of the second exactly if one of its *)
(* operations goes to the start of the first.                              *)
LEMMA SplitLoops ==
  ASSUME AllYield, Inv, Disjoint(bbs), Pointers, Jumps, Edges, phase = "split", NEW n, n = Len(bbs) + 1,
         NEW q, q = req.bb
  PROVE  SelfInto(IntoFirst) /\ Connected(bbs, q, q) <=> StillPoints(q, q, n)
<1>1. q \in 1..Len(bbs) /\ q # Null /\ n # q /\ Len(bbs) \in Nat
  BY SplitFacts DEF Null
<1>2. SelfInto(IntoFirst) <=> \E k \in DOMAIN bbs[q].cfs : IntoFirst(bbs[q].cfs[k])
  BY DEF SelfInto
<1>3. ASSUME NEW k \in DOMAIN bbs[q].cfs
      PROVE  /\ Asks(q) /\ k = cfi => ~IntoFirst(bbs[q].cfs[k]) /\ ~Points(Kept(bbs[q].cfs[k], n), q)
             /\ ~(Asks(q) /\ k = cfi) => /\ Kept(bbs[q].cfs[k], n) = bbs[q].cfs[k]
                                         /\ Points(bbs[q].cfs[k], q) => IntoFirst(bbs[q].cfs[k])
                                         /\ IntoFirst(bbs[q].cfs[k]) => ~Asks(q)
  <2>1. PICK cf : cf = bbs[q].cfs[k]
    OBVIOUS
  <2>2. PICK o : o = Kept(cf, n)
    OBVIOUS
  <2>3. /\ Asks(q) /\ k = cfi => o.target = n
        /\ ~(Asks(q) /\ k = cfi) => o = cf
        /\ o.cont = cf.cont
        /\ Lifting => cf.cont = Null
    <3> HIDE DEF Kept, WfCf, Shaped, Asks
    <3> QED
      BY <1>1, <2>1, <2>2, KeptFields
  <2>4. /\ cf.target = q \/ cf.cont = q => IntoFirst(cf) \/ (Asks(q) /\ k = cfi)
        /\ IntoFirst(cf) => ~Asks(q) \/ (Asks(q) /\ k = cfi)
    <3> HIDE DEF IntoFirst, Asks
    <3> QED
      BY <2>1, IntoFirstStarts
  <2>5. Asks(q) /\ k = cfi => ~IntoFirst(cf)
    <3> HIDE DEF IntoFirst, IntoSecond
    <3> QED
      BY <2>1, AskedOperation DEF Asks
  <2>6. Asks(q) => Lifting
    BY DEF Asks
  <2> HIDE DEF Kept, Asks, IntoFirst
  <2> QED
    BY <1>1, <2>1, <2>2, <2>3, <2>4, <2>5, <2>6 DEF Points
<1>4. ~Asks(q) /\ Connected(bbs, q, q) => StillPoints(q, q, n)
  <2> HIDE DEF Asks, StillPoints, Connected
  <2> QED
    BY <1>1, SplitPoints
<1> HIDE DEF Kept, Asks, IntoFirst, Points
<1>5. StillPoints(q, q, n) => SelfInto(IntoFirst) /\ Connected(bbs, q, q)
  BY <1>2, <1>3 DEF StillPoints, Connected
<1>6. ASSUME SelfInto(IntoFirst), Connected(bbs, q, q)
      PROVE  StillPoints(q, q, n)
  BY <1>2, <1>3, <1>4, <1>6
<1> QED
  BY <1>5, <1>6

LEMMA BagRemoveSingle ==
  \A P, x : x \in DOMAIN P /\ P[x] = 1 => DOMAIN BagRemove(P, x) = DOMAIN P \ {x}
BY DEF BagRemove

(* The predecessors of the first half. *)
LEMMA FirstPredsAre ==
  ASSUME AllYield, Inv, Disjoint(bbs), Pointers, Jumps, Edges, phase = "split", NEW n, n = Len(bbs) + 1,
         NEW q, q = req.bb
  PROVE  /\ q \notin DOMAIN FirstPreds(n)
         /\ n \in DOMAIN FirstPreds(n) <=> StillPoints(q, q, n)
         /\ \A b \in 1..Len(bbs) : b # q => (b \in DOMAIN FirstPreds(n) <=> StillPoints(b, q, n))
<1>1. /\ WfBlocks(bbs) /\ Len(bbs) \in Nat /\ q \in 1..Len(bbs) /\ n \notin 1..Len(bbs)
      /\ \A b \in 1..Len(bbs) : b # n
  BY SplitFacts
<1>2. /\ \A t \in 1..Len(bbs) : t \in DOMAIN bbs[q].preds <=> Connected(bbs, t, q)
      /\ q \in DOMAIN bbs[q].preds => bbs[q].preds[q] = 1
      /\ DOMAIN bbs[q].preds \subseteq 1..Len(bbs)
  <2>1. Matched(bbs) /\ Simple(bbs)
    BY DEF Edges, Live
  <2>2. WfBlock(bbs[q], Len(bbs))
    BY <1>1 DEF WfBlocks
  <2> QED
    BY <1>1, <2>1, <2>2 DEF Matched, Simple, WfBlock
<1>3. /\ \A t \in 1..Len(bbs) : t \in LostPreds(n) <=> Asks(t) /\ t # q /\ ~StillPoints(t, q, n)
      /\ SelfLost(n) <=> Asks(q) /\ ~StillPoints(q, q, n)
  <2> HIDE DEF Asks, StillPoints, LostPreds, SelfLost
  <2> QED
    BY SplitMoved
<1>4. \A t \in 1..Len(bbs) : /\ StillPoints(t, q, n) => Connected(bbs, t, q)
                             /\ ~Asks(t) /\ Connected(bbs, t, q) => StillPoints(t, q, n)
                             /\ Asks(t) => Connected(bbs, t, q)
  <2> HIDE DEF Asks, StillPoints, Connected
  <2> QED
    BY SplitPoints
<1>5. SelfInto(IntoFirst) /\ Connected(bbs, q, q) <=> StillPoints(q, q, n)
  <2> HIDE DEF StillPoints, Connected
  <2> QED
    BY SplitLoops
<1>6. PICK P : P = [p \in BagToSet(bbs[q].preds) \ LostPreds(n) |-> bbs[q].preds[p]]
  OBVIOUS
<1>7. PICK Q : Q = IF SelfInto(IntoFirst) /\ BagIn(q, P) THEN BagAdd(BagRemove(P, q), n) ELSE P
  OBVIOUS
<1>8. FirstPreds(n) = IF SelfLost(n) THEN BagRemoveAll(Q, q) ELSE Q
  BY <1>6, <1>7 DEF FirstPreds
<1> HIDE DEF LostPreds, SelfLost, StillPoints, Connected, Asks
<1>9. /\ DOMAIN P = DOMAIN bbs[q].preds \ LostPreds(n)
      /\ q \in DOMAIN P => P[q] = 1
  <2>1. DOMAIN P = DOMAIN bbs[q].preds \ LostPreds(n)
    BY <1>6 DEF BagToSet
  <2>2. ASSUME q \in DOMAIN P
        PROVE  P[q] = 1
    <3>1. P[q] = bbs[q].preds[q] /\ q \in DOMAIN bbs[q].preds
      BY <1>6, <2>1, <2>2 DEF BagToSet
    <3> QED
      BY <1>2, <3>1
  <2> QED
    BY <2>1, <2>2
<1>10. /\ q \in DOMAIN P <=> Connected(bbs, q, q)
       /\ n \notin DOMAIN P
       /\ \A b \in 1..Len(bbs) : b # q => (b \in DOMAIN P <=> StillPoints(b, q, n))
  <2>1. q \in DOMAIN P <=> Connected(bbs, q, q)
    BY <1>1, <1>2, <1>3, <1>9
  <2>2. n \notin DOMAIN P
    BY <1>1, <1>2, <1>9
  <2>3. \A b \in 1..Len(bbs) : b # q => (b \in DOMAIN P <=> StillPoints(b, q, n))
    <3> TAKE b \in 1..Len(bbs)
    <3> HAVE b # q
    <3>1. b \in DOMAIN P <=> Connected(bbs, b, q) /\ ~(Asks(b) /\ ~StillPoints(b, q, n))
      BY <1>2, <1>3, <1>9
    <3> QED
      BY <1>4, <3>1
  <2> QED
    BY <2>1, <2>2, <2>3
<1>11. DOMAIN Q = IF StillPoints(q, q, n) THEN (DOMAIN P \ {q}) \cup {n} ELSE DOMAIN P
  <2>1. BagIn(q, P) <=> Connected(bbs, q, q)
    BY <1>10 DEF BagIn, BagToSet
  <2>2. CASE StillPoints(q, q, n)
    <3>1. Q = BagAdd(BagRemove(P, q), n)
      BY <1>5, <1>7, <2>1, <2>2
    <3>2. q \in DOMAIN P
      BY <1>5, <1>10, <2>2
    <3>3. DOMAIN BagRemove(P, q) = DOMAIN P \ {q}
      BY <1>9, <3>2, BagRemoveSingle
    <3>4. \A B, x : DOMAIN BagAdd(B, x) = DOMAIN B \cup {x}
      BY BagDomains, Zenon
    <3> QED
      BY <2>2, <3>1, <3>3, <3>4
  <2>3. CASE ~StillPoints(q, q, n)
    <3>1. Q = P
      BY <1>5, <1>7, <2>1, <2>3
    <3> QED
      BY <2>3, <3>1
  <2> QED
    BY <2>2, <2>3
<1>12. DOMAIN FirstPreds(n) = IF SelfLost(n) THEN DOMAIN Q \ {q} ELSE DOMAIN Q
  <2>1. \A B, x : DOMAIN BagRemoveAll(B, x) = DOMAIN B \ {x}
    BY BagDomains, Zenon
  <2> QED
    BY <1>8, <2>1
<1>13. q \notin DOMAIN FirstPreds(n)
  <2>1. CASE StillPoints(q, q, n)
    BY <1>1, <1>11, <1>12, <2>1
  <2>2. CASE ~StillPoints(q, q, n) /\ Connected(bbs, q, q)
    <3>1. SelfLost(n)
      BY <1>1, <1>3, <1>4, <2>2
    <3> QED
      BY <1>12, <3>1
  <2>3. CASE ~StillPoints(q, q, n) /\ ~Connected(bbs, q, q)
    BY <1>10, <1>11, <1>12, <2>3
  <2> QED
    BY <2>1, <2>2, <2>3
<1>14. n \in DOMAIN FirstPreds(n) <=> StillPoints(q, q, n)
  BY <1>1, <1>10, <1>11, <1>12
<1>15. \A b \in 1..Len(bbs) : b # q => (b \in DOMAIN FirstPreds(n) <=> StillPoints(b, q, n))
  <2> TAKE b \in 1..Len(bbs)
  <2> HAVE b # q
  <2>1. b \in DOMAIN FirstPreds(n) <=> b \in DOMAIN P
    BY <1>1, <1>11, <1>12
  <2> QED
    BY <1>10, <2>1
<1> QED
  BY <1>13, <1>14, <1>15

(* The edges of the second half. *)
LEMMA SecondEdges ==
  ASSUME AllYield, Inv, Disjoint(bbs), Pointers, Jumps, Edges, phase = "split", NEW n, n = Len(bbs) + 1,
         NEW q, q = req.bb
  PROVE  /\ \A b \in 1..Len(bbs) : b \in DOMAIN Second(n).preds <=> b = q \/ Asks(b)
         /\ n \in DOMAIN Second(n).preds <=> Asks(q)
         /\ Second(n).preds = SetToBag(DOMAIN Second(n).preds)
         /\ \A d \in 1..Len(bbs) : d \in DOMAIN Second(n).succs <=> StillPoints(q, d, n)
         /\ n \in DOMAIN Second(n).succs <=> StillPoints(q, n, n)
<1>1. /\ WfBlocks(bbs) /\ Len(bbs) \in Nat /\ q \in 1..Len(bbs) /\ n \notin 1..Len(bbs)
      /\ \A b \in 1..Len(bbs) : b # n
  BY SplitFacts
<1>2. /\ \A t \in 1..Len(bbs) : t \in DOMAIN bbs[q].preds <=> Connected(bbs, t, q)
      /\ \A t \in 1..Len(bbs) : t \in DOMAIN bbs[q].succs <=> Connected(bbs, q, t)
      /\ DOMAIN bbs[q].preds \subseteq 1..Len(bbs)
      /\ DOMAIN bbs[q].succs \subseteq 1..Len(bbs)
  <2>1. WfBlock(bbs[q], Len(bbs))
    BY <1>1 DEF WfBlocks
  <2> QED
    BY <1>1, <2>1 DEF Edges, Matched, WfBlock
<1>3. /\ \A t \in 1..Len(bbs) : Moved(t) <=> Asks(t) /\ t # q
      /\ SelfMoved(n) <=> Asks(q)
      /\ SelfLost(n) <=> Asks(q) /\ ~StillPoints(q, q, n)
  <2> HIDE DEF Asks, StillPoints, Moved, SelfMoved, SelfLost
  <2> QED
    BY SplitMoved
<1>4. /\ \A t \in 1..Len(bbs) : Asks(t) => Connected(bbs, t, q)
      /\ \A d \in 1..Len(bbs) : d # q => (StillPoints(q, d, n) <=> Connected(bbs, q, d))
      /\ StillPoints(q, n, n) <=> Asks(q)
      /\ StillPoints(q, q, n) => Connected(bbs, q, q)
      /\ ~Asks(q) /\ Connected(bbs, q, q) => StillPoints(q, q, n)
  <2> HIDE DEF Asks, StillPoints, Connected
  <2> QED
    BY <1>1, SplitPoints
<1>5. PICK self : self = IF SelfMoved(n) THEN {n} ELSE {}
  OBVIOUS
<1>6. PICK keep : keep = IF SelfLost(n) THEN BagRemoveAll(bbs[q].succs, q) ELSE bbs[q].succs
  OBVIOUS
<1>7. PICK S : S = {p \in BagToSet(bbs[q].preds) : Moved(p)} \cup self \cup {q}
  OBVIOUS
<1>8. Second(n).preds = SetToBag(S) /\ Second(n).succs = keep (+) SetToBag(self)
  BY <1>5, <1>6, <1>7 DEF Second
<1> HIDE DEF SelfMoved, SelfLost, StillPoints, Connected, Asks, Moved, Second
<1>9. DOMAIN Second(n).preds = S /\ Second(n).preds = SetToBag(DOMAIN Second(n).preds)
  <2>1. \A T : DOMAIN SetToBag(T) = T
    BY BagDomains, Zenon
  <2>2. DOMAIN SetToBag(S) = S
    BY <2>1, Zenon
  <2> QED
    BY <1>8, <2>2, Zenon
<1>20. DOMAIN Second(n).succs = DOMAIN keep \cup self
  <2>1. \A T : DOMAIN SetToBag(T) = T
    BY BagDomains, Zenon
  <2>2. \A B, C : DOMAIN (B (+) C) = DOMAIN B \cup DOMAIN C
    BY BagDomains, Zenon
  <2>3. PICK U : U = SetToBag(self)
    OBVIOUS
  <2>4. DOMAIN U = self
    BY <2>1, <2>3, Zenon
  <2>5. DOMAIN (keep (+) U) = DOMAIN keep \cup DOMAIN U
    BY <2>2, Zenon
  <2>6. Second(n).succs = keep (+) U
    BY <1>8, <2>3, Zenon
  <2> QED
    BY <2>4, <2>5, <2>6, Zenon
<1>10. DOMAIN keep = IF SelfLost(n) THEN DOMAIN bbs[q].succs \ {q} ELSE DOMAIN bbs[q].succs
  <2>1. \A B, x : DOMAIN BagRemoveAll(B, x) = DOMAIN B \ {x}
    BY BagDomains, Zenon
  <2> QED
    BY <1>6, <2>1
<1>11. \A b \in 1..Len(bbs) : b \in S <=> b = q \/ Asks(b)
  <2> TAKE b \in 1..Len(bbs)
  <2>1. b \notin self
    BY <1>1, <1>5
  <2>2. b \in S <=> (b \in DOMAIN bbs[q].preds /\ Moved(b)) \/ b = q
    BY <1>7, <2>1 DEF BagToSet
  <2> QED
    BY <1>2, <1>3, <1>4, <2>2
<1>12. n \in S <=> Asks(q)
  <2>1. n \notin DOMAIN bbs[q].preds /\ n # q
    BY <1>1, <1>2
  <2> QED
    BY <1>3, <1>5, <1>7, <2>1 DEF BagToSet
<1>13. \A d \in 1..Len(bbs) : d \in DOMAIN keep \cup self <=> StillPoints(q, d, n)
  <2> TAKE d \in 1..Len(bbs)
  <2>1. d \notin self
    BY <1>1, <1>5
  <2>2. CASE d # q
    BY <1>2, <1>4, <1>10, <2>1, <2>2
  <2>3. CASE d = q
    <3>1. d \in DOMAIN keep <=> Connected(bbs, q, q) /\ ~SelfLost(n)
      BY <1>1, <1>2, <1>10, <2>3
    <3> QED
      BY <1>3, <1>4, <2>1, <2>3, <3>1
  <2> QED
    BY <2>2, <2>3
<1>14. n \in DOMAIN keep \cup self <=> StillPoints(q, n, n)
  <2>1. n \notin DOMAIN keep
    BY <1>1, <1>2, <1>10
  <2> QED
    BY <1>3, <1>4, <1>5, <2>1
<1> QED
  BY <1>9, <1>11, <1>12, <1>13, <1>14, <1>20

(* The new block replaces the split one among the predecessors of exactly  *)
(* the blocks the split one named.                                         *)
LEMMA HitsConnected ==
  ASSUME Inv, Edges, phase = "split", NEW q, q = req.bb, NEW t \in 1..Len(bbs)
  PROVE  Hits(t) = 0 <=> ~Connected(bbs, q, t)
<1>1. PICK cfs : cfs = bbs[q].cfs
  OBVIOUS
<1>2. PICK T : T = {k \in DOMAIN cfs : cfs[k].target = t}
  OBVIOUS
<1>3. PICK C : C = {k \in DOMAIN cfs : cfs[k].type \in {"call", "icall"} /\ cfs[k].cont = t}
  OBVIOUS
<1>4. Hits(t) = Cardinality(T) + Cardinality(C)
  BY <1>1, <1>2, <1>3 DEF Hits
<1>5. WfBlocks(bbs) /\ q \in 1..Len(bbs) /\ t # Null /\ AllShaped(bbs)
  BY SplitFacts DEF Edges, Live, Null
<1>6. IsFiniteSet(DOMAIN cfs)
  <2>1. IsSeq(cfs)
    BY <1>1, <1>5, OpsTyped
  <2>2. DOMAIN cfs = 1..Len(cfs) /\ Len(cfs) \in Int /\ 1 \in Int
    BY <2>1 DEF IsSeq
  <2> QED
    BY <2>2, FS_Interval
<1>7. IsFiniteSet(T) /\ IsFiniteSet(C)
  <2>1. T \in SUBSET DOMAIN cfs /\ C \in SUBSET DOMAIN cfs
    BY <1>2, <1>3
  <2> QED
    BY <1>6, <2>1, FS_Subset
<1>8. /\ Cardinality(T) \in Nat /\ Cardinality(C) \in Nat
      /\ Cardinality(T) = 0 <=> T = {}
      /\ Cardinality(C) = 0 <=> C = {}
  BY <1>7, FS_CardinalityType, FS_EmptySet
<1>9. Hits(t) = 0 <=> T = {} /\ C = {}
  <2>1. PICK c \in Nat : c = Cardinality(T)
    BY <1>8
  <2>2. PICK d \in Nat : d = Cardinality(C)
    BY <1>8
  <2>3. c + d = 0 <=> c = 0 /\ d = 0
    OBVIOUS
  <2>4. Hits(t) = c + d
    BY <1>4, <2>1, <2>2
  <2>5. /\ c = 0 <=> T = {}
        /\ d = 0 <=> C = {}
    BY <1>8, <2>1, <2>2
  <2> HIDE DEF Hits
  <2> QED
    BY <2>3, <2>4, <2>5
<1>10. \A k \in DOMAIN cfs : cfs[k].cont = t => cfs[k].type \in {"call", "icall"}
  <2> TAKE k \in DOMAIN cfs
  <2>1. Shaped(cfs[k], bbs[q], bbs)
    BY <1>1, <1>5 DEF AllShaped
  <2> QED
    BY <1>5, <2>1 DEF Shaped, CallTypes
<1>11. Connected(bbs, q, t) <=> T # {} \/ C # {}
  BY <1>1, <1>2, <1>3, <1>10 DEF Connected, Points
<1> QED
  BY <1>9, <1>11

(* The edges of the other blocks. *)
LEMMA OtherEdges ==
  ASSUME AllYield, Inv, Disjoint(bbs), Pointers, Jumps, Edges, phase = "split", NEW n, n = Len(bbs) + 1,
         NEW q, q = req.bb, NEW t \in 1..Len(bbs), t # q
  PROVE  /\ \A b \in 1..Len(bbs) : b # q => (b \in DOMAIN Other(t, n).preds <=> StillPoints(b, t, n))
         /\ q \notin DOMAIN Other(t, n).preds
         /\ n \in DOMAIN Other(t, n).preds <=> StillPoints(q, t, n)
         /\ t \in DOMAIN Other(t, n).preds => Other(t, n).preds[t] = 1
         /\ \A d \in 1..n : d \in DOMAIN Other(t, n).succs <=> StillPoints(t, d, n)
<1>1. /\ WfBlocks(bbs) /\ Len(bbs) \in Nat /\ q \in 1..Len(bbs) /\ n \notin 1..Len(bbs)
      /\ \A b \in 1..Len(bbs) : b # n
      /\ \A d \in 1..n : d \in 1..Len(bbs) \/ d = n
  BY SplitFacts
<1>2. /\ \A b \in 1..Len(bbs) : b \in DOMAIN bbs[t].preds <=> Connected(bbs, b, t)
      /\ \A d \in 1..Len(bbs) : d \in DOMAIN bbs[t].succs <=> Connected(bbs, t, d)
      /\ DOMAIN bbs[t].preds \subseteq 1..Len(bbs)
      /\ DOMAIN bbs[t].succs \subseteq 1..Len(bbs)
  <2>1. WfBlock(bbs[t], Len(bbs))
    BY <1>1 DEF WfBlocks
  <2> QED
    BY <1>1, <2>1 DEF Edges, Matched, WfBlock
<1>3. /\ Moved(t) <=> Asks(t)
      /\ t \in LostPreds(n) <=> Asks(t) /\ ~StillPoints(t, q, n)
  <2> HIDE DEF Asks, StillPoints, Moved, LostPreds
  <2> QED
    BY SplitMoved
<1>4. /\ \A b, d \in 1..Len(bbs) : d # q => (StillPoints(b, d, n) <=> Connected(bbs, b, d))
      /\ StillPoints(t, n, n) <=> Asks(t)
      /\ StillPoints(t, q, n) => Connected(bbs, t, q)
      /\ ~Asks(t) /\ Connected(bbs, t, q) => StillPoints(t, q, n)
  <2> HIDE DEF Asks, StillPoints, Connected
  <2> QED
    BY <1>1, SplitPoints
<1>5. PICK h : h = Hits(t)
  OBVIOUS
<1>6. h = 0 <=> ~Connected(bbs, q, t)
  <2> HIDE DEF Connected, Hits
  <2> QED
    BY <1>5, HitsConnected
<1>7. PICK preds : preds = IF h = 0 THEN bbs[t].preds
                           ELSE BagRemoveAll(bbs[t].preds, q) (+) [x \in {n} |-> h]
  OBVIOUS
<1>8. PICK succs : succs = IF t \in LostPreds(n) THEN BagRemoveAll(bbs[t].succs, q) ELSE bbs[t].succs
  OBVIOUS
<1>9. /\ Other(t, n).preds = preds
      /\ Other(t, n).succs = IF Moved(t) THEN BagAdd(succs, n) ELSE succs
  <2>1. Other(t, n) = [bbs[t] EXCEPT !.preds = preds,
                                     !.succs = IF Moved(t) THEN BagAdd(succs, n) ELSE succs,
                                     !.cfs   = MovedCfs(t, n)]
    <3> HIDE DEF Hits, MovedCfs, LostPreds, Moved
    <3> QED
      BY <1>5, <1>7, <1>8 DEF Other
  <2>2. DOMAIN bbs[t] = BlockFields
    BY <1>1 DEF WfBlocks, WfBlock
  <2> HIDE DEF Other, Moved, MovedCfs
  <2> QED
    BY <2>1, <2>2 DEF BlockFields
<1> HIDE DEF Other, Moved, LostPreds, Asks, StillPoints, Connected
<1>10. DOMAIN preds = IF h = 0 THEN DOMAIN bbs[t].preds ELSE (DOMAIN bbs[t].preds \ {q}) \cup {n}
  <2>1. \A B, x : DOMAIN BagRemoveAll(B, x) = DOMAIN B \ {x}
    BY BagDomains, Zenon
  <2>2. \A B, C : DOMAIN (B (+) C) = DOMAIN B \cup DOMAIN C
    BY BagDomains, Zenon
  <2>3. PICK R : R = BagRemoveAll(bbs[t].preds, q)
    OBVIOUS
  <2>4. PICK H : H = [x \in {n} |-> h]
    OBVIOUS
  <2>5. DOMAIN R = DOMAIN bbs[t].preds \ {q}
    BY <2>1, <2>3, Zenon
  <2>6. DOMAIN H = {n}
    BY <2>4
  <2>7. DOMAIN (R (+) H) = DOMAIN R \cup DOMAIN H
    BY <2>2, Zenon
  <2>8. preds = IF h = 0 THEN bbs[t].preds ELSE R (+) H
    BY <1>7, <2>3, <2>4, Zenon
  <2> QED
    BY <2>5, <2>6, <2>7, <2>8, Zenon
<1>11. \A b \in 1..Len(bbs) : b # q => (b \in DOMAIN preds <=> StillPoints(b, t, n))
  BY <1>1, <1>2, <1>4, <1>10
<1>12. q \notin DOMAIN preds /\ (n \in DOMAIN preds <=> StillPoints(q, t, n))
  BY <1>1, <1>2, <1>4, <1>6, <1>10
<1>13. t \in DOMAIN preds => preds[t] = 1
  <2> HAVE t \in DOMAIN preds
  <2>1. t # n /\ t \in DOMAIN bbs[t].preds
    BY <1>1, <1>10
  <2>2. bbs[t].preds[t] = 1
    BY <2>1 DEF Edges, Live, Simple
  <2>3. CASE h = 0
    BY <1>7, <2>2, <2>3
  <2>4. CASE h # 0
    <3>1. PICK R : R = BagRemoveAll(bbs[t].preds, q)
      OBVIOUS
    <3>2. t \in DOMAIN R /\ R[t] = 1
      BY <2>1, <2>2, <3>1 DEF BagRemoveAll
    <3>3. PICK H : H = [x \in {n} |-> h]
      OBVIOUS
    <3>4. t \notin DOMAIN H
      BY <2>1, <3>3
    <3>5. preds = R (+) H
      BY <1>7, <2>4, <3>1, <3>3, Zenon
    <3>6. (R (+) H)[t] = R[t] + 0
      BY <3>2, <3>4 DEF (+)
    <3> QED
      BY <3>2, <3>5, <3>6
  <2> QED
    BY <2>3, <2>4
<1>14. DOMAIN succs = IF t \in LostPreds(n) THEN DOMAIN bbs[t].succs \ {q} ELSE DOMAIN bbs[t].succs
  <2>1. \A B, x : DOMAIN BagRemoveAll(B, x) = DOMAIN B \ {x}
    BY BagDomains, Zenon
  <2> QED
    BY <1>8, <2>1
<1>15. DOMAIN Other(t, n).succs = IF Moved(t) THEN DOMAIN succs \cup {n} ELSE DOMAIN succs
  <2>1. \A B, x : DOMAIN BagAdd(B, x) = DOMAIN B \cup {x}
    BY BagDomains, Zenon
  <2> QED
    BY <1>9, <2>1
<1>16. \A d \in 1..n : d \in DOMAIN Other(t, n).succs <=> StillPoints(t, d, n)
  <2> TAKE d \in 1..n
  <2>1. CASE d = n
    <3>1. n \notin DOMAIN succs
      BY <1>1, <1>2, <1>14
    <3> QED
      BY <1>3, <1>4, <1>15, <2>1, <3>1
  <2>2. CASE d # n /\ d # q
    <3>1. d \in 1..Len(bbs)
      BY <1>1, <2>2
    <3> QED
      BY <1>2, <1>4, <1>14, <1>15, <2>2, <3>1
  <2>3. CASE d = q
    <3>1. d \in DOMAIN succs <=> Connected(bbs, t, q) /\ ~(Asks(t) /\ ~StillPoints(t, q, n))
      BY <1>1, <1>2, <1>3, <1>14, <2>3
    <3> QED
      BY <1>1, <1>4, <1>15, <2>3, <3>1
  <2> QED
    BY <2>1, <2>2, <2>3
<1> QED
  BY <1>9, <1>11, <1>12, <1>13, <1>16

(* The operations, the edges and the extents of the blocks C after the     *)
(* split, and what the operations name.                                    *)
OpsAfter(C, q, n) ==
  /\ Len(C) = n
  /\ DOMAIN C[n].cfs = DOMAIN bbs[q].cfs
  /\ \A k \in DOMAIN bbs[q].cfs : C[n].cfs[k] = Kept(bbs[q].cfs[k], n)
  /\ C[q].cfs = <<Cf("jump", FirstEnd, req.addr, n)>>
  /\ \A t \in 1..Len(bbs) : t # q =>
       /\ DOMAIN C[t].cfs = DOMAIN bbs[t].cfs
       /\ \A k \in DOMAIN bbs[t].cfs : C[t].cfs[k] = Kept(bbs[t].cfs[k], n)

EdgesAfter(C, q, n) ==
  /\ \A t \in 1..Len(bbs) : t # q => C[t].preds = Other(t, n).preds /\ C[t].succs = Other(t, n).succs
  /\ C[n].preds = Second(n).preds /\ C[n].succs = Second(n).succs
  /\ C[q].preds = FirstPreds(n) /\ C[q].succs = SetToBag({n})

NamesAfter(C, q, n) ==
  /\ \A d : Connected(C, n, d) <=> StillPoints(q, d, n)
  /\ \A d : d # Null => (Connected(C, q, d) <=> d = n)
  /\ \A t \in 1..Len(bbs) : t # q => \A d : Connected(C, t, d) <=> StillPoints(t, d, n)

LEMMA SplitBlocks ==
  ASSUME AllYield, Inv, Disjoint(bbs), Pointers, Jumps, Split, NEW n, n = Len(bbs) + 1, NEW q, q = req.bb,
         NEW C, C = bbs'
  PROVE  OpsAfter(C, q, n) /\ EdgesAfter(C, q, n) /\ NamesAfter(C, q, n)
<1>1. /\ phase = "split" /\ q \in 1..Len(bbs) /\ WfBlocks(bbs) /\ n \notin 1..Len(bbs)
  <2>1. phase = "split"
    BY DEF Split
  <2> QED
    BY <2>1, SplitFacts
<1>2. /\ Len(C) = n /\ C[n] = Second(n) /\ C[q] = First(n)
      /\ \A t \in 1..Len(bbs) : t # q => C[t] = Other(t, n)
  BY SplitCut
<1>3. /\ First(n).preds = FirstPreds(n) /\ First(n).succs = SetToBag({n})
  <2>1. DOMAIN bbs[q] = BlockFields
    BY <1>1 DEF WfBlocks, WfBlock
  <2>2. PICK P : P = FirstPreds(n)
    OBVIOUS
  <2>3. PICK S : S = SetToBag({n})
    OBVIOUS
  <2>4. First(n) = [bbs[q] EXCEPT !.code = {i \in @ : i < req.addr}, !.end = FirstEnd,
                                  !.cfs = <<Cf("jump", FirstEnd, req.addr, n)>>, !.preds = P, !.succs = S]
    <3> HIDE DEF FirstEnd, Cf, FirstPreds
    <3> QED
      BY <2>2, <2>3 DEF First
  <2>5. First(n).preds = P /\ First(n).succs = S
    <3> HIDE DEF First, FirstEnd, Cf
    <3> QED
      BY <2>1, <2>4 DEF BlockFields
  <2> QED
    BY <2>2, <2>3, <2>5
<1>4. /\ First(n).cfs = <<Cf("jump", FirstEnd, req.addr, n)>> /\ Second(n).cfs = SecondCfs(n)
      /\ \A t \in 1..Len(bbs) : Other(t, n).cfs = MovedCfs(t, n)
  BY <1>1, FirstWf, SecondWf, OtherWf
<1>5. /\ DOMAIN SecondCfs(n) = DOMAIN bbs[q].cfs
      /\ \A k \in DOMAIN bbs[q].cfs : SecondCfs(n)[k] = Kept(bbs[q].cfs[k], n)
      /\ \A t \in 1..Len(bbs) :
           /\ DOMAIN MovedCfs(t, n) = DOMAIN bbs[t].cfs
           /\ t # q => \A k \in DOMAIN bbs[t].cfs : MovedCfs(t, n)[k] = Kept(bbs[t].cfs[k], n)
  BY <1>1, SplitKept
<1> HIDE DEF First, Second, Other, Kept, Cf
<1>6. /\ DOMAIN C[n].cfs = DOMAIN bbs[q].cfs
      /\ \A k \in DOMAIN bbs[q].cfs : C[n].cfs[k] = Kept(bbs[q].cfs[k], n)
      /\ C[q].cfs = <<Cf("jump", FirstEnd, req.addr, n)>>
      /\ \A t \in 1..Len(bbs) : t # q =>
           /\ DOMAIN C[t].cfs = DOMAIN bbs[t].cfs
           /\ \A k \in DOMAIN bbs[t].cfs : C[t].cfs[k] = Kept(bbs[t].cfs[k], n)
  BY <1>1, <1>2, <1>4, <1>5
<1>7. \A d : Connected(C, n, d) <=> StillPoints(q, d, n)
  BY <1>6 DEF Connected, StillPoints
<1>8. \A t \in 1..Len(bbs) : t # q => \A d : Connected(C, t, d) <=> StillPoints(t, d, n)
  BY <1>6 DEF Connected, StillPoints
<1>9. \A d : d # Null => (Connected(C, q, d) <=> d = n)
  <2> TAKE d
  <2> HAVE d # Null
  <2>1. PICK o : o = Cf("jump", FirstEnd, req.addr, n)
    OBVIOUS
  <2>2. DOMAIN C[q].cfs = {1} /\ C[q].cfs[1] = o
    BY <1>6, <2>1, SingleIsSeq
  <2>3. Points(o, d) <=> d = n
    BY <2>1 DEF Points, Cf
  <2> HIDE DEF Points
  <2> QED
    BY <2>2, <2>3 DEF Connected
<1>10. OpsAfter(C, q, n)
  BY <1>2, <1>6 DEF OpsAfter
<1>11. EdgesAfter(C, q, n)
  BY <1>2, <1>3 DEF EdgesAfter
<1>12. NamesAfter(C, q, n)
  <2> HIDE DEF Connected, StillPoints
  <2> QED
    BY <1>7, <1>8, <1>9 DEF NamesAfter
<1> QED
  BY <1>10, <1>11, <1>12

(* The edges follow the operations. *)
LEMMA SplitMatched ==
  ASSUME AllYield, Inv, Disjoint(bbs), Pointers, Jumps, Edges, Split, NEW C, C = bbs'
  PROVE  Matched(C) /\ Simple(C)
<1>1. PICK n : n = Len(bbs) + 1
  OBVIOUS
<1>2. PICK q : q = req.bb
  OBVIOUS
<1>3. /\ phase = "split" /\ q \in 1..Len(bbs) /\ n \notin 1..Len(bbs) /\ q # n
      /\ \A d \in 1..n : d # Null /\ (d \in 1..Len(bbs) \/ d = n)
      /\ Len(C) = n
  <2>1. phase = "split"
    BY DEF Split
  <2>2. Len(bbs) \in Nat /\ q \in 1..Len(bbs)
    BY <1>2, <2>1, SplitFacts
  <2>3. Len(C) = n
    BY <1>1, <1>2, SplitBlocks DEF OpsAfter
  <2> QED
    BY <1>1, <2>1, <2>2, <2>3 DEF Null
<1>4. /\ \A t \in 1..Len(bbs) : t # q => C[t].preds = Other(t, n).preds /\ C[t].succs = Other(t, n).succs
      /\ C[n].preds = Second(n).preds /\ C[n].succs = Second(n).succs
      /\ C[q].preds = FirstPreds(n) /\ C[q].succs = SetToBag({n})
  <2>1. EdgesAfter(C, q, n)
    BY <1>1, <1>2, SplitBlocks
  <2> QED
    BY <2>1 DEF EdgesAfter
<1>5. /\ \A d : Connected(C, n, d) <=> StillPoints(q, d, n)
      /\ \A d : d # Null => (Connected(C, q, d) <=> d = n)
      /\ \A t \in 1..Len(bbs) : t # q => \A d : Connected(C, t, d) <=> StillPoints(t, d, n)
  <2>1. NamesAfter(C, q, n)
    BY <1>1, <1>2, SplitBlocks
  <2> HIDE DEF Connected, StillPoints
  <2> QED
    BY <2>1 DEF NamesAfter
<1> HIDE DEF Connected, StillPoints, Asks
<1>6. /\ q \notin DOMAIN FirstPreds(n)
      /\ n \in DOMAIN FirstPreds(n) <=> StillPoints(q, q, n)
      /\ \A b \in 1..Len(bbs) : b # q => (b \in DOMAIN FirstPreds(n) <=> StillPoints(b, q, n))
  BY <1>1, <1>2, <1>3, FirstPredsAre
<1>7. /\ \A b \in 1..Len(bbs) : b \in DOMAIN Second(n).preds <=> b = q \/ Asks(b)
      /\ n \in DOMAIN Second(n).preds <=> Asks(q)
      /\ Second(n).preds = SetToBag(DOMAIN Second(n).preds)
      /\ \A d \in 1..Len(bbs) : d \in DOMAIN Second(n).succs <=> StillPoints(q, d, n)
      /\ n \in DOMAIN Second(n).succs <=> StillPoints(q, n, n)
  BY <1>1, <1>2, <1>3, SecondEdges
<1>8. ASSUME NEW t \in 1..Len(bbs), t # q
      PROVE  /\ \A b \in 1..Len(bbs) : b # q => (b \in DOMAIN Other(t, n).preds <=> StillPoints(b, t, n))
             /\ q \notin DOMAIN Other(t, n).preds
             /\ n \in DOMAIN Other(t, n).preds <=> StillPoints(q, t, n)
             /\ t \in DOMAIN Other(t, n).preds => Other(t, n).preds[t] = 1
             /\ \A d \in 1..n : d \in DOMAIN Other(t, n).succs <=> StillPoints(t, d, n)
  BY <1>1, <1>2, <1>3, <1>8, OtherEdges
<1>9. \A t \in 1..Len(bbs) : StillPoints(t, n, n) <=> Asks(t)
  <2> TAKE t \in 1..Len(bbs)
  <2> QED
    BY <1>1, <1>2, <1>3, SplitPoints
<1>10. DOMAIN C[q].succs = {n}
  <2>1. \A S : DOMAIN SetToBag(S) = S
    BY BagDomains, Zenon
  <2> QED
    BY <1>4, <2>1, Zenon
<1>11. ASSUME NEW c \in 1..n, NEW d \in 1..n
       PROVE  c \in DOMAIN C[d].preds <=> Connected(C, c, d)
  <2>1. CASE d = q
    <3>1. CASE c = q
      BY <1>3, <1>4, <1>5, <1>6, <2>1, <3>1
    <3>2. CASE c = n
      BY <1>3, <1>4, <1>5, <1>6, <2>1, <3>2
    <3>3. CASE c \in 1..Len(bbs) /\ c # q
      BY <1>4, <1>5, <1>6, <2>1, <3>3
    <3> QED
      BY <1>3, <3>1, <3>2, <3>3
  <2>2. CASE d = n
    <3>1. CASE c = q
      BY <1>3, <1>4, <1>5, <1>7, <2>2, <3>1
    <3>2. CASE c = n
      BY <1>3, <1>4, <1>5, <1>7, <1>9, <2>2, <3>2
    <3>3. CASE c \in 1..Len(bbs) /\ c # q
      BY <1>4, <1>5, <1>7, <1>9, <2>2, <3>3
    <3> QED
      BY <1>3, <3>1, <3>2, <3>3
  <2>3. CASE d \in 1..Len(bbs) /\ d # q
    <3>1. CASE c = q
      BY <1>3, <1>4, <1>5, <1>8, <2>3, <3>1
    <3>2. CASE c = n
      BY <1>3, <1>4, <1>5, <1>8, <2>3, <3>2
    <3>3. CASE c \in 1..Len(bbs) /\ c # q
      BY <1>4, <1>5, <1>8, <2>3, <3>3
    <3> QED
      BY <1>3, <3>1, <3>2, <3>3
  <2> QED
    BY <1>3, <2>1, <2>2, <2>3
<1>12. ASSUME NEW c \in 1..n, NEW d \in 1..n
       PROVE  d \in DOMAIN C[c].succs <=> Connected(C, c, d)
  <2>1. CASE c = q
    BY <1>3, <1>5, <1>10, <2>1
  <2>2. CASE c = n
    BY <1>3, <1>4, <1>5, <1>7, <2>2
  <2>3. CASE c \in 1..Len(bbs) /\ c # q
    BY <1>4, <1>5, <1>8, <2>3
  <2> QED
    BY <1>3, <2>1, <2>2, <2>3
<1>13. ASSUME NEW c \in 1..n, c \in DOMAIN C[c].preds
       PROVE  C[c].preds[c] = 1
  <2>1. CASE c = q
    BY <1>4, <1>6, <1>13, <2>1
  <2>2. CASE c = n
    <3>1. PICK S : S = DOMAIN Second(n).preds
      OBVIOUS
    <3>2. C[c].preds = SetToBag(S) /\ c \in S
      BY <1>4, <1>7, <1>13, <2>2, <3>1
    <3>3. SetToBag(S)[c] = 1
      BY <3>2 DEF SetToBag
    <3> QED
      BY <3>2, <3>3
  <2>3. CASE c \in 1..Len(bbs) /\ c # q
    BY <1>4, <1>8, <1>13, <2>3
  <2> QED
    BY <1>3, <2>1, <2>2, <2>3
<1> QED
  BY <1>3, <1>11, <1>12, <1>13 DEF Matched, Simple

(* An operation keeps its shape in the block it is in afterwards. *)
LEMMA KeptShaped ==
  ASSUME AllYield, Inv, Disjoint(bbs), Pointers, Jumps, Edges, phase = "split", NEW n, n = Len(bbs) + 1,
         NEW t \in 1..Len(bbs), NEW k \in DOMAIN bbs[t].cfs, NEW o, o = Kept(bbs[t].cfs[k], n),
         NEW C, \A c \in 1..Len(bbs) : C[c].start = bbs[c].start,
         NEW b, b.end = bbs[t].end, bbs[t].end \in bbs[t].code => bbs[t].end \in b.code
  PROVE  Shaped(o, b, C)
<1>1. PICK cf : cf = bbs[t].cfs[k]
  OBVIOUS
<1>2. /\ WfCf(cf, Len(bbs)) /\ Shaped(cf, bbs[t], bbs)
      /\ Asks(t) /\ k = cfi => o.target = n /\ cf.target = req.bb /\ Direct(cf)
      /\ ~(Asks(t) /\ k = cfi) => o = cf
      /\ o.cont = cf.cont /\ o.type = cf.type /\ o.jump = cf.jump /\ o.instr = cf.instr
  <2> HIDE DEF Asks, Kept
  <2> QED
    BY <1>1, KeptFields
<1>3. cf.cont # Null => C[cf.cont].start = bbs[cf.cont].start
  <2>1. Len(bbs) \in Nat
    BY SplitFacts
  <2>2. cf.cont # Null => cf.cont \in 1..Len(bbs)
    BY <1>2, <2>1 DEF WfCf, Null
  <2> QED
    BY <2>2
<1>4. Direct(o) <=> Direct(cf)
  BY <1>2 DEF Direct
<1>5. o.target # Null => Direct(o)
  <2>1. CASE Asks(t) /\ k = cfi
    BY <1>2, <1>4, <2>1
  <2>2. CASE ~(Asks(t) /\ k = cfi)
    BY <1>2, <2>2 DEF Shaped
  <2> QED
    BY <2>1, <2>2
<1>6. Direct(o) => o.jump # 0
  BY <1>2, <1>4 DEF Shaped
<1>7. o.type \in CallTypes => o.instr = b.end /\ o.instr \in b.code
  BY <1>2 DEF Shaped
<1>8. o.cont # Null => o.type \in CallTypes /\ C[o.cont].start = o.instr + 1
  BY <1>2, <1>3 DEF Shaped
<1> QED
  BY <1>5, <1>6, <1>7, <1>8 DEF Shaped

(* The three kinds of blocks after the split. *)
LEMMA SplitExtents ==
  ASSUME AllYield, Inv, Disjoint(bbs), Pointers, Split, NEW n, n = Len(bbs) + 1, NEW q, q = req.bb,
         NEW C, C = bbs'
  PROVE  /\ phase = "split" /\ q \in 1..Len(bbs) /\ Len(bbs) \in Nat /\ n # q /\ n # Null /\ Len(C) = n
         /\ \A b \in 1..n : b = n \/ b = q \/ (b \in 1..Len(bbs) /\ b # q)
         /\ req.addr # 0 /\ C[q].end # 0 /\ C[n].end # 0
         /\ C[n].end = bbs[q].end /\ (bbs[q].end \in bbs[q].code => bbs[q].end \in C[n].code)
         /\ \A c \in 1..Len(bbs) : C[c].start = bbs[c].start
         /\ \A c \in 1..Len(bbs) : c # q => C[c].end = bbs[c].end /\ C[c].code = bbs[c].code
         /\ \A a \in Slots : ptr[a] # Null => ptr'[a] # Null
<1>1. phase = "split"
  BY DEF Split
<1>2. q \in 1..Len(bbs) /\ Len(bbs) \in Nat /\ n # q /\ n # Null /\ q # Null
  BY <1>1, SplitFacts DEF Null
<1>3. PICK s : s = bbs[q].start
  OBVIOUS
<1>4. PICK e : e = bbs[q].end
  OBVIOUS
<1>5. PICK a : a = req.addr
  OBVIOUS
<1>6. Cut(bbs, C, ptr, ptr', q, n, s, e, a)
  BY <1>3, <1>4, <1>5, SplitCut
<1>7. e \in Int /\ a \in 1..e /\ s \in 1..(a - 1) /\ Len(C) = n
  BY <1>6, NAssumption DEF Cut, Slots
<1>8. a # 0 /\ a - 1 # 0 /\ e # 0 /\ a <= e
  BY <1>7
<1>9. /\ C[q].end # 0 /\ C[n].end # 0 /\ C[n].end = e
      /\ e \in bbs[q].code => e \in C[n].code
  BY <1>6, <1>7, <1>8 DEF Cut
<1>10. /\ \A c \in 1..Len(bbs) : C[c].start = bbs[c].start
       /\ \A c \in 1..Len(bbs) : c # q => C[c].end = bbs[c].end /\ C[c].code = bbs[c].code
  BY <1>3, <1>6 DEF Cut
<1>11. \A x \in Slots : ptr[x] # Null => ptr'[x] # Null
  <2> TAKE x \in Slots
  <2>1. x \in Int
    BY NAssumption DEF Slots
  <2>2. x \in s..(a - 1) \/ x \in a..e \/ x \notin s..e
    BY <1>7, <2>1
  <2> QED
    BY <1>2, <1>6, <2>2 DEF Cut
<1>12. \A b \in 1..n : b = n \/ b = q \/ (b \in 1..Len(bbs) /\ b # q)
  BY <1>2
<1> QED
  BY <1>1, <1>2, <1>4, <1>5, <1>7, <1>8, <1>9, <1>10, <1>11, <1>12

(* Edges, operations and extents belong together after a split.            *)
LEMMA SplitWired ==
  ASSUME AllYield, Inv, Disjoint(bbs), Pointers, Jumps, Edges, Split, NEW C, C = bbs'
  PROVE  Wired(C)
<1>1. PICK n : n = Len(bbs) + 1
  OBVIOUS
<1>2. PICK q : q = req.bb
  OBVIOUS
<1>3. /\ phase = "split" /\ q \in 1..Len(bbs) /\ n # q /\ Len(C) = n
      /\ \A b \in 1..n : b = n \/ b = q \/ (b \in 1..Len(bbs) /\ b # q)
      /\ req.addr # 0
      /\ C[n].end = bbs[q].end /\ (bbs[q].end \in bbs[q].code => bbs[q].end \in C[n].code)
      /\ \A c \in 1..Len(bbs) : C[c].start = bbs[c].start
      /\ \A c \in 1..Len(bbs) : c # q => C[c].end = bbs[c].end /\ C[c].code = bbs[c].code
  BY <1>1, <1>2, SplitExtents
<1>4. OpsAfter(C, q, n)
  BY <1>1, <1>2, SplitBlocks
<1>5. Matched(C) /\ Simple(C)
  BY SplitMatched
<1>6. ASSUME NEW b \in 1..n, NEW k \in DOMAIN C[b].cfs
      PROVE  Shaped(C[b].cfs[k], C[b], C)
  <2>1. CASE b = n
    <3>1. k \in DOMAIN bbs[q].cfs /\ C[b].cfs[k] = Kept(bbs[q].cfs[k], n)
      BY <1>4, <1>6, <2>1 DEF OpsAfter
    <3>2. PICK o, x : o = Kept(bbs[q].cfs[k], n) /\ x = C[n]
      OBVIOUS
    <3>3. x.end = bbs[q].end /\ (bbs[q].end \in bbs[q].code => bbs[q].end \in x.code)
      BY <1>3, <3>2
    <3>4. q \in 1..Len(bbs) /\ phase = "split" /\ \A c \in 1..Len(bbs) : C[c].start = bbs[c].start
      BY <1>3
    <3>5. Shaped(o, x, C)
      <4> HIDE DEF Kept, Shaped
      <4> QED
        BY <1>1, <3>1, <3>2, <3>3, <3>4, KeptShaped
    <3>6. C[b].cfs[k] = o /\ C[b] = x
      BY <2>1, <3>1, <3>2
    <3> QED
      BY <3>5, <3>6
  <2>2. CASE b = q
    <3>1. PICK o : o = Cf("jump", FirstEnd, req.addr, n)
      OBVIOUS
    <3>2. C[b].cfs[k] = o
      <4>1. C[b].cfs = <<o>>
        BY <1>4, <2>2, <3>1 DEF OpsAfter
      <4> QED
        BY <1>6, <4>1, SingleIsSeq
    <3>3. o.type = "jump" /\ o.jump # 0 /\ o.cont = Null
      BY <1>3, <3>1 DEF Cf
    <3> QED
      BY <3>2, <3>3 DEF Shaped, Direct, CallTypes
  <2>3. CASE b \in 1..Len(bbs) /\ b # q
    <3>1. k \in DOMAIN bbs[b].cfs /\ C[b].cfs[k] = Kept(bbs[b].cfs[k], n)
      BY <1>4, <1>6, <2>3 DEF OpsAfter
    <3>2. PICK o, x : o = Kept(bbs[b].cfs[k], n) /\ x = C[b]
      OBVIOUS
    <3>3. x.end = bbs[b].end /\ (bbs[b].end \in bbs[b].code => bbs[b].end \in x.code)
      BY <1>3, <2>3, <3>2
    <3>4. b \in 1..Len(bbs) /\ phase = "split" /\ \A c \in 1..Len(bbs) : C[c].start = bbs[c].start
      BY <1>3, <2>3
    <3>5. Shaped(o, x, C)
      <4> HIDE DEF Kept, Shaped
      <4> QED
        BY <1>1, <3>1, <3>2, <3>3, <3>4, KeptShaped
    <3>6. C[b].cfs[k] = o /\ C[b] = x
      BY <3>1, <3>2
    <3> QED
      BY <3>5, <3>6
  <2> QED
    BY <1>3, <2>1, <2>2, <2>3
<1>7. AllShaped(C)
  BY <1>3, <1>6 DEF AllShaped
<1> QED
  BY <1>5, <1>7 DEF Wired

(* After a split for a register address every call still finds a block.    *)
LEMMA SplitLanded ==
  ASSUME AllYield, Inv, Disjoint(bbs), Pointers, Jumps, Edges, Split, ~Lifting, NEW C, C = bbs', NEW p, p = ptr'
  PROVE  \A b \in 1..Len(C) : \A k \in DOMAIN C[b].cfs : Landed(C[b].cfs[k], p)
<1>1. PICK n : n = Len(bbs) + 1
  OBVIOUS
<1>2. PICK q : q = req.bb
  OBVIOUS
<1>3. /\ phase = "split" /\ q \in 1..Len(bbs) /\ n # q /\ Len(C) = n
      /\ \A b \in 1..n : b = n \/ b = q \/ (b \in 1..Len(bbs) /\ b # q)
      /\ \A a \in Slots : ptr[a] # Null => p[a] # Null
  BY <1>1, <1>2, SplitExtents
<1>4. OpsAfter(C, q, n)
  BY <1>1, <1>2, SplitBlocks
<1>5. \A b \in 1..Len(bbs) : \A k \in DOMAIN bbs[b].cfs : Landed(bbs[b].cfs[k], ptr)
  <2>1. Live
    BY <1>3 DEF Live
  <2> QED
    BY <2>1, Settled
<1>6. ASSUME NEW t \in 1..Len(bbs), NEW k \in DOMAIN bbs[t].cfs
      PROVE  Landed(Kept(bbs[t].cfs[k], n), p)
  <2>1. PICK cf : cf = bbs[t].cfs[k]
    OBVIOUS
  <2>2. PICK o : o = Kept(cf, n)
    OBVIOUS
  <2>3. o = cf
    <3>1. ~Asks(t)
      BY DEF Asks
    <3> HIDE DEF Asks, Kept
    <3> QED
      BY <1>1, <1>3, <2>1, <2>2, <3>1, KeptFields
  <2>4. Landed(cf, ptr)
    BY <1>5, <2>1
  <2>5. Landed(o, p)
    BY <1>3, <2>3, <2>4 DEF Landed
  <2> QED
    BY <2>1, <2>2, <2>5
<1>7. ASSUME NEW b \in 1..n, NEW k \in DOMAIN C[b].cfs
      PROVE  Landed(C[b].cfs[k], p)
  <2>1. CASE b = n
    <3>1. k \in DOMAIN bbs[q].cfs /\ C[b].cfs[k] = Kept(bbs[q].cfs[k], n)
      BY <1>4, <1>7, <2>1 DEF OpsAfter
    <3> QED
      BY <1>3, <1>6, <3>1
  <2>2. CASE b = q
    <3>1. PICK o : o = Cf("jump", FirstEnd, req.addr, n)
      OBVIOUS
    <3>2. C[b].cfs[k] = o
      <4>1. C[b].cfs = <<o>>
        BY <1>4, <2>2, <3>1 DEF OpsAfter
      <4> QED
        BY <1>7, <4>1, SingleIsSeq
    <3>3. o.type = "jump"
      BY <3>1 DEF Cf
    <3> QED
      BY <3>2, <3>3 DEF Landed
  <2>3. CASE b \in 1..Len(bbs) /\ b # q
    <3>1. k \in DOMAIN bbs[b].cfs /\ C[b].cfs[k] = Kept(bbs[b].cfs[k], n)
      BY <1>4, <1>7, <2>3 DEF OpsAfter
    <3> QED
      BY <1>6, <2>3, <3>1
  <2> QED
    BY <1>3, <2>1, <2>2, <2>3
<1> QED
  BY <1>3, <1>7

(* What follows a split in the loop over the operations of a block.        *)
LEMMA SplitGoesOn ==
  ASSUME AllYield, Inv, Disjoint(bbs), Pointers, Jumps, Split, Lifting,
         NEW next, next = IF req.bb = cur THEN Len(bbs) + 1 ELSE cur
  PROVE  /\ prog' = prog /\ needs' = needs
         /\ phase = "split" /\ cur \in 1..Len(bbs) /\ cfi \in Nat /\ cfi \in DOMAIN bbs[cur].cfs
         /\ \A k \in DOMAIN bbs[cur].cfs : k \in Nat /\ k <= Len(bbs[cur].cfs)
         /\ Len(bbs[cur].cfs) \in Nat
         /\ pos \in Int /\ Horizon = pos /\ Horizon' = pos
         /\ \/ phase' = "cf" /\ cfi < Len(bbs[cur].cfs) /\ cfi' = cfi + 1 /\ cur' = next /\ pos' = pos
            \/ phase' = "scan" /\ cfi >= Len(bbs[cur].cfs) /\ cur' = Null /\ pos' = pos + 1
<1>1. /\ phase = "split" /\ WfBlocks(bbs) /\ pos \in Int /\ Horizon = pos /\ Len(bbs) \in Nat
  <2>1. phase = "split"
    BY DEF Split
  <2> QED
    BY <2>1, SplitFacts
<1>2. cur \in 1..Len(bbs) /\ cfi \in DOMAIN bbs[cur].cfs
  BY <1>1, AskedOperation
<1>3. WfCfs(bbs[cur].cfs, Len(bbs))
  BY <1>1, <1>2 DEF WfBlocks, WfBlock
<1>4. Len(bbs[cur].cfs) \in Nat /\ DOMAIN bbs[cur].cfs = 1..Len(bbs[cur].cfs)
  BY <1>3 DEF WfCfs, IsSeq
<1>5. cfi \in Nat /\ \A k \in DOMAIN bbs[cur].cfs : k \in Nat /\ k <= Len(bbs[cur].cfs)
  BY <1>2, <1>4
<1>6. prog' = prog /\ needs' = needs /\ NextCf(next)
  <2>1. req.back = "cf"
    BY <1>1 DEF Lifting
  <2> QED
    BY <2>1 DEF Split
<1>7. \/ phase' = "cf" /\ cfi < Len(bbs[cur].cfs) /\ cfi' = cfi + 1 /\ cur' = next /\ pos' = pos
      \/ phase' = "scan" /\ cfi >= Len(bbs[cur].cfs) /\ cur' = Null /\ pos' = pos + 1
  BY <1>4, <1>5, <1>6 DEF NextCf
<1>8. Horizon' = pos
  BY <1>1, <1>7 DEF Horizon
<1> QED
  BY <1>1, <1>2, <1>4, <1>5, <1>6, <1>7, <1>8

(* A call without target is still waiting, or still has its block; nothing *)
(* continues anywhere; the operations that wait jump where they did.       *)
LEMMA SplitOps ==
  ASSUME AllYield, Inv, Disjoint(bbs), Pointers, Jumps, Edges, Split, Lifting
  PROVE  Unvisited' /\ AllLand' /\ AsIssued'
<1>1. PICK n : n = Len(bbs) + 1
  OBVIOUS
<1>2. PICK q : q = req.bb
  OBVIOUS
<1>3. PICK next : next = IF q = cur THEN n ELSE cur
  OBVIOUS
<1>4. PICK C : C = bbs'
  OBVIOUS
<1>5. /\ phase = "split" /\ q \in 1..Len(bbs) /\ n # q /\ n # Null /\ Len(C) = n
      /\ \A b \in 1..n : b = n \/ b = q \/ (b \in 1..Len(bbs) /\ b # q)
      /\ \A a \in Slots : ptr[a] # Null => ptr'[a] # Null
  BY <1>1, <1>2, <1>4, SplitExtents
<1>6. OpsAfter(C, q, n)
  BY <1>1, <1>2, <1>4, SplitBlocks
<1>7. /\ prog' = prog /\ needs' = needs
      /\ cur \in 1..Len(bbs) /\ cfi \in Nat
      /\ \A k \in DOMAIN bbs[cur].cfs : k \in Nat /\ k <= Len(bbs[cur].cfs)
      /\ Len(bbs[cur].cfs) \in Nat
      /\ pos \in Int /\ Horizon = pos /\ Horizon' = pos
      /\ \/ phase' = "cf" /\ cfi < Len(bbs[cur].cfs) /\ cfi' = cfi + 1 /\ cur' = next /\ pos' = pos
         \/ phase' = "scan" /\ cfi >= Len(bbs[cur].cfs) /\ cur' = Null /\ pos' = pos + 1
  BY <1>1, <1>2, <1>3, SplitGoesOn
<1>8. Unvisited /\ AllLand /\ AsIssued
  BY <1>5 DEF Edges, Live
<1>9. Lifting'
  BY <1>7 DEF Lifting
<1>10. \A cf : Lands(cf) => Lands(cf)'
  <2>1. \A a \in Slots : Awaits(a) => Awaits(a)'
    BY <1>7 DEF Awaits, IsInstr
  <2> HIDE DEF Awaits, Lands
  <2> QED
    BY <1>5, <2>1, LandsKept
<1>11. PICK L : L = [t \in 1..Len(bbs) |-> IF t = q THEN n ELSE t]
  OBVIOUS
<1>12. \A b \in 1..n : \A k \in DOMAIN C[b].cfs :
         \/ b = q /\ C[b].cfs[k] = Cf("jump", FirstEnd, req.addr, n)
         \/ \E t \in 1..Len(bbs) : b = L[t] /\ k \in DOMAIN bbs[t].cfs /\ C[b].cfs[k] = Kept(bbs[t].cfs[k], n)
  <2> TAKE b \in 1..n
  <2> TAKE k \in DOMAIN C[b].cfs
  <2> HIDE DEF Kept, Cf, FirstEnd
  <2>1. CASE b = n
    <3>1. k \in DOMAIN bbs[q].cfs /\ C[b].cfs[k] = Kept(bbs[q].cfs[k], n)
      BY <1>6, <2>1 DEF OpsAfter
    <3>2. L[q] = n
      BY <1>5, <1>11
    <3> QED
      BY <1>5, <2>1, <3>1, <3>2
  <2>2. CASE b = q
    <3>1. PICK o : o = Cf("jump", FirstEnd, req.addr, n)
      OBVIOUS
    <3>2. C[b].cfs[k] = o
      <4>1. C[b].cfs = <<o>>
        BY <1>6, <2>2, <3>1 DEF OpsAfter
      <4> QED
        BY <4>1, SingleIsSeq
    <3> QED
      BY <2>2, <3>1, <3>2
  <2>3. CASE b \in 1..Len(bbs) /\ b # q
    <3>1. k \in DOMAIN bbs[b].cfs /\ C[b].cfs[k] = Kept(bbs[b].cfs[k], n)
      BY <1>6, <2>3 DEF OpsAfter
    <3>2. L[b] = b
      BY <1>11, <2>3
    <3> QED
      BY <2>3, <3>1, <3>2
  <2> QED
    BY <1>5, <2>1, <2>2, <2>3
<1>13. ASSUME NEW t \in 1..Len(bbs), NEW k \in DOMAIN bbs[t].cfs, NEW cf, cf = bbs[t].cfs[k], NEW o, o = Kept(cf, n)
       PROVE  /\ t = cur /\ k = cfi => o.target = n
              /\ ~(t = cur /\ k = cfi) => o = cf
              /\ o.cont = Null /\ o.type = cf.type /\ o.jump = cf.jump
  <2>1. Asks(t) <=> t = cur
    BY DEF Asks
  <2>2. /\ Asks(t) /\ k = cfi => o.target = n /\ cf.target = req.bb /\ Direct(cf)
        /\ ~(Asks(t) /\ k = cfi) => o = cf
        /\ o.cont = cf.cont /\ o.type = cf.type /\ o.jump = cf.jump /\ o.instr = cf.instr
        /\ cf.cont = Null
    <3> HIDE DEF Asks, Kept
    <3> QED
      BY <1>1, <1>5, <1>13, KeptFields
  <2> QED
    BY <2>1, <2>2
<1>14. ASSUME NEW k \in DOMAIN bbs[cur].cfs, k >= cfi, k # cfi
       PROVE  Waiting(next, k)' /\ L[cur] = next
  <2>1. k \in Nat /\ k <= Len(bbs[cur].cfs) /\ k > cfi /\ k >= cfi + 1
    BY <1>7, <1>14
  <2>2. phase' = "cf" /\ cfi' = cfi + 1 /\ cur' = next
    BY <1>7, <2>1
  <2>3. L[cur] = next
    BY <1>3, <1>7, <1>11
  <2> QED
    BY <1>9, <2>1, <2>2, <2>3 DEF Waiting
<1> HIDE DEF Kept, Waiting, Lands
<1>15. \A b \in 1..n : \A k \in DOMAIN C[b].cfs : C[b].cfs[k].cont = Null
  <2> TAKE b \in 1..n
  <2> TAKE k \in DOMAIN C[b].cfs
  <2>1. CASE C[b].cfs[k] = Cf("jump", FirstEnd, req.addr, n)
    BY <2>1 DEF Cf
  <2>2. CASE \E t \in 1..Len(bbs) : b = L[t] /\ k \in DOMAIN bbs[t].cfs /\ C[b].cfs[k] = Kept(bbs[t].cfs[k], n)
    BY <1>13, <2>2
  <2> QED
    BY <1>12, <2>1, <2>2
<1>16. Unvisited'
  BY <1>4, <1>5, <1>15 DEF Unvisited
<1>17. ASSUME NEW b \in 1..n, NEW k \in DOMAIN C[b].cfs, NEW o, o = C[b].cfs[k]
       PROVE  Waiting(b, k)' \/ Lands(o)'
  <2>1. CASE o = Cf("jump", FirstEnd, req.addr, n)
    <3>1. o.type = "jump"
      BY <2>1 DEF Cf
    <3> QED
      BY <3>1 DEF Lands
  <2>2. CASE \E t \in 1..Len(bbs) : b = L[t] /\ k \in DOMAIN bbs[t].cfs /\ o = Kept(bbs[t].cfs[k], n)
    <3>1. PICK t \in 1..Len(bbs) : b = L[t] /\ k \in DOMAIN bbs[t].cfs /\ o = Kept(bbs[t].cfs[k], n)
      BY <2>2
    <3>2. PICK cf : cf = bbs[t].cfs[k]
      OBVIOUS
    <3>3. /\ t = cur /\ k = cfi => o.target = n
          /\ ~(t = cur /\ k = cfi) => o = cf
      BY <1>13, <3>1, <3>2
    <3>4. CASE t = cur /\ k = cfi
      BY <1>5, <3>3, <3>4 DEF Lands
    <3>5. CASE ~(t = cur /\ k = cfi) /\ Waiting(t, k)
      <4>1. t = cur /\ k >= cfi
        BY <3>5 DEF Waiting
      <4> QED
        BY <1>14, <3>1, <3>5, <4>1
    <3>6. CASE ~(t = cur /\ k = cfi) /\ ~Waiting(t, k)
      <4>1. Lands(cf)
        BY <1>8, <3>1, <3>2, <3>6 DEF AllLand
      <4>2. o = cf
        BY <3>3, <3>6
      <4> QED
        BY <1>10, <4>1, <4>2
    <3> QED
      BY <3>4, <3>5, <3>6
  <2> QED
    BY <1>12, <1>17, <2>1, <2>2
<1>18. AllLand'
  <2> SUFFICES ASSUME NEW b \in 1..n, NEW k \in DOMAIN C[b].cfs
               PROVE  Waiting(b, k)' \/ Lands(bbs[b].cfs[k])'
    BY <1>4, <1>5 DEF AllLand
  <2>1. PICK o : o = C[b].cfs[k]
    OBVIOUS
  <2>2. Waiting(b, k)' \/ Lands(o)'
    BY <1>17, <2>1
  <2>3. bbs'[b].cfs[k] = o
    BY <1>4, <2>1
  <2>4. Lands(o)' => Lands(bbs[b].cfs[k])'
    BY <2>3 DEF Lands
  <2> QED
    BY <2>2, <2>4
<1>19. AsIssued'
  <2> SUFFICES ASSUME phase' # "scan", NEW k \in DOMAIN bbs'[cur'].cfs, Direct(bbs'[cur'].cfs[k])
               PROVE  bbs'[cur'].cfs[k].jump = Issued'[k].jump
    BY DEF AsIssued, Direct
  <2>1. cur' = next /\ pos' = pos
    BY <1>7
  <2>2. PICK I : I = Issued
    OBVIOUS
  <2>3. Issued' = I
    BY <1>7, <2>1, <2>2 DEF Issued
  <2>4. k \in DOMAIN bbs[cur].cfs /\ C[next].cfs[k] = Kept(bbs[cur].cfs[k], n)
    <3>1. CASE q = cur
      BY <1>3, <1>4, <1>6, <2>1, <3>1 DEF OpsAfter
    <3>2. CASE q # cur
      BY <1>3, <1>4, <1>6, <1>7, <2>1, <3>2 DEF OpsAfter
    <3> QED
      BY <3>1, <3>2
  <2>5. PICK cf : cf = bbs[cur].cfs[k]
    OBVIOUS
  <2>6. PICK o : o = Kept(cf, n)
    OBVIOUS
  <2>7. o.type = cf.type /\ o.jump = cf.jump
    BY <1>7, <1>13, <2>4, <2>5, <2>6
  <2>8. bbs'[cur'].cfs[k] = o
    BY <1>4, <2>1, <2>4, <2>5, <2>6
  <2>9. Direct(cf)
    BY <2>7, <2>8 DEF Direct
  <2>10. cf.jump = I[k].jump
    <3>1. \A l \in DOMAIN bbs[cur].cfs : Direct(bbs[cur].cfs[l]) => bbs[cur].cfs[l].jump = I[l].jump
      BY <1>5, <1>8, <2>2 DEF AsIssued
    <3> HIDE DEF Direct
    <3> QED
      BY <2>4, <2>5, <2>9, <3>1
  <2> QED
    BY <2>3, <2>7, <2>8, <2>10
<1> QED
  BY <1>16, <1>18, <1>19

LEMMA SplitEdges ==
  ASSUME AllYield, Inv, Disjoint(bbs), Pointers, Jumps, Edges, Split
  PROVE  Edges'
<1>1. PICK n : n = Len(bbs) + 1
  OBVIOUS
<1>2. PICK q : q = req.bb
  OBVIOUS
<1>3. PICK C : C = bbs'
  OBVIOUS
<1>4. /\ phase = "split" /\ q \in 1..Len(bbs) /\ Len(bbs) \in Nat /\ Len(C) = n
      /\ \A b \in 1..n : b = n \/ b = q \/ (b \in 1..Len(bbs) /\ b # q)
      /\ C[q].end # 0 /\ C[n].end # 0
      /\ \A c \in 1..Len(bbs) : c # q => C[c].end = bbs[c].end /\ C[c].code = bbs[c].code
  BY <1>1, <1>2, <1>3, SplitExtents
<1>5. Wired(C)
  BY <1>3, SplitWired
<1>6. CASE Lifting
  <2>1. Unvisited' /\ AllLand' /\ AsIssued'
    BY <1>6, SplitOps
  <2>2. PICK next : next = IF q = cur THEN n ELSE cur
    OBVIOUS
  <2>3. prog' = prog /\ pos \in Int /\ Horizon = pos /\ Horizon' = pos /\ phase' \in {"cf", "scan"}
    BY <1>1, <1>2, <1>6, <2>2, SplitGoesOn
  <2>4. \A b \in 1..n : Ended(C, b, pos)
    <3> TAKE b \in 1..n
    <3>1. CASE b = n \/ b = q
      BY <1>4, <3>1 DEF Ended
    <3>2. CASE b \in 1..Len(bbs) /\ b # q
      <4>1. Ended(bbs, b, pos)
        BY <1>4, <1>6, <2>3, <3>2 DEF Edges, Live, DataEnds
      <4>2. C[b].end = bbs[b].end /\ C[b].code = bbs[b].code
        BY <1>4, <3>2
      <4> HIDE DEF Ended
      <4> QED
        BY <2>3, <4>1, <4>2, EndedLater
    <3> QED
      BY <1>4, <3>1, <3>2
  <2>5. DataEnds'
    BY <1>3, <1>4, <2>3, <2>4 DEF DataEnds, Ended, IsInstr
  <2> QED
    BY <1>3, <1>5, <2>1, <2>5 DEF Edges, Wired
<1>7. CASE ~Lifting
  <2>1. PICK p : p = ptr'
    OBVIOUS
  <2>2. \A b \in 1..Len(C) : \A k \in DOMAIN C[b].cfs : Landed(C[b].cfs[k], p)
    BY <1>3, <1>7, <2>1, SplitLanded
  <2>3. phase' = "register"
    <3>1. req.back = "register"
      BY <1>4, <1>7 DEF Lifting, Inv, Typed
    <3> QED
      BY <3>1 DEF Split
  <2>4. Len(bbs') \in Nat
    BY <1>1, <1>3, <1>4
  <2>5. \A b \in 1..Len(bbs') : \A k \in DOMAIN bbs'[b].cfs :
          /\ Landed(bbs'[b].cfs[k], ptr')
          /\ phase' = "post" /\ <<b, k>> \in todo' => bbs'[b].cfs[k].cont = Null
    BY <1>3, <2>1, <2>2, <2>3
  <2> QED
    BY <1>3, <1>5, <2>3, <2>4, <2>5, LateEdges
<1> QED
  BY <1>6, <1>7

-----------------------------------------------------------------------------
(* The lifter.                                                             *)

LEMMA InitEdges == Init => Edges
<1> SUFFICES ASSUME Init
             PROVE  Edges
  OBVIOUS
<1>1. /\ bbs = <<EmptyBlock(0)>> /\ Len(bbs) = 1 /\ phase = "scan" /\ cur = Null
  BY DEF Init
<1>2. /\ bbs[1].cfs = <<>> /\ bbs[1].code = {} /\ bbs[1].preds = EmptyBag /\ bbs[1].succs = EmptyBag
  BY <1>1 DEF EmptyBlock
<1>3. DOMAIN bbs[1].cfs = {} /\ DOMAIN bbs[1].preds = {} /\ DOMAIN bbs[1].succs = {}
  <2>1. DOMAIN EmptyBag = {}
    BY BagDomains, Zenon
  <2> QED
    BY <1>2, <2>1, EmptyIsSeq
<1>4. \A b \in 1..Len(bbs) : b = 1
  BY <1>1
<1>5. Matched(bbs) /\ Simple(bbs)
  BY <1>3, <1>4 DEF Matched, Simple, Connected
<1>6. AllShaped(bbs) /\ Unvisited /\ AllLand
  BY <1>3, <1>4 DEF AllShaped, Unvisited, AllLand
<1>7. AsIssued /\ DataEnds
  BY <1>1, <1>2, <1>4 DEF AsIssued, DataEnds, Ended
<1> QED
  BY <1>5, <1>6, <1>7 DEF Edges

LEMMA StutterEdges ==
  ASSUME Edges, UNCHANGED vars
  PROVE  Edges'
<1>1. UNCHANGED <<prog, phase, pos, cur, cfi, req, bbs, ptr, needs, todo>>
  BY DEF vars
<1>2. Lifting' <=> Lifting
  BY <1>1 DEF Lifting
<1>3. Horizon' = Horizon
  BY <1>1 DEF Horizon
<1>4. Live' <=> Live
  BY <1>1 DEF Live
<1>5. Matched(bbs') <=> Matched(bbs)
  BY <1>1
<1>6. (Simple(bbs') <=> Simple(bbs)) /\ (AllShaped(bbs') <=> AllShaped(bbs))
  BY <1>1
<1>7. Unvisited => Unvisited'
  BY <1>1, <1>2 DEF Unvisited
<1>8. \A a : Awaits(a) => Awaits(a)'
  BY <1>1, <1>3 DEF Awaits, IsInstr
<1>9. AllLand => AllLand'
  <2> SUFFICES ASSUME AllLand, NEW b \in 1..Len(bbs), NEW k \in DOMAIN bbs[b].cfs
               PROVE  Waiting(b, k)' \/ Lands(bbs[b].cfs[k])'
    BY <1>1 DEF AllLand
  <2>1. PICK o : o = bbs[b].cfs[k]
    OBVIOUS
  <2>2. Waiting(b, k) \/ Lands(o)
    BY <2>1 DEF AllLand
  <2>3. Waiting(b, k) => Waiting(b, k)'
    BY <1>1, <1>2 DEF Waiting
  <2>4. Lands(o) => Lands(o)'
    <3> HIDE DEF Awaits
    <3> QED
      BY <1>1, <1>8 DEF Lands
  <2>5. bbs'[b].cfs[k] = o
    BY <1>1, <2>1
  <2>6. Lands(o)' => Lands(bbs[b].cfs[k])'
    BY <2>5 DEF Lands
  <2> HIDE DEF Waiting, Lands
  <2> QED
    BY <2>2, <2>3, <2>4, <2>6
<1>10. AsIssued => AsIssued'
  BY <1>1, <1>2 DEF AsIssued, Issued, Direct
<1>11. DataEnds => DataEnds'
  BY <1>1, <1>2, <1>3 DEF DataEnds, Ended, IsInstr
<1> HIDE DEF Matched, Simple, AllShaped, Unvisited, AllLand, AsIssued, DataEnds, Live, vars
<1>12. Matched(bbs)' /\ (Live' => Simple(bbs)' /\ AllShaped(bbs)')
  <2>1. Matched(bbs')
    BY <1>5 DEF Edges
  <2>2. Live' => Simple(bbs') /\ AllShaped(bbs')
    BY <1>4, <1>6 DEF Edges
  <2> QED
    BY <2>1, <2>2 DEF Matched, Simple, AllShaped
<1> QED
  BY <1>4, <1>7, <1>9, <1>10, <1>11, <1>12 DEF Edges

(* The programs the invariant is about. *)
Calling == AllYield /\ CallsLand

LEMMA NextEdges ==
  ASSUME Inv, CodePartition, Calling => Pointers /\ Jumps, Calling => Edges, [Next]_vars
  PROVE  (Calling => Edges)'
<1>1. Disjoint(bbs)
  <2>1. IsSeq(bbs) /\ \A b \in 1..Len(bbs) : bbs[b].code \subseteq Slots
    BY DEF Inv, Typed, WfBlocks, WfBlock
  <2> HIDE DEF CodePartition, Disjoint
  <2> QED
    BY <2>1, PartitionDisjoint
<1> HIDE DEF Disjoint, Inv, Pointers, Jumps, Edges
<1>2. prog' = prog
  BY Zenon DEF Next, vars, Scan, ScanData, ScanInvalid, ScanInstr, FinishScan, Resolve, ResolveReturn,
     ResolveUnknown, ResolveLink, ResolveSplit, Split, SplitCrash, Post, FinishPost, Backtrace,
     FinishRegister, RegisterAddr, AddEntry, Halt
<1>3. Calling' <=> Calling
  BY <1>2 DEF Calling, AllYield, CallsLand, IsInstr, Yields
<1> SUFFICES ASSUME Calling
             PROVE  Edges'
  BY <1>3
<1>4. AllYield /\ CallsLand /\ Pointers /\ Jumps /\ Edges
  BY DEF Calling
<1> HIDE DEF AllYield, CallsLand, CodePartition
<1>5. CASE ScanData
  BY <1>4, <1>5, ScanDataEdges
<1>6. CASE ScanInvalid
  BY <1>4, <1>6, ScanInvalidEdges
<1>7. CASE ScanInstr
  BY <1>1, <1>4, <1>7, ScanInstrEdges
<1>8. CASE FinishScan
  BY <1>4, <1>8, SameEdges DEF FinishScan, Live, Lifting
<1>9. CASE Resolve
  BY <1>4, <1>9, ResolveReturnEdges, ResolveUnknownEdges, LinkedEdges DEF Resolve
<1>10. CASE Split
  BY <1>1, <1>4, <1>10, SplitEdges
<1>11. CASE SplitCrash
  BY <1>4, <1>11, SameEdges DEF SplitCrash, Live
<1>12. CASE Post
  BY <1>1, <1>4, <1>12, PostEdges
<1>13. CASE FinishPost
  BY <1>4, <1>13, SameEdges DEF FinishPost, Live, Lifting
<1>14. CASE Backtrace
  BY <1>4, <1>14, SameEdges DEF Backtrace, Live, Lifting
<1>15. CASE FinishRegister
  BY <1>4, <1>15, SameEdges DEF FinishRegister, Live, Lifting
<1>16. CASE \E a \in 0..(N + 1) : RegisterAddr(a)
  BY <1>4, <1>16, RegisterEdges
<1>17. CASE AddEntry
  BY <1>4, <1>17, AddEntryEdges
<1>18. CASE UNCHANGED vars
  BY <1>4, <1>18, StutterEdges
<1> QED
  BY <1>5, <1>6, <1>7, <1>8, <1>9, <1>10, <1>11, <1>12, <1>13, <1>14, <1>15, <1>16, <1>17, <1>18, Zenon
  DEF Next, Scan, Halt

EdgeInv == AllInv /\ (Calling => Edges)

LEMMA EdgesInductive ==
  /\ Init => EdgeInv
  /\ EdgeInv /\ [Next]_vars => EdgeInv'
<1> HIDE DEF CodePartition, Inv, Pointers, Jumps, AllYield, Next, vars, Init, Edges
<1>1. Init => EdgeInv
  BY AllInductive, InitEdges DEF EdgeInv
<1>2. ASSUME EdgeInv, [Next]_vars
      PROVE  EdgeInv'
  <2>1. AllInv'
    BY <1>2, AllInductive DEF EdgeInv
  <2>2. Inv /\ CodePartition /\ (Calling => Pointers /\ Jumps) /\ (Calling => Edges)
    BY <1>2 DEF EdgeInv, AllInv, Calling
  <2>3. (Calling => Edges)'
    BY <1>2, <2>2, NextEdges
  <2> QED
    BY <2>1, <2>3 DEF EdgeInv
<1> QED
  BY <1>1, <1>2

(* For the programs whose instructions, in front of another one, all       *)
(* declare a variable, and whose calls go to an instruction (a backward    *)
(* call over instructions only): at every step of the lifter, while blocks *)
(* are opened, split and linked, the predecessors and successors of every  *)
(* block are the blocks its operations and those of the others name, which *)
(* is what IR::verify demands at the end.                                  *)
THEOREM EdgesVerified == Spec => [](AllYield /\ CallsLand => Verified)
<1>1. ASSUME Inv, Edges
      PROVE  Verified
  <2>1. WfBlocks(bbs) /\ BlockIds = 1..Len(bbs) /\ Len(bbs) \in Nat
    BY <1>1 DEF Inv, Typed, BlockIds, WfBlocks, IsSeq
  <2>2. \A b \in BlockIds : \A k \in DOMAIN bbs[b].cfs : bbs[b].cfs[k].target \in 0..Len(bbs)
    BY <2>1, OpsTyped
  <2>3. \A b \in BlockIds : DOMAIN bbs[b].preds \subseteq BlockIds /\ DOMAIN bbs[b].succs \subseteq BlockIds
    BY <2>1 DEF WfBlocks, WfBlock
  <2>4. \A b \in BlockIds : b # Null
    BY <2>1 DEF Null
  <2>5. \A b, t \in BlockIds : /\ b \in DOMAIN bbs[t].preds <=> Connected(bbs, b, t)
                               /\ t \in DOMAIN bbs[b].succs <=> Connected(bbs, b, t)
    <3> HIDE DEF Connected
    <3> QED
      BY <1>1, <2>1 DEF Edges, Matched
  <2>6. \A b, t \in BlockIds : t \in TargetsOf(b) => Connected(bbs, b, t)
    BY DEF TargetsOf, Connected, Points
  <2>7. \A b \in BlockIds : TargetsOf(b) \subseteq BlockIds
    <3> TAKE b \in BlockIds
    <3>1. \A k \in DOMAIN bbs[b].cfs : bbs[b].cfs[k].target # Null => bbs[b].cfs[k].target \in 1..Len(bbs)
      BY <2>1, <2>2 DEF Null
    <3> QED
      BY <2>1, <3>1 DEF TargetsOf
  <2>8. \A b, t \in BlockIds : Connected(bbs, b, t) => t \in ConnectedTo(b)
    BY <2>4 DEF TargetsOf, ConnectedTo, Connected, Points
  <2> HIDE DEF TargetsOf, ConnectedTo, Connected, BlockIds
  <2> SUFFICES ASSUME NEW b \in BlockIds
               PROVE  /\ \A t \in TargetsOf(b) : BagIn(b, bbs[t].preds) /\ BagIn(t, bbs[b].succs)
                      /\ \A p \in BagToSet(bbs[b].preds) : b \in ConnectedTo(p)
                      /\ \A s \in BagToSet(bbs[b].succs) : s \in ConnectedTo(b)
    BY Zenon DEF Verified
  <2>9. \A t \in TargetsOf(b) : BagIn(b, bbs[t].preds) /\ BagIn(t, bbs[b].succs)
    BY <2>5, <2>6, <2>7 DEF BagIn, BagToSet
  <2>10. \A p \in BagToSet(bbs[b].preds) : b \in ConnectedTo(p)
    BY <2>3, <2>5, <2>8 DEF BagToSet
  <2>11. \A s \in BagToSet(bbs[b].succs) : s \in ConnectedTo(b)
    BY <2>3, <2>5, <2>8 DEF BagToSet
  <2> QED
    BY <2>9, <2>10, <2>11
<1>2. EdgeInv => (AllYield /\ CallsLand => Verified)
  BY <1>1 DEF EdgeInv, AllInv, Calling
<1> QED
  BY <1>2, EdgesInductive, PTL DEF Spec
=============================================================================

--------------------------- MODULE LifterCFGProofs ---------------------------
(***************************************************************************)
(* Theorems about LifterCFG, for every program of every length.            *)
(***************************************************************************)
EXTENDS LifterCFG, SequenceTheorems, TLAPS

Orders == INSTANCE WellFoundedInduction

-----------------------------------------------------------------------------
(* Sequences as functions, bags as their domains, minima and maxima.       *)

IsSeq(s) == Len(s) \in Nat /\ s = [i \in 1..Len(s) |-> s[i]]

(* Append adds one element behind the others. *)
LEMMA AppendIsSeq ==
  ASSUME NEW s, IsSeq(s), NEW x
  PROVE  /\ IsSeq(Append(s, x))
         /\ Len(Append(s, x)) = Len(s) + 1
         /\ DOMAIN Append(s, x) = 1..(Len(s) + 1)
         /\ \A i \in 1..Len(s) : Append(s, x)[i] = s[i]
         /\ Append(s, x)[Len(s) + 1] = x
<1> DEFINE S == {s[i] : i \in 1..Len(s)} \cup {x}
<1>1. s \in Seq(S)
  BY DEF IsSeq
<1>2. x \in S
  OBVIOUS
<1> HIDE DEF S
<1>3. /\ Append(s, x) \in Seq(S)
      /\ Len(Append(s, x)) = Len(s) + 1
      /\ \A i \in 1..Len(s) : Append(s, x)[i] = s[i]
      /\ Append(s, x)[Len(s) + 1] = x
  BY <1>1, <1>2, AppendProperties
<1>4. Append(s, x) \in [1..Len(Append(s, x)) -> S]
  BY <1>3, LenProperties
<1>5. Len(s) \in Nat
  BY DEF IsSeq
<1> DEFINE t == Append(s, x)
<1>6. t = [i \in 1..Len(t) |-> t[i]]
  BY <1>4
<1>7. IsSeq(t)
  BY <1>3, <1>5, <1>6 DEF IsSeq
<1>8. DOMAIN t = 1..(Len(s) + 1)
  BY <1>3, <1>4
<1> QED
  BY <1>3, <1>7, <1>8

(* A function on an initial segment of the numbers is a sequence. *)
LEMMA FunctionIsSeq ==
  ASSUME NEW n \in Nat, NEW s, s = [i \in 1..n |-> s[i]]
  PROVE  IsSeq(s) /\ Len(s) = n
<1>1. s \in Seq({s[i] : i \in 1..n})
  OBVIOUS
<1> QED
  BY <1>1 DEF IsSeq

LEMMA ExceptIsSeq ==
  ASSUME NEW s, IsSeq(s), NEW i, NEW x
  PROVE  IsSeq([s EXCEPT ![i] = x]) /\ Len([s EXCEPT ![i] = x]) = Len(s)
<1> DEFINE t == [s EXCEPT ![i] = x]
<1>1. t = [j \in 1..Len(s) |-> t[j]]
  BY DEF IsSeq
<1> QED
  BY <1>1, FunctionIsSeq DEF IsSeq

LEMMA BagDomains ==
  /\ \A B, x : DOMAIN BagAdd(B, x) = DOMAIN B \cup {x}
  /\ \A B, x : DOMAIN BagRemove(B, x) \subseteq DOMAIN B
  /\ \A B, x : DOMAIN BagRemoveAll(B, x) = DOMAIN B \ {x}
  /\ \A S : DOMAIN SetToBag(S) = S
  /\ DOMAIN EmptyBag = {}
  /\ \A B, C : DOMAIN (B (+) C) = DOMAIN B \cup DOMAIN C
  /\ \A B, x : DOMAIN (IF BagIn(x, B) THEN B ELSE BagAdd(B, x)) = DOMAIN B \cup {x}
<1>1. \A B, x : DOMAIN BagAdd(B, x) = DOMAIN B \cup {x}
  BY DEF BagAdd
<1>2. \A B, x : DOMAIN BagRemove(B, x) \subseteq DOMAIN B
  BY DEF BagRemove
<1>3. \A B, x : DOMAIN BagRemoveAll(B, x) = DOMAIN B \ {x}
  BY DEF BagRemoveAll
<1>4. \A S : DOMAIN SetToBag(S) = S
  BY DEF SetToBag
<1>5. DOMAIN EmptyBag = {}
  BY DEF SetToBag, EmptyBag
<1>6. \A B, C : DOMAIN (B (+) C) = DOMAIN B \cup DOMAIN C
  BY DEF (+)
<1>7. ASSUME NEW B, NEW x
      PROVE  DOMAIN (IF BagIn(x, B) THEN B ELSE BagAdd(B, x)) = DOMAIN B \cup {x}
  <2>1. CASE BagIn(x, B)
    BY <2>1 DEF BagIn, BagToSet
  <2>2. CASE ~BagIn(x, B)
    BY <2>2, <1>1
  <2> QED
    BY <2>1, <2>2
<1> QED
  BY <1>1, <1>2, <1>3, <1>4, <1>5, <1>6, <1>7

(* Bags over a set stay bags over it. *)
LEMMA BagOver ==
  ASSUME NEW T, NEW B, DOMAIN B \subseteq T
  PROVE  /\ \A x : DOMAIN BagRemove(B, x) \subseteq T
         /\ \A x : DOMAIN BagRemoveAll(B, x) \subseteq T
         /\ \A x \in T : DOMAIN BagAdd(B, x) \subseteq T
<1>1. ASSUME NEW x
      PROVE  DOMAIN BagRemove(B, x) \subseteq T
  <2>1. DOMAIN BagRemove(B, x) \subseteq DOMAIN B
    BY BagDomains
  <2> QED
    BY <2>1
<1>2. ASSUME NEW x
      PROVE  DOMAIN BagRemoveAll(B, x) \subseteq T
  <2>1. DOMAIN BagRemoveAll(B, x) = DOMAIN B \ {x}
    BY BagDomains
  <2> QED
    BY <2>1
<1>3. ASSUME NEW x \in T
      PROVE  DOMAIN BagAdd(B, x) \subseteq T
  <2>1. DOMAIN BagAdd(B, x) = DOMAIN B \cup {x}
    BY BagDomains
  <2> QED
    BY <2>1
<1> QED
  BY <1>1, <1>2, <1>3

-----------------------------------------------------------------------------
(* Well-formed operations, blocks and vectors of n blocks: what TypeOK says *)
(* of them, and that they are the records and sequences they should be.    *)

CfFields    == {"type", "instr", "jump", "target", "cont", "addrs"}
BlockFields == {"start", "end", "code", "cfs", "preds", "succs", "flags"}

WfCf(cf, n) ==
  /\ DOMAIN cf = CfFields
  /\ cf.type \in CfType
  /\ cf.instr \in 0..N
  /\ cf.jump \in 0..(N + 1)
  /\ cf.target \in 0..n
  /\ cf.cont \in 0..n
  /\ cf.addrs \subseteq Slots
  /\ cf.type \in {"ijump", "icall"} => cf.instr \in Slots

WfCfs(cfs, n) == IsSeq(cfs) /\ \A k \in DOMAIN cfs : WfCf(cfs[k], n)

WfBlock(b, n) ==
  /\ DOMAIN b = BlockFields
  /\ b.start \in 0..N
  /\ b.end \in 0..N
  /\ b.code \subseteq Slots
  /\ WfCfs(b.cfs, n)
  /\ DOMAIN b.preds \subseteq 1..n
  /\ DOMAIN b.succs \subseteq 1..n
  /\ b.flags \subseteq Flags

WfBlocks(B) == IsSeq(B) /\ \A b \in 1..Len(B) : WfBlock(B[b], Len(B))

(* More blocks leave a well-formed block well-formed. *)
LEMMA WfGrows ==
  ASSUME NEW n \in Nat, NEW m \in Nat, n <= m
  PROVE  /\ \A cf : WfCf(cf, n) => WfCf(cf, m)
         /\ \A cfs : WfCfs(cfs, n) => WfCfs(cfs, m)
         /\ \A b : WfBlock(b, n) => WfBlock(b, m)
<1>1. \A cf : WfCf(cf, n) => WfCf(cf, m)
  BY DEF WfCf
<1>2. \A cfs : WfCfs(cfs, n) => WfCfs(cfs, m)
  BY <1>1 DEF WfCfs
<1>3. 1..n \subseteq 1..m
  OBVIOUS
<1>4. \A b : WfBlock(b, n) => WfBlock(b, m)
  BY <1>2, <1>3 DEF WfBlock
<1> QED
  BY <1>1, <1>2, <1>4

(* The record Cf makes. *)
LEMMA CfWf ==
  ASSUME NEW n \in Nat, NEW type \in CfType, NEW instr \in 0..N, NEW jump \in 0..(N + 1),
         NEW target \in 0..n, type \in {"ijump", "icall"} => instr \in Slots
  PROVE  WfCf(Cf(type, instr, jump, target), n)
BY DEF WfCf, Cf, CfFields, Null

LEMMA EmptyIsSeq == IsSeq(<<>>) /\ Len(<<>>) = 0
BY DEF IsSeq

LEMMA SingleIsSeq ==
  ASSUME NEW x
  PROVE  IsSeq(<<x>>) /\ Len(<<x>>) = 1 /\ <<x>>[1] = x /\ DOMAIN <<x>> = {1}
BY DEF IsSeq

(* One more operation. *)
LEMMA AppendCfWf ==
  ASSUME NEW n \in Nat, NEW cfs, WfCfs(cfs, n), NEW cf, WfCf(cf, n)
  PROVE  WfCfs(Append(cfs, cf), n)
<1>1. IsSeq(cfs)
  BY DEF WfCfs
<1>2. DOMAIN cfs = 1..Len(cfs) /\ Len(cfs) \in Nat
  BY <1>1 DEF IsSeq
<1>3. \A k \in 1..(Len(cfs) + 1) : k \in 1..Len(cfs) \/ k = Len(cfs) + 1
  BY <1>2
<1> QED
  BY <1>1, <1>2, <1>3, AppendIsSeq DEF WfCfs

LEMMA EmptyBlockWf ==
  ASSUME NEW a \in 0..N, NEW n \in Nat
  PROVE  WfBlock(EmptyBlock(a), n)
<1>1. DOMAIN EmptyBag = {}
  BY BagDomains
<1>2. WfCfs(<<>>, n)
  BY EmptyIsSeq DEF WfCfs
<1> QED
  BY <1>1, <1>2, NAssumption DEF WfBlock, EmptyBlock, BlockFields, Slots

(* One more block. *)
LEMMA AppendBlockWf ==
  ASSUME NEW B, WfBlocks(B), NEW x, WfBlock(x, Len(B) + 1)
  PROVE  WfBlocks(Append(B, x)) /\ Len(Append(B, x)) = Len(B) + 1
<1>1. IsSeq(B) /\ Len(B) \in Nat
  BY DEF WfBlocks, IsSeq
<1>2. ASSUME NEW b \in 1..(Len(B) + 1)
      PROVE  WfBlock(Append(B, x)[b], Len(B) + 1)
  <2>1. CASE b = Len(B) + 1
    BY <1>1, <2>1, AppendIsSeq
  <2>2. CASE b \in 1..Len(B)
    <3>1. WfBlock(B[b], Len(B))
      BY <2>2 DEF WfBlocks
    <3>2. Append(B, x)[b] = B[b]
      BY <1>1, <2>2, AppendIsSeq
    <3> QED
      BY <1>1, <3>1, <3>2, WfGrows
  <2> QED
    BY <1>1, <2>1, <2>2
<1> QED
  BY <1>1, <1>2, AppendIsSeq DEF WfBlocks

(* One block replaced. *)
Put(B, b, x) == [B EXCEPT ![b] = x]

LEMMA PutWf ==
  ASSUME NEW B, WfBlocks(B), NEW b, NEW x, b \in 1..Len(B) => WfBlock(x, Len(B))
  PROVE  /\ WfBlocks(Put(B, b, x))
         /\ Len(Put(B, b, x)) = Len(B)
         /\ \A c \in 1..Len(B) : Put(B, b, x)[c] = IF c = b THEN x ELSE B[c]
<1>1. IsSeq(B) /\ DOMAIN B = 1..Len(B)
  BY DEF WfBlocks, IsSeq
<1>2. IsSeq(Put(B, b, x)) /\ Len(Put(B, b, x)) = Len(B)
  BY <1>1, ExceptIsSeq DEF Put
<1>3. \A c \in 1..Len(B) : Put(B, b, x)[c] = IF c = b THEN x ELSE B[c]
  BY <1>1 DEF Put
<1>4. \A c \in 1..Len(B) : WfBlock(Put(B, b, x)[c], Len(B))
  BY <1>3 DEF WfBlocks
<1> QED
  BY <1>2, <1>3, <1>4 DEF WfBlocks

(* One field replaced. *)
WithEnd(b, e)    == [b EXCEPT !.end = e]
WithCode(b, S)   == [b EXCEPT !.code = S]
WithCfs(b, cfs)  == [b EXCEPT !.cfs = cfs]
WithPreds(b, P)  == [b EXCEPT !.preds = P]
WithSuccs(b, S)  == [b EXCEPT !.succs = S]
WithFlags(b, F)  == [b EXCEPT !.flags = F]

LEMMA FieldsWf ==
  ASSUME NEW n, NEW b, WfBlock(b, n)
  PROVE  /\ \A e \in 0..N : WfBlock(WithEnd(b, e), n)
         /\ \A S \in SUBSET Slots : WfBlock(WithCode(b, S), n)
         /\ \A cfs : WfCfs(cfs, n) => WfBlock(WithCfs(b, cfs), n)
         /\ \A P : DOMAIN P \subseteq 1..n => WfBlock(WithPreds(b, P), n)
         /\ \A S : DOMAIN S \subseteq 1..n => WfBlock(WithSuccs(b, S), n)
         /\ \A F \in SUBSET Flags : WfBlock(WithFlags(b, F), n)
<1>1. \A e \in 0..N : WfBlock(WithEnd(b, e), n)
  BY DEF WfBlock, WithEnd, BlockFields
<1>2. \A S \in SUBSET Slots : WfBlock(WithCode(b, S), n)
  BY DEF WfBlock, WithCode, BlockFields
<1>3. \A cfs : WfCfs(cfs, n) => WfBlock(WithCfs(b, cfs), n)
  BY DEF WfBlock, WithCfs, BlockFields
<1>4. \A P : DOMAIN P \subseteq 1..n => WfBlock(WithPreds(b, P), n)
  BY DEF WfBlock, WithPreds, BlockFields
<1>5. \A S : DOMAIN S \subseteq 1..n => WfBlock(WithSuccs(b, S), n)
  BY DEF WfBlock, WithSuccs, BlockFields
<1>6. \A F \in SUBSET Flags : WfBlock(WithFlags(b, F), n)
  BY DEF WfBlock, WithFlags, BlockFields
<1> QED
  BY <1>1, <1>2, <1>3, <1>4, <1>5, <1>6

(* What a changed field leaves alone. *)
LEMMA FieldsSame ==
  ASSUME NEW n, NEW b, WfBlock(b, n), NEW v
  PROVE  /\ \A c \in {WithCfs(b, v), WithPreds(b, v), WithSuccs(b, v), WithFlags(b, v)} :
              c.start = b.start /\ c.end = b.end /\ c.code = b.code
         /\ \A c \in {WithPreds(b, v), WithSuccs(b, v), WithFlags(b, v), WithEnd(b, v), WithCode(b, v)} :
              c.cfs = b.cfs
         /\ WithCfs(b, v).cfs = v
         /\ WithEnd(b, v).end = v /\ WithEnd(b, v).start = b.start /\ WithEnd(b, v).code = b.code
         /\ WithCode(b, v).code = v /\ WithCode(b, v).start = b.start /\ WithCode(b, v).end = b.end
BY DEF WfBlock, BlockFields, WithCfs, WithPreds, WithSuccs, WithFlags, WithEnd, WithCode

(***************************************************************************)
(* C has the blocks of B with their addresses and code; blocks added to    *)
(* them hold no code.                                                      *)
(***************************************************************************)
Extends(B, C) ==
  /\ Len(B) <= Len(C)
  /\ \A b \in 1..Len(B) : C[b].start = B[b].start /\ C[b].end = B[b].end /\ C[b].code = B[b].code
  /\ \A b \in (Len(B) + 1)..Len(C) : C[b].code = {}

LEMMA ExtendsReflexive ==
  ASSUME NEW B, WfBlocks(B)
  PROVE  Extends(B, B)
BY DEF Extends, WfBlocks, IsSeq

LEMMA ExtendsTransitive ==
  ASSUME NEW B, NEW C, NEW D, WfBlocks(B), WfBlocks(C), WfBlocks(D), Extends(B, C), Extends(C, D)
  PROVE  Extends(B, D)
<1>1. Len(B) \in Nat /\ Len(C) \in Nat /\ Len(D) \in Nat
  BY DEF WfBlocks, IsSeq
<1>2. Len(B) <= Len(D)
  BY <1>1 DEF Extends
<1>3. ASSUME NEW b \in 1..Len(B)
      PROVE  D[b].start = B[b].start /\ D[b].end = B[b].end /\ D[b].code = B[b].code
  BY <1>1 DEF Extends
<1>4. ASSUME NEW b \in (Len(B) + 1)..Len(D)
      PROVE  D[b].code = {}
  <2>1. CASE b \in (Len(B) + 1)..Len(C)
    BY <1>1, <2>1 DEF Extends
  <2>2. CASE b \in (Len(C) + 1)..Len(D)
    BY <2>2 DEF Extends
  <2> QED
    BY <1>1, <2>1, <2>2
<1> QED
  BY <1>2, <1>3, <1>4 DEF Extends

(* C is B except for edges, operations and flags of its blocks. *)
SameExtent(B, C) ==
  /\ WfBlocks(C)
  /\ Len(C) = Len(B)
  /\ Extends(B, C)

LEMMA PutSame ==
  ASSUME NEW B, WfBlocks(B), NEW b \in 1..Len(B), NEW x, WfBlock(x, Len(B)),
         x.start = B[b].start, x.end = B[b].end, x.code = B[b].code
  PROVE  SameExtent(B, Put(B, b, x))
<1>1. Len(B) \in Nat
  BY DEF WfBlocks, IsSeq
<1> QED
  BY <1>1, PutWf DEF SameExtent, Extends

(* Edges entered on both sides change nothing else. *)
Edge(B, b, S, t, P) ==
  Put(Put(B, b, WithSuccs(B[b], S)), t, WithPreds(Put(B, b, WithSuccs(B[b], S))[t], P))

LEMMA EdgeSame ==
  ASSUME NEW B, WfBlocks(B), NEW b \in 1..Len(B), NEW t \in 1..Len(B),
         NEW S, NEW P, DOMAIN S \subseteq 1..Len(B), DOMAIN P \subseteq 1..Len(B)
  PROVE  /\ SameExtent(B, Edge(B, b, S, t, P))
         /\ \A c \in 1..Len(B) : Edge(B, b, S, t, P)[c].cfs = B[c].cfs
<1> DEFINE x == WithSuccs(B[b], S)
           C == Put(B, b, x)
           y == WithPreds(C[t], P)
<1>1. WfBlock(B[b], Len(B))
  BY DEF WfBlocks
<1>2. WfBlock(x, Len(B))
  BY <1>1, FieldsWf
<1>3. x.start = B[b].start /\ x.end = B[b].end /\ x.code = B[b].code /\ x.cfs = B[b].cfs
  BY <1>1, FieldsSame
<1>4. SameExtent(B, C)
  <2> HIDE DEF x
  <2> QED
    BY <1>2, <1>3, PutSame
<1>5. WfBlock(C[t], Len(C)) /\ t \in 1..Len(C)
  BY <1>4 DEF SameExtent, WfBlocks
<1>6. WfBlock(y, Len(C))
  <2> HIDE DEF C
  <2> QED
    BY <1>4, <1>5, FieldsWf DEF SameExtent
<1>7. y.start = C[t].start /\ y.end = C[t].end /\ y.code = C[t].code /\ y.cfs = C[t].cfs
  <2> HIDE DEF C
  <2> QED
    BY <1>5, FieldsSame
<1>8. SameExtent(C, Put(C, t, y))
  <2> HIDE DEF y, C
  <2> QED
    BY <1>4, <1>5, <1>6, <1>7, PutSame DEF SameExtent
<1>9. Edge(B, b, S, t, P) = Put(C, t, y)
  BY DEF Edge
<1>10. SameExtent(B, Put(C, t, y))
  <2> HIDE DEF y, C
  <2> QED
    BY <1>4, <1>8, ExtendsTransitive DEF SameExtent
<1>11. \A c \in 1..Len(B) : Put(C, t, y)[c].cfs = C[c].cfs
  <2> HIDE DEF y, C
  <2> QED
    BY <1>4, <1>6, <1>7, PutWf DEF SameExtent
<1>12. \A c \in 1..Len(B) : C[c].cfs = B[c].cfs
  <2> HIDE DEF x
  <2> QED
    BY <1>2, <1>3, PutWf
<1> HIDE DEF C, y
<1> QED
  BY <1>9, <1>10, <1>11, <1>12

LEMMA AddEdgeSame ==
  ASSUME NEW B, WfBlocks(B), NEW b \in 1..Len(B), NEW t \in 1..Len(B)
  PROVE  /\ SameExtent(B, AddEdge(B, b, t))
         /\ \A c \in 1..Len(B) : AddEdge(B, b, t)[c].cfs = B[c].cfs
<1> DEFINE S == BagAdd(B[b].succs, t)
           P == BagAdd(B[t].preds, b)
<1>1. WfBlock(B[b], Len(B)) /\ WfBlock(B[t], Len(B)) /\ DOMAIN B = 1..Len(B)
  BY DEF WfBlocks, IsSeq
<1>2. AddEdge(B, b, t) = Edge(B, b, S, t, P)
  BY <1>1 DEF AddEdge, Edge, Put, WithSuccs, WithPreds, WfBlock, BlockFields
<1>3. DOMAIN B[b].succs \subseteq 1..Len(B) /\ DOMAIN B[t].preds \subseteq 1..Len(B)
  BY <1>1 DEF WfBlock
<1>4. DOMAIN S = DOMAIN B[b].succs \cup {t} /\ DOMAIN P = DOMAIN B[t].preds \cup {b}
  BY BagDomains
<1>5. DOMAIN S \subseteq 1..Len(B) /\ DOMAIN P \subseteq 1..Len(B)
  BY <1>3, <1>4
<1> HIDE DEF S, P
<1> QED
  BY <1>2, <1>5, EdgeSame

LEMMA AddEdgeIfAbsentSame ==
  ASSUME NEW B, WfBlocks(B), NEW b \in 1..Len(B), NEW t \in 1..Len(B)
  PROVE  /\ SameExtent(B, AddEdgeIfAbsent(B, b, t))
         /\ \A c \in 1..Len(B) : AddEdgeIfAbsent(B, b, t)[c].cfs = B[c].cfs
<1> DEFINE S == IF BagIn(t, B[b].succs) THEN B[b].succs ELSE BagAdd(B[b].succs, t)
           P == IF BagIn(b, B[t].preds) THEN B[t].preds ELSE BagAdd(B[t].preds, b)
<1>1. WfBlock(B[b], Len(B)) /\ WfBlock(B[t], Len(B)) /\ DOMAIN B = 1..Len(B)
  BY DEF WfBlocks, IsSeq
<1>2. AddEdgeIfAbsent(B, b, t) = Edge(B, b, S, t, P)
  BY <1>1 DEF AddEdgeIfAbsent, Edge, Put, WithSuccs, WithPreds, WfBlock, BlockFields
<1>3. DOMAIN B[b].succs \subseteq 1..Len(B) /\ DOMAIN B[t].preds \subseteq 1..Len(B)
  BY <1>1 DEF WfBlock
<1>4. DOMAIN S = DOMAIN B[b].succs \cup {t} /\ DOMAIN P = DOMAIN B[t].preds \cup {b}
  BY BagDomains
<1>5. DOMAIN S \subseteq 1..Len(B) /\ DOMAIN P \subseteq 1..Len(B)
  BY <1>3, <1>4
<1> HIDE DEF S, P
<1> QED
  BY <1>2, <1>5, EdgeSame

-----------------------------------------------------------------------------
(* The inductive invariant.                                                *)

Typed ==
  /\ prog \in [Slots -> Instrs]
  /\ phase \in Phases
  /\ pos \in 1..(N + 1)
  /\ cur \in 0..Len(bbs)
  /\ cfi \in Nat \ {0}
  /\ req.bb \in 0..Len(bbs) /\ req.addr \in 0..N /\ req.back \in {"cf", "register"}
  /\ WfBlocks(bbs)
  /\ ptr \in [Slots -> 0..Len(bbs)]
  /\ needs \subseteq Slots
  /\ entry \in 0..Len(bbs)
  /\ todo \subseteq (1..Len(bbs)) \X (Nat \ {0})
  /\ ijumps \subseteq Slots
  /\ found \subseteq 0..(N + 1)

(* The lifter is in the loop over the program, at slot pos. *)
Lifting == phase \in {"scan", "cf"} \/ (phase = "split" /\ req.back = "cf")

(* What the phases say about the other variables. *)
Control ==
  /\ Len(bbs) >= Dummy
  /\ phase \in {"scan", "cf"} => req.back = "cf"
  /\ Lifting /\ phase # "scan" => pos <= N /\ cur # Null
  /\ phase = "split" => req.bb # Null
  /\ ~Lifting /\ phase # "crashed" => pos = N + 1 /\ entry # Null
  /\ phase = "post" => \A m \in todo : m[2] \in DOMAIN bbs[m[1]].cfs

(* The last slot that has been lifted. *)
Horizon == IF phase = "scan" THEN pos - 1 ELSE pos

(* Blocks, pointers and the pending split stay behind it. *)
Behind ==
  /\ \A b \in 1..Len(bbs) : /\ bbs[b].start <= Horizon
                            /\ bbs[b].end <= Horizon
                            /\ \A i \in bbs[b].code : i <= Horizon
  /\ \A a \in Slots : ptr[a] # Null => a <= Horizon
  /\ phase = "split" => req.addr <= Horizon

Inv == Typed /\ Control /\ Behind

(* set_virt_end_addr only enters the block. *)
LEMMA SetEndTyped ==
  ASSUME NEW n \in Nat, NEW p \in [Slots -> 0..n], NEW b \in 0..n, NEW s, NEW e
  PROVE  /\ SetEnd(p, b, s, e) \in [Slots -> 0..n]
         /\ \A h \in Int : e \in Int /\ e <= h /\ (\A a \in Slots : p[a] # Null => a <= h) =>
              \A a \in Slots : SetEnd(p, b, s, e)[a] # Null => a <= h
<1>1. SetEnd(p, b, s, e) \in [Slots -> 0..n]
  BY DEF SetEnd
<1>2. ASSUME NEW h \in Int, e \in Int, e <= h, \A a \in Slots : p[a] # Null => a <= h,
             NEW a \in Slots, SetEnd(p, b, s, e)[a] # Null
      PROVE  a <= h
  BY <1>2 DEF SetEnd, Slots
<1> QED
  BY <1>1, <1>2

(* The state lift() starts in. *)
LEMMA InitInv == Init => Inv
<1> SUFFICES ASSUME Init
             PROVE  Inv
  OBVIOUS
<1>1. WfBlock(EmptyBlock(0), 1)
  BY EmptyBlockWf, NAssumption
<1>2. IsSeq(bbs) /\ Len(bbs) = 1 /\ bbs[1] = EmptyBlock(0)
  BY SingleIsSeq DEF Init
<1>3. WfBlocks(bbs)
  BY <1>1, <1>2 DEF WfBlocks
<1>4. Typed
  BY <1>2, <1>3, NAssumption DEF Init, Typed, Phases, Null, Slots
<1>5. Control
  BY <1>2, NAssumption DEF Init, Control, Lifting, Dummy, Null
<1>6. Behind
  BY <1>2 DEF Init, Behind, Horizon, EmptyBlock, Null
<1> QED
  BY <1>4, <1>5, <1>6 DEF Inv

-----------------------------------------------------------------------------
(* The scan.                                                               *)

(* One more operation in front of data. *)
LEMMA UnreachableSame ==
  ASSUME NEW B, WfBlocks(B), NEW b \in 1..Len(B), NEW i \in 0..N
  PROVE  /\ SameExtent(B, Unreachable(B, b, i))
         /\ \A c \in 1..Len(B) : Unreachable(B, b, i)[c].cfs =
              IF c = b THEN Append(B[b].cfs, Cf("unreachable", i, 0, Null)) ELSE B[c].cfs
<1> DEFINE cfs == Append(B[b].cfs, Cf("unreachable", i, 0, Null))
           x == WithCfs(B[b], cfs)
<1>1. WfBlock(B[b], Len(B)) /\ Len(B) \in Nat
  BY DEF WfBlocks, IsSeq
<1>2. WfCf(Cf("unreachable", i, 0, Null), Len(B))
  BY <1>1, CfWf, NAssumption DEF CfType, Null
<1>3. WfCfs(cfs, Len(B))
  <2>1. WfCfs(B[b].cfs, Len(B))
    BY <1>1 DEF WfBlock
  <2> QED
    BY <1>1, <1>2, <2>1, AppendCfWf
<1>4. /\ WfBlock(x, Len(B)) /\ x.start = B[b].start /\ x.end = B[b].end /\ x.code = B[b].code
      /\ x.cfs = cfs
  <2> HIDE DEF cfs
  <2> QED
    BY <1>1, <1>3, FieldsWf, FieldsSame
<1>5. Unreachable(B, b, i) = Put(B, b, x)
  BY DEF Unreachable, Put, WithCfs
<1> HIDE DEF x
<1>6. SameExtent(B, Put(B, b, x))
  BY <1>4, PutSame
<1>7. \A c \in 1..Len(B) : Put(B, b, x)[c].cfs = IF c = b THEN cfs ELSE B[c].cfs
  <2> HIDE DEF cfs
  <2> QED
    BY <1>4, PutWf
<1> QED
  BY <1>5, <1>6, <1>7

(* create_new_bb at the scanned slot. *)
LEMMA OpenWf ==
  ASSUME Inv, phase = "scan", pos <= N
  PROVE  /\ WfBlocks(OpenBlocks)
         /\ Len(OpenBlocks) = Len(bbs) + 1
         /\ \A b \in 1..Len(bbs) : /\ OpenBlocks[b].start = bbs[b].start
                                   /\ OpenBlocks[b].code = bbs[b].code
                                   /\ OpenBlocks[b].end \in {bbs[b].end, pos - 1}
                                   /\ OpenBlocks[b].end = IF b = cur THEN pos - 1 ELSE bbs[b].end
                                   /\ OpenBlocks[b].cfs =
                                        IF b = cur
                                        THEN Append(bbs[b].cfs, Cf("jump", pos - 1, pos, Len(bbs) + 1))
                                        ELSE bbs[b].cfs
         /\ LET n == Len(bbs) + 1
            IN  /\ OpenBlocks[n].start = pos /\ OpenBlocks[n].end = 0
                /\ OpenBlocks[n].code = {} /\ OpenBlocks[n].cfs = <<>>
<1> DEFINE n == Len(bbs) + 1
           B == Append(bbs, EmptyBlock(pos))
<1>1. /\ WfBlocks(bbs) /\ IsSeq(bbs) /\ Len(bbs) \in Nat
      /\ pos \in 1..N /\ pos - 1 \in 0..N /\ pos \in 0..(N + 1) /\ cur \in 0..Len(bbs)
      /\ n \in Nat /\ n \in 0..n
  BY NAssumption DEF Inv, Typed, WfBlocks, IsSeq
<1>2. WfBlocks(B) /\ Len(B) = n
  <2>1. WfBlock(EmptyBlock(pos), n)
    BY <1>1, EmptyBlockWf
  <2> QED
    BY <1>1, <2>1, AppendBlockWf
<1>3. /\ \A b \in 1..Len(bbs) : B[b] = bbs[b]
      /\ B[n] = EmptyBlock(pos)
  BY <1>1, AppendIsSeq
<1>4. B[n].start = pos /\ B[n].end = 0 /\ B[n].code = {} /\ B[n].cfs = <<>>
  BY <1>3 DEF EmptyBlock
<1>5. CASE cur = Null
  <2>1. OpenBlocks = B /\ \A b \in 1..Len(bbs) : b # cur
    BY <1>5 DEF OpenBlocks, Null
  <2> HIDE DEF B
  <2> QED
    BY <1>2, <1>3, <1>4, <2>1
<1>6. CASE cur # Null
  <2> DEFINE cfs == Append(B[cur].cfs, Cf("jump", pos - 1, pos, n))
             x == WithCfs(B[cur], cfs)
             y == WithEnd(x, pos - 1)
             C == Put(B, cur, y)
  <2>1. cur \in 1..Len(bbs) /\ cur \in 1..Len(B) /\ cur # n /\ n \in 1..Len(B)
    BY <1>1, <1>2, <1>6 DEF Null
  <2>2. WfBlock(B[cur], n)
    BY <1>2, <2>1 DEF WfBlocks
  <2>3. WfCfs(cfs, n)
    <3>1. WfCf(Cf("jump", pos - 1, pos, n), n)
      BY <1>1, CfWf DEF CfType
    <3>2. WfCfs(B[cur].cfs, n)
      BY <2>2 DEF WfBlock
    <3> HIDE DEF n, B
    <3> QED
      BY <1>1, <3>1, <3>2, AppendCfWf
  <2>4. WfBlock(x, n) /\ x.start = B[cur].start /\ x.code = B[cur].code /\ x.cfs = cfs
    <3> HIDE DEF cfs, n, B
    <3> QED
      BY <2>2, <2>3, FieldsWf, FieldsSame
  <2>5. /\ WfBlock(y, n) /\ y.start = B[cur].start /\ y.code = B[cur].code /\ y.end = pos - 1
        /\ y.cfs = cfs
    <3> HIDE DEF x, n, B, cfs
    <3> QED
      BY <1>1, <2>4, FieldsWf, FieldsSame
  <2>6. /\ WfBlocks(C) /\ Len(C) = n
        /\ \A b \in 1..n : C[b] = IF b = cur THEN y ELSE B[b]
    <3> HIDE DEF y, B
    <3> QED
      BY <1>2, <2>1, <2>5, PutWf
  <2>7. SameExtent(C, AddEdge(C, cur, n))
    <3> HIDE DEF C
    <3> QED
      BY <1>2, <2>1, <2>6, AddEdgeSame
  <2>8. OpenBlocks = AddEdge(C, cur, n)
    <3>1. [B EXCEPT ![cur].cfs = Append(@, Cf("jump", pos - 1, pos, n)), ![cur].end = pos - 1] = C
      BY <1>2, <2>1, <2>2 DEF Put, WithCfs, WithEnd, WfBlocks, IsSeq, WfBlock, BlockFields
    <3> QED
      BY <1>6, <3>1 DEF OpenBlocks
  <2>9. \A b \in 1..n : /\ OpenBlocks[b].start = C[b].start
                        /\ OpenBlocks[b].code = C[b].code
                        /\ OpenBlocks[b].end = C[b].end
                        /\ OpenBlocks[b].cfs = C[b].cfs
    <3> HIDE DEF C
    <3>1. \A b \in 1..n : AddEdge(C, cur, n)[b].cfs = C[b].cfs
      <4>1. WfBlocks(C) /\ Len(C) = n /\ cur \in 1..n /\ n \in 1..n
        BY <1>2, <2>1, <2>6
      <4> HIDE DEF B, n, y
      <4> QED
        BY <4>1, AddEdgeSame
    <3> QED
      BY <2>6, <2>7, <2>8, <3>1 DEF SameExtent, Extends
  <2>10. WfBlocks(OpenBlocks) /\ Len(OpenBlocks) = n
    <3> HIDE DEF C
    <3> QED
      BY <2>6, <2>7, <2>8 DEF SameExtent
  <2>11. B[cur].cfs = bbs[cur].cfs /\ cfs = Append(bbs[cur].cfs, Cf("jump", pos - 1, pos, Len(bbs) + 1))
    BY <1>3, <2>1
  <2> HIDE DEF C, y, B, cfs
  <2>12. ASSUME NEW b \in 1..Len(bbs)
         PROVE  /\ OpenBlocks[b].start = bbs[b].start /\ OpenBlocks[b].code = bbs[b].code
                /\ OpenBlocks[b].end = IF b = cur THEN pos - 1 ELSE bbs[b].end
                /\ OpenBlocks[b].cfs = IF b = cur THEN cfs ELSE bbs[b].cfs
    <3>1. b \in 1..n /\ B[b] = bbs[b]
      BY <1>1, <1>3
    <3> QED
      BY <2>1, <2>5, <2>6, <2>9, <3>1
  <2>13. /\ OpenBlocks[n].start = pos /\ OpenBlocks[n].end = 0
         /\ OpenBlocks[n].code = {} /\ OpenBlocks[n].cfs = <<>>
    <3>1. n \in 1..n /\ n # cur
      BY <1>2, <2>1
    <3> QED
      BY <1>4, <2>6, <2>9, <3>1
  <2> QED
    BY <2>10, <2>11, <2>12, <2>13
<1> QED
  BY <1>5, <1>6

LEMMA OpenPtrTyped ==
  ASSUME Inv, phase = "scan", pos <= N
  PROVE  /\ OpenPtr \in [Slots -> 0..(Len(bbs) + 1)]
         /\ \A a \in Slots : OpenPtr[a] # Null => a <= pos
<1> DEFINE p == [ptr EXCEPT ![pos] = Len(bbs) + 1]
<1>1. /\ Len(bbs) \in Nat /\ pos \in 1..N /\ cur \in 0..Len(bbs)
      /\ ptr \in [Slots -> 0..Len(bbs)]
      /\ \A a \in Slots : ptr[a] # Null => a <= pos - 1
  BY NAssumption DEF Inv, Typed, Behind, Horizon, WfBlocks, IsSeq
<1>2. p \in [Slots -> 0..(Len(bbs) + 1)]
  BY <1>1 DEF Slots
<1>3. \A a \in Slots : p[a] # Null => a <= pos
  BY <1>1 DEF Slots
<1> DEFINE n == Len(bbs) + 1
<1>4. pos \in Int /\ pos - 1 \in Int /\ pos - 1 <= pos /\ n \in Nat /\ cur \in 0..n
  BY <1>1
<1>5. /\ SetEnd(p, cur, bbs[cur].start, pos - 1) \in [Slots -> 0..n]
      /\ \A a \in Slots : SetEnd(p, cur, bbs[cur].start, pos - 1)[a] # Null => a <= pos
  <2>1. p \in [Slots -> 0..n]
    BY <1>2
  <2> HIDE DEF p, n
  <2> QED
    BY <1>3, <1>4, <2>1, SetEndTyped
<1> QED
  BY <1>2, <1>3, <1>5 DEF OpenPtr

(* The operations of an instruction. *)
LEMMA CfsOfWf ==
  ASSUME NEW ins \in Instr, NEW i \in Slots, NEW n \in Nat
  PROVE  WfCfs(CfsOf(ins, i), n)
<1>1. /\ ins.t \in 0..(N + 1) /\ i \in 0..N /\ i \in 0..(N + 1) /\ i + 1 \in 0..(N + 1)
      /\ 0 \in 0..(N + 1) /\ Null \in 0..n
  BY NAssumption DEF Instr, Targets, Slots, Null
<1>2. \A type \in CfType, jump \in 0..(N + 1) : WfCf(Cf(type, i, jump, Null), n)
  BY <1>1, CfWf
<1>3. WfCfs(<<>>, n)
  BY EmptyIsSeq DEF WfCfs
<1>4. ASSUME NEW cf, WfCf(cf, n)
      PROVE  WfCfs(<<cf>>, n)
  BY <1>4, SingleIsSeq DEF WfCfs
<1>5. ASSUME NEW cf, WfCf(cf, n), NEW cg, WfCf(cg, n)
      PROVE  WfCfs(<<cf, cg>>, n)
  <2>1. IsSeq(<<cf, cg>>) /\ DOMAIN <<cf, cg>> = {1, 2}
    BY DEF IsSeq
  <2> QED
    BY <1>5, <2>1 DEF WfCfs
<1> DEFINE W(type, jump) == WfCf(Cf(type, i, jump, Null), n)
<1>6. /\ W("jump", ins.t) /\ W("call", ins.t) /\ W("cjump", ins.t) /\ W("jump", i + 1)
      /\ W("cjump", i + 1) /\ W("syscall", i + 1) /\ W("ijump", 0) /\ W("icall", 0) /\ W("ret", 0)
  BY <1>1, <1>2 DEF CfType
<1>7. /\ WfCfs(<<Cf("jump", i, ins.t, Null)>>, n)
      /\ WfCfs(<<Cf("call", i, ins.t, Null)>>, n)
      /\ WfCfs(<<Cf("syscall", i, i + 1, Null)>>, n)
      /\ WfCfs(<<Cf("ijump", i, 0, Null)>>, n)
      /\ WfCfs(<<Cf("icall", i, 0, Null)>>, n)
      /\ WfCfs(<<Cf("ret", i, 0, Null)>>, n)
  BY <1>4, <1>6
<1>8. /\ WfCfs(<<Cf("cjump", i, ins.t, Null), Cf("jump", i, i + 1, Null)>>, n)
      /\ WfCfs(<<Cf("cjump", i, i + 1, Null), Cf("jump", i, ins.t, Null)>>, n)
  BY <1>5, <1>6
<1> QED
  BY <1>3, <1>7, <1>8 DEF CfsOf

(* Nothing is lifted and no code moves. *)
LEMMA PartitionKept ==
  ASSUME IsSeq(bbs), IsSeq(bbs'), Len(bbs) <= Len(bbs'),
         \A b \in 1..Len(bbs) : bbs'[b].code = bbs[b].code,
         \A b \in (Len(bbs) + 1)..Len(bbs') : bbs'[b].code = {},
         \A i \in Slots : Lifted(i)' <=> Lifted(i),
         CodePartition
  PROVE  CodePartition'
<1>1. /\ Len(bbs) \in Nat /\ BlockIds = 1..Len(bbs)
      /\ Len(bbs') \in Nat /\ BlockIds' = 1..Len(bbs')
  BY DEF IsSeq, BlockIds
<1>2. \A b \in BlockIds : b \in BlockIds' /\ bbs'[b].code = bbs[b].code
  BY <1>1
<1>3. \A b \in BlockIds' : b \in BlockIds \/ bbs'[b].code = {}
  BY <1>1
<1>4. ASSUME NEW i \in Slots
      PROVE  {c \in BlockIds' : i \in bbs'[c].code} = {c \in BlockIds : i \in bbs[c].code}
  BY <1>2, <1>3
<1> HIDE DEF Lifted
<1>5. ASSUME NEW i \in Slots, Lifted(i)'
      PROVE  \E b \in BlockIds' : {c \in BlockIds' : i \in bbs'[c].code} = {b}
  BY <1>2, <1>4, <1>5 DEF CodePartition
<1>6. ASSUME NEW i \in Slots, ~Lifted(i)'
      PROVE  \A b \in BlockIds' : i \notin bbs'[b].code
  BY <1>2, <1>3, <1>6 DEF CodePartition
<1> QED
  BY <1>5, <1>6 DEF CodePartition

(* Blocks keep their place and the horizon does not move back. *)
LEMMA BehindKept ==
  ASSUME Typed, Behind, IsSeq(bbs'), Extends(bbs, bbs'), Horizon \in Int, Horizon' \in Int,
         Horizon <= Horizon',
         \A b \in (Len(bbs) + 1)..Len(bbs') : bbs'[b].start <= Horizon' /\ bbs'[b].end <= Horizon',
         \A a \in Slots : ptr'[a] # Null => ptr[a] # Null \/ a <= Horizon',
         phase' = "split" => req.addr' <= Horizon'
  PROVE  Behind'
<1>1. Len(bbs) \in Nat /\ Len(bbs') \in Nat
  BY DEF Typed, WfBlocks, IsSeq
<1>2. ASSUME NEW b \in 1..Len(bbs')
      PROVE  /\ bbs'[b].start <= Horizon'
             /\ bbs'[b].end <= Horizon'
             /\ \A i \in bbs'[b].code : i <= Horizon'
  <2>1. CASE b \in 1..Len(bbs)
    <3>1. /\ bbs'[b].start = bbs[b].start /\ bbs'[b].end = bbs[b].end /\ bbs'[b].code = bbs[b].code
      BY <2>1 DEF Extends
    <3>2. /\ bbs[b].start <= Horizon /\ bbs[b].end <= Horizon
          /\ bbs[b].start \in Int /\ bbs[b].end \in Int
          /\ \A i \in bbs[b].code : i <= Horizon /\ i \in Int
      BY <2>1 DEF Typed, Behind, WfBlocks, WfBlock, Slots
    <3> HIDE DEF Horizon
    <3> QED
      BY <3>1, <3>2
  <2>2. CASE b \in (Len(bbs) + 1)..Len(bbs')
    BY <2>2 DEF Extends
  <2> QED
    BY <1>1, <2>1, <2>2
<1>3. ASSUME NEW a \in Slots, ptr'[a] # Null
      PROVE  a <= Horizon'
  <2>1. CASE ptr[a] # Null
    <3>1. a <= Horizon /\ a \in Int
      BY <2>1 DEF Behind, Slots
    <3> QED
      BY <3>1
  <2> QED
    BY <1>3, <2>1
<1> QED
  BY <1>2, <1>3 DEF Behind

(* Steps of the scan that lift nothing keep the blocks where they are. *)
LEMMA ScanDataInv ==
  ASSUME Inv, ScanData
  PROVE  Inv' /\ (CodePartition => CodePartition')
<1>1. /\ WfBlocks(bbs) /\ IsSeq(bbs) /\ Len(bbs) \in Nat
      /\ pos \in 1..N /\ pos \in 0..N /\ cur \in 0..Len(bbs) /\ phase = "scan"
  BY NAssumption DEF Inv, Typed, WfBlocks, IsSeq, ScanData
<1>2. SameExtent(bbs, bbs')
  <2>1. CASE cur = Null
    BY <1>1, <2>1, ExtendsReflexive DEF ScanData, SameExtent
  <2>2. CASE cur # Null
    BY <1>1, <2>2, UnreachableSame DEF ScanData, Null
  <2> QED
    BY <2>1, <2>2
<1>3. Typed'
  BY <1>1, <1>2, NAssumption DEF Inv, Typed, ScanData, SameExtent, Null
<1>4. Control'
  BY <1>1, <1>2, NAssumption DEF Inv, Control, Lifting, ScanData, SameExtent, Null
<1>5. Behind'
  <2>1. Horizon = pos - 1 /\ Horizon' = pos /\ phase' = "scan" /\ ptr' = ptr
    BY <1>1 DEF Horizon, ScanData
  <2> QED
    BY <1>1, <1>2, <2>1, BehindKept DEF Inv, SameExtent, WfBlocks
<1>6. \A i \in Slots : Lifted(i)' <=> Lifted(i)
  BY <1>1 DEF Lifted, IsInstr, ScanData, Slots
<1>7. ASSUME CodePartition
      PROVE  CodePartition'
  BY <1>1, <1>2, <1>6, <1>7, PartitionKept DEF SameExtent, Extends, WfBlocks
<1> QED
  BY <1>3, <1>4, <1>5, <1>7 DEF Inv

LEMMA ScanInvalidInv ==
  ASSUME Inv, ScanInvalid
  PROVE  Inv' /\ (CodePartition => CodePartition')
<1> DEFINE n == Len(bbs) + 1
<1>1. /\ WfBlocks(bbs) /\ IsSeq(bbs) /\ Len(bbs) \in Nat
      /\ pos \in 1..N /\ pos \in 0..N /\ cur \in 0..Len(bbs) /\ phase = "scan" /\ pos <= N
      /\ n \in 1..n
  BY NAssumption DEF Inv, Typed, WfBlocks, IsSeq, ScanInvalid
<1>2. CASE cur # Null /\ pos \in needs
  <2>1. bbs' = Unreachable(OpenBlocks, n, pos) /\ ptr' = OpenPtr
    BY <1>2 DEF ScanInvalid
  <2>2. SameExtent(OpenBlocks, bbs')
    <3> HIDE DEF n
    <3> QED
      BY <1>1, <2>1, OpenWf, UnreachableSame DEF n
  <2>3. WfBlocks(bbs') /\ Len(bbs') = n
    BY <1>1, <2>2, OpenWf DEF SameExtent
  <2>4. /\ \A b \in 1..Len(bbs) : /\ bbs'[b].start = bbs[b].start
                                 /\ bbs'[b].code = bbs[b].code
                                 /\ bbs'[b].end \in {bbs[b].end, pos - 1}
        /\ bbs'[n].start = pos /\ bbs'[n].end = 0 /\ bbs'[n].code = {}
    BY <1>1, <2>2, OpenWf DEF SameExtent, Extends
  <2>5. /\ ptr' \in [Slots -> 0..n]
        /\ \A a \in Slots : ptr'[a] # Null => a <= pos
    BY <1>1, <2>1, OpenPtrTyped
  <2>6. Typed'
    BY <1>1, <2>3, <2>5, NAssumption DEF Inv, Typed, ScanInvalid, Null
  <2>7. Control'
    BY <1>1, <2>3, NAssumption DEF Inv, Control, Lifting, ScanInvalid, Null, Dummy
  <2>8. Behind'
    <3>1. ASSUME NEW b \in 1..Len(bbs')
          PROVE  /\ bbs'[b].start <= pos
                 /\ bbs'[b].end <= pos
                 /\ \A i \in bbs'[b].code : i <= pos
      <4>1. CASE b = n
        BY <1>1, <2>4, <4>1
      <4>2. CASE b \in 1..Len(bbs)
        <5>1. /\ bbs[b].start <= pos - 1 /\ bbs[b].end <= pos - 1
              /\ bbs[b].start \in Int /\ bbs[b].end \in Int
              /\ \A i \in bbs[b].code : i <= pos - 1 /\ i \in Int
          BY <1>1, <4>2 DEF Inv, Behind, Horizon, WfBlocks, WfBlock, Slots
        <5> QED
          BY <1>1, <2>4, <4>2, <5>1
      <4> QED
        BY <1>1, <2>3, <4>1, <4>2
    <3> QED
      BY <1>1, <2>5, <3>1 DEF Behind, Horizon, ScanInvalid
  <2>9. ASSUME CodePartition
         PROVE  CodePartition'
    <3>1. \A i \in Slots : Lifted(i)' <=> Lifted(i)
      BY <1>1 DEF Lifted, IsInstr, ScanInvalid, Slots
    <3>2. \A b \in (Len(bbs) + 1)..Len(bbs') : bbs'[b].code = {}
      BY <1>1, <2>3, <2>4
    <3> QED
      BY <1>1, <2>3, <2>4, <2>9, <3>1, <3>2, PartitionKept DEF WfBlocks
  <2> QED
    BY <2>6, <2>7, <2>8, <2>9 DEF Inv
<1>3. CASE ~(cur # Null /\ pos \in needs)
  <2>1. SameExtent(bbs, bbs')
    <3>1. CASE cur = Null
      BY <1>1, <1>3, <3>1, ExtendsReflexive DEF ScanInvalid, SameExtent
    <3>2. CASE cur # Null
      BY <1>1, <1>3, <3>2, UnreachableSame DEF ScanInvalid, Null
    <3> QED
      BY <3>1, <3>2
  <2>2. Typed'
    BY <1>1, <1>3, <2>1, NAssumption DEF Inv, Typed, ScanInvalid, SameExtent, Null
  <2>3. Control'
    BY <1>1, <2>1, NAssumption DEF Inv, Control, Lifting, ScanInvalid, SameExtent, Null
  <2>4. Behind'
    <3>1. Horizon = pos - 1 /\ Horizon' = pos /\ phase' = "scan" /\ ptr' = ptr
      BY <1>1, <1>3 DEF Horizon, ScanInvalid
    <3> QED
      BY <1>1, <2>1, <3>1, BehindKept DEF Inv, SameExtent, WfBlocks
  <2>5. \A i \in Slots : Lifted(i)' <=> Lifted(i)
    BY <1>1 DEF Lifted, IsInstr, ScanInvalid, Slots
  <2>6. ASSUME CodePartition
        PROVE  CodePartition'
    BY <1>1, <2>1, <2>5, <2>6, PartitionKept DEF SameExtent, Extends, WfBlocks
  <2> QED
    BY <2>2, <2>3, <2>4, <2>6 DEF Inv
<1> QED
  BY <1>2, <1>3

(* The block an instruction is lifted into, before it is: what ScanInstr    *)
(* calls opens, b, B and p.                                                *)
LEMMA TargetBlock ==
  ASSUME Inv, phase = "scan", pos <= N,
         NEW opens, opens <=> cur = Null \/ pos \in needs,
         NEW b, b = IF opens THEN Len(bbs) + 1 ELSE cur,
         NEW B, B = IF opens THEN OpenBlocks ELSE bbs,
         NEW p, p = IF opens THEN OpenPtr ELSE ptr
  PROVE  /\ WfBlocks(B) /\ Len(B) \in Nat /\ b \in 1..Len(B)
         /\ Len(B) = IF opens THEN Len(bbs) + 1 ELSE Len(bbs)
         /\ \A c \in 1..Len(B) : /\ B[c].start <= pos
                                 /\ B[c].end <= pos
                                 /\ \A i \in B[c].code : i <= pos - 1
         /\ \A c \in 1..Len(bbs) : B[c].code = bbs[c].code
         /\ \A c \in (Len(bbs) + 1)..Len(B) : B[c].code = {}
         /\ p \in [Slots -> 0..Len(B)]
         /\ \A a \in Slots : p[a] # Null => a <= pos
<1>1. /\ WfBlocks(bbs) /\ IsSeq(bbs) /\ Len(bbs) \in Nat
      /\ pos \in 1..N /\ cur \in 0..Len(bbs)
      /\ ptr \in [Slots -> 0..Len(bbs)]
      /\ \A a \in Slots : a \in Int /\ (ptr[a] # Null => a <= pos - 1)
  BY NAssumption DEF Inv, Typed, Behind, Horizon, WfBlocks, IsSeq, Slots
<1>2. ASSUME NEW c \in 1..Len(bbs)
      PROVE  /\ bbs[c].start <= pos - 1 /\ bbs[c].start \in Int
             /\ bbs[c].end <= pos - 1 /\ bbs[c].end \in Int
             /\ \A i \in bbs[c].code : i <= pos - 1
  BY <1>1 DEF Inv, Behind, Horizon, WfBlocks, WfBlock
<1>3. CASE ~opens
  <2>1. B = bbs /\ b = cur /\ p = ptr /\ b \in 1..Len(bbs)
    BY <1>1, <1>3 DEF Null
  <2> QED
    BY <1>1, <1>2, <1>3, <2>1
<1>4. CASE opens
  <2>1. B = OpenBlocks /\ b = Len(bbs) + 1 /\ p = OpenPtr
    BY <1>4
  <2>2. WfBlocks(B) /\ Len(B) = Len(bbs) + 1
    BY <2>1, OpenWf
  <2>3. ASSUME NEW c \in 1..Len(bbs)
        PROVE  /\ B[c].start <= pos
               /\ B[c].end <= pos
               /\ B[c].code = bbs[c].code
               /\ \A i \in B[c].code : i <= pos - 1
    <3>1. B[c].start = bbs[c].start /\ B[c].code = bbs[c].code /\ B[c].end \in {bbs[c].end, pos - 1}
      BY <2>1, OpenWf
    <3> QED
      BY <1>1, <1>2, <3>1
  <2>4. LET n == Len(bbs) + 1
        IN  B[n].start = pos /\ B[n].end = 0 /\ B[n].code = {}
    BY <2>1, OpenWf
  <2>5. p \in [Slots -> 0..Len(B)] /\ \A a \in Slots : p[a] # Null => a <= pos
    BY <2>1, <2>2, OpenPtrTyped
  <2>6. \A c \in 1..Len(B) : c \in 1..Len(bbs) \/ c = Len(bbs) + 1
    BY <1>1, <2>2
  <2> QED
    BY <1>1, <1>4, <2>1, <2>2, <2>3, <2>4, <2>5, <2>6
<1> QED
  BY <1>3, <1>4

(* Lifting one instruction into block c. *)
LEMMA LiftedBlock ==
  ASSUME NEW n, NEW c, WfBlock(c, n), NEW S \in SUBSET Slots, NEW cfs, WfCfs(cfs, n),
         NEW e \in 0..N,
         NEW w \in {WithCfs(WithCode(c, S), cfs), WithEnd(WithCfs(WithCode(c, S), cfs), e)}
  PROVE  /\ WfBlock(w, n)
         /\ w.start = c.start /\ w.end \in {c.end, e} /\ w.code = S
<1> DEFINE x == WithCode(c, S)
           y == WithCfs(x, cfs)
           z == WithEnd(y, e)
<1>1. WfBlock(x, n) /\ x.start = c.start /\ x.end = c.end /\ x.code = S
  BY FieldsWf, FieldsSame
<1>2. WfBlock(y, n) /\ y.start = c.start /\ y.end = c.end /\ y.code = S
  <2> HIDE DEF x
  <2>1. WfBlock(y, n)
    BY <1>1, FieldsWf
  <2>2. y.start = x.start /\ y.end = x.end /\ y.code = x.code
    BY <1>1, FieldsSame
  <2> QED
    BY <1>1, <2>1, <2>2
<1>3. WfBlock(z, n) /\ z.start = c.start /\ z.end = e /\ z.code = S
  <2> HIDE DEF y
  <2>1. WfBlock(z, n)
    BY <1>2, FieldsWf
  <2>2. z.start = y.start /\ z.end = e /\ z.code = y.code
    BY <1>2, FieldsSame
  <2> QED
    BY <1>2, <2>1, <2>2
<1>4. w \in {y, z}
  OBVIOUS
<1> QED
  BY <1>2, <1>3, <1>4

LEMMA ScanInstrInv ==
  ASSUME Inv, ScanInstr
  PROVE  Inv' /\ (CodePartition => CodePartition')
<1> DEFINE ins == prog[pos]
<1>1. /\ WfBlocks(bbs) /\ IsSeq(bbs) /\ Len(bbs) \in Nat
      /\ pos \in 1..N /\ pos \in 0..N /\ pos \in Slots /\ phase = "scan" /\ pos <= N /\ N \in Nat
      /\ ins \in Instr
  BY NAssumption, InstrAssumption DEF Inv, Typed, WfBlocks, IsSeq, ScanInstr, Slots
<1>2. PICK opens : opens <=> cur = Null \/ pos \in needs
  OBVIOUS
<1>3. PICK b : b = IF opens THEN Len(bbs) + 1 ELSE cur
  OBVIOUS
<1>4. PICK B : B = IF opens THEN OpenBlocks ELSE bbs
  OBVIOUS
<1>5. PICK p : p = IF opens THEN OpenPtr ELSE ptr
  OBVIOUS
<1>6. /\ WfBlocks(B) /\ Len(B) \in Nat /\ b \in 1..Len(B)
      /\ Len(B) = IF opens THEN Len(bbs) + 1 ELSE Len(bbs)
      /\ \A c \in 1..Len(B) : /\ B[c].start <= pos
                              /\ B[c].end <= pos
                              /\ \A i \in B[c].code : i <= pos - 1
      /\ \A c \in 1..Len(bbs) : B[c].code = bbs[c].code
      /\ \A c \in (Len(bbs) + 1)..Len(B) : B[c].code = {}
      /\ p \in [Slots -> 0..Len(B)]
      /\ \A a \in Slots : p[a] # Null => a <= pos
  BY <1>1, <1>2, <1>3, <1>4, <1>5, TargetBlock
<1> DEFINE y == WithCfs(WithCode(B[b], B[b].code \cup {pos}), CfsOf(ins, pos))
           z == WithEnd(y, pos)
<1>7. WfBlock(B[b], Len(B)) /\ B[b].code \cup {pos} \in SUBSET Slots
  BY <1>1, <1>6 DEF WfBlocks, WfBlock
<1>8. WfCfs(CfsOf(ins, pos), Len(B))
  BY <1>1, <1>6, CfsOfWf
<1>9. [B EXCEPT ![b].code = @ \cup {pos}, ![b].cfs = CfsOf(ins, pos)] = Put(B, b, y)
  BY <1>6, <1>7 DEF Put, WithCode, WithCfs, WfBlocks, IsSeq, WfBlock, BlockFields
<1>10. [Put(B, b, y) EXCEPT ![b].end = pos] = Put(B, b, z)
  <2> HIDE DEF y
  <2> QED
    BY <1>6 DEF Put, WithEnd, WfBlocks, IsSeq
<1>11. /\ b = (IF cur = Null \/ pos \in needs THEN Len(bbs) + 1 ELSE cur)
       /\ B = (IF cur = Null \/ pos \in needs THEN OpenBlocks ELSE bbs)
       /\ p = (IF cur = Null \/ pos \in needs THEN OpenPtr ELSE ptr)
  BY <1>2, <1>3, <1>4, <1>5
<1>12. /\ cur' = b
       /\ \/ /\ bbs' = [[B EXCEPT ![b].code = @ \cup {pos}, ![b].cfs = CfsOf(ins, pos)] EXCEPT ![b].end = pos]
             /\ ptr' = SetEnd(p, b, B[b].start, pos)
             /\ phase' = "cf" /\ cfi' = 1 /\ pos' = pos
          \/ /\ bbs' = [B EXCEPT ![b].code = @ \cup {pos}, ![b].cfs = CfsOf(ins, pos)]
             /\ ptr' = p
             /\ phase' = phase /\ cfi' = cfi /\ pos' = pos + 1
       /\ UNCHANGED <<prog, req, needs, entry, todo, ijumps, found>>
  BY <1>11, Zenon DEF ScanInstr
<1>13. /\ cur' = b
       /\ \/ /\ bbs' = Put(B, b, z)
             /\ ptr' = SetEnd(p, b, B[b].start, pos)
             /\ phase' = "cf" /\ cfi' = 1 /\ pos' = pos
          \/ /\ bbs' = Put(B, b, y)
             /\ ptr' = p
             /\ phase' = phase /\ cfi' = cfi /\ pos' = pos + 1
       /\ UNCHANGED <<prog, req, needs, entry, todo, ijumps, found>>
  <2> HIDE DEF y, z
  <2> QED
    BY <1>9, <1>10, <1>12
<1>14. PICK w \in {y, z} : bbs' = Put(B, b, w)
  BY <1>13
<1>15. /\ WfBlock(w, Len(B)) /\ w.start = B[b].start /\ w.end \in {B[b].end, pos}
       /\ w.code = B[b].code \cup {pos}
  BY <1>1, <1>7, <1>8, <1>14, LiftedBlock
<1> HIDE DEF y, z, ins
<1>16. /\ WfBlocks(bbs') /\ Len(bbs') = Len(B)
       /\ \A c \in 1..Len(B) : bbs'[c] = IF c = b THEN w ELSE B[c]
  BY <1>6, <1>14, <1>15, PutWf
<1>17. /\ ptr' \in [Slots -> 0..Len(B)]
       /\ \A a \in Slots : ptr'[a] # Null => a <= pos
  <2>1. /\ SetEnd(p, b, B[b].start, pos) \in [Slots -> 0..Len(B)]
        /\ \A a \in Slots : SetEnd(p, b, B[b].start, pos)[a] # Null => a <= pos
    <3>1. b \in 0..Len(B) /\ pos \in Int /\ pos <= pos
      BY <1>1, <1>6
    <3> QED
      BY <1>6, <3>1, SetEndTyped
  <2> QED
    BY <1>6, <1>13, <2>1
<1>18. Typed'
  <2>1. /\ prog \in [Slots -> Instrs] /\ phase \in Phases /\ cfi \in Nat \ {0}
        /\ req.bb \in 0..Len(bbs) /\ req.addr \in 0..N /\ req.back \in {"cf", "register"}
        /\ needs \subseteq Slots /\ entry \in 0..Len(bbs)
        /\ todo \subseteq (1..Len(bbs)) \X (Nat \ {0})
        /\ ijumps \subseteq Slots /\ found \subseteq 0..(N + 1)
    BY DEF Inv, Typed
  <2>2. Len(bbs') \in Nat /\ 0..Len(bbs) \subseteq 0..Len(bbs') /\ 1..Len(bbs) \subseteq 1..Len(bbs')
    BY <1>1, <1>6, <1>16
  <2>3. /\ phase' \in Phases /\ cfi' \in Nat \ {0} /\ pos' \in 1..(N + 1)
        /\ cur' \in 0..Len(bbs')
    BY <1>1, <1>6, <1>13, <1>16, <2>1 DEF Phases
  <2>4. todo \subseteq (1..Len(bbs')) \X (Nat \ {0})
    BY <2>1, <2>2
  <2> QED
    BY <1>13, <1>16, <1>17, <2>1, <2>2, <2>3, <2>4 DEF Typed
<1>19. Control'
  <2>1. Len(bbs) <= Len(B)
    BY <1>1, <1>6
  <2> QED
    BY <1>1, <1>6, <1>13, <1>16, <2>1 DEF Inv, Control, Lifting, Null, Dummy
<1>20. Horizon' = pos /\ Horizon = pos - 1
  BY <1>1, <1>13 DEF Horizon
<1>21. Behind'
  <2>1. ASSUME NEW c \in 1..Len(bbs')
        PROVE  /\ bbs'[c].start <= pos
               /\ bbs'[c].end <= pos
               /\ \A i \in bbs'[c].code : i <= pos
    <3>1. /\ B[c].start <= pos /\ B[c].end <= pos
          /\ \A i \in B[c].code : i <= pos /\ i \in Int
      BY <1>1, <1>6, <1>16 DEF WfBlocks, WfBlock, Slots
    <3> QED
      BY <1>1, <1>15, <1>16, <3>1
  <2> QED
    BY <1>1, <1>13, <1>17, <1>20, <2>1 DEF Behind
<1>22. ASSUME CodePartition
       PROVE  CodePartition'
  <2>1. BlockIds = 1..Len(bbs) /\ BlockIds' = 1..Len(B)
    BY <1>1, <1>16 DEF BlockIds, IsSeq, WfBlocks
  <2>0. PICK q \in Slots : q = pos
    BY <1>1
  <2>2. /\ Lifted(q)'
        /\ \A i \in Slots \ {q} : Lifted(i)' <=> Lifted(i)
    <3>1. prog' = prog /\ IsInstr(q)
      BY <1>1, <1>13, <2>0 DEF IsInstr, ScanInstr
    <3>2. \A i \in Slots : i \in Int /\ (IsInstr(i)' <=> IsInstr(i))
      BY <3>1 DEF IsInstr, Slots
    <3>3. \A i \in Slots : (i < pos \/ (i = pos /\ phase # "scan"))' <=> i <= pos
      BY <1>1, <1>13, <3>2
    <3>4. \A i \in Slots : (i < pos \/ (i = pos /\ phase # "scan")) <=> i < pos
      BY <1>1, <3>2
    <3> HIDE DEF IsInstr
    <3>5. \A i \in Slots : Lifted(i)' <=> IsInstr(i) /\ i <= pos
      BY <3>2, <3>3 DEF Lifted
    <3>6. \A i \in Slots : Lifted(i) <=> IsInstr(i) /\ i < pos
      BY <3>4 DEF Lifted
    <3> QED
      BY <1>1, <2>0, <3>1, <3>2, <3>5, <3>6
  <2>3. ASSUME NEW i \in Slots \ {pos}
        PROVE  {c \in BlockIds' : i \in bbs'[c].code} = {c \in BlockIds : i \in bbs[c].code}
    <3>1. \A c \in 1..Len(B) : i \in bbs'[c].code <=> i \in B[c].code
      BY <1>15, <1>16
    <3>2. \A c \in 1..Len(B) : c \in 1..Len(bbs) \/ B[c].code = {}
      BY <1>1, <1>6
    <3>3. \A c \in 1..Len(bbs) : c \in 1..Len(B) /\ B[c].code = bbs[c].code
      BY <1>1, <1>6
    <3> QED
      BY <2>1, <3>1, <3>2, <3>3
  <2>4. {c \in BlockIds' : pos \in bbs'[c].code} = {b}
    <3>1. \A c \in 1..Len(B) : pos \notin B[c].code
      BY <1>1, <1>6
    <3> QED
      BY <1>6, <1>15, <1>16, <2>1, <3>1
  <2>5. ASSUME NEW i \in Slots, Lifted(i)'
        PROVE  \E c \in BlockIds' : {d \in BlockIds' : i \in bbs'[d].code} = {c}
    <3>1. CASE i = pos
      BY <1>6, <2>1, <2>4, <3>1
    <3>2. CASE i # pos
      <4>1. PICK c \in BlockIds : {d \in BlockIds : i \in bbs[d].code} = {c}
        BY <1>22, <2>0, <2>2, <2>5, <3>2 DEF CodePartition
      <4>2. c \in BlockIds'
        BY <1>1, <1>6, <2>1
      <4> QED
        BY <2>3, <3>2, <4>1, <4>2
    <3> QED
      BY <3>1, <3>2
  <2>6. ASSUME NEW i \in Slots, ~Lifted(i)'
        PROVE  \A c \in BlockIds' : i \notin bbs'[c].code
    <3>1. i # pos
      <4> HIDE DEF Lifted
      <4> QED
        BY <2>0, <2>2, <2>6
    <3>2. \A c \in BlockIds : i \notin bbs[c].code
      BY <1>22, <2>0, <2>2, <2>6, <3>1 DEF CodePartition
    <3> QED
      BY <2>3, <3>1, <3>2
  <2> QED
    BY <2>5, <2>6 DEF CodePartition
<1> QED
  BY <1>18, <1>19, <1>21, <1>22 DEF Inv
(* The scan ends. *)
LEMMA FinishScanInv ==
  ASSUME Inv, FinishScan
  PROVE  Inv' /\ (CodePartition => CodePartition')
<1>1. /\ WfBlocks(bbs) /\ IsSeq(bbs) /\ Len(bbs) \in Nat
      /\ pos = N + 1 /\ phase = "scan" /\ bbs' = bbs /\ prog' = prog /\ pos' = pos /\ ptr' = ptr
      /\ phase' \in {"post", "crashed"} /\ N \in Nat /\ req' = req
  BY NAssumption DEF Inv, Typed, WfBlocks, IsSeq, FinishScan
<1>2. todo' \subseteq (1..Len(bbs)) \X (Nat \ {0})
  <2>1. DOMAIN bbs = 1..Len(bbs)
    BY <1>1 DEF IsSeq
  <2>2. ASSUME NEW b \in 1..Len(bbs)
        PROVE  DOMAIN bbs[b].cfs \subseteq Nat \ {0}
    <3>1. WfBlock(bbs[b], Len(bbs))
      BY <1>1 DEF WfBlocks
    <3>2. DOMAIN bbs[b].cfs = 1..Len(bbs[b].cfs)
      BY <3>1 DEF WfBlock, WfCfs, IsSeq
    <3> QED
      BY <3>2
  <2> QED
    BY <2>1, <2>2 DEF FinishScan
<1>3. entry' = ptr[Entry] /\ ptr[Entry] \in 0..Len(bbs)
  BY EntryAssumption DEF Inv, Typed, FinishScan
<1>4. Typed'
  BY <1>1, <1>2, <1>3 DEF Inv, Typed, FinishScan, Phases
<1>5. Control'
  <2>1. \A m \in todo' : m[2] \in DOMAIN bbs[m[1]].cfs
    BY DEF FinishScan
  <2> QED
    BY <1>1, <1>3, <2>1 DEF Inv, Control, Lifting, FinishScan
<1>6. Behind'
  <2>1. Horizon = pos - 1 /\ Horizon' = pos /\ phase' # "split"
    BY <1>1 DEF Horizon
  <2> QED
    BY <1>1, <2>1, BehindKept, ExtendsReflexive DEF Inv
<1>7. \A i \in Slots : Lifted(i)' <=> Lifted(i)
  BY <1>1 DEF Lifted, IsInstr, Slots
<1>8. ASSUME CodePartition
      PROVE  CodePartition'
  BY <1>1, <1>7, <1>8, PartitionKept, ExtendsReflexive DEF Extends
<1> QED
  BY <1>4, <1>5, <1>6, <1>8 DEF Inv

-----------------------------------------------------------------------------
(* The loop over the operations of the block that has ended.               *)

(* One operation replaced. *)
LEMMA PutCfWf ==
  ASSUME NEW n, NEW cfs, WfCfs(cfs, n), NEW k, NEW cf, k \in DOMAIN cfs => WfCf(cf, n)
  PROVE  WfCfs([cfs EXCEPT ![k] = cf], n)
<1>1. IsSeq(cfs) /\ DOMAIN cfs = 1..Len(cfs)
  BY DEF WfCfs, IsSeq
<1>2. IsSeq([cfs EXCEPT ![k] = cf])
  BY <1>1, ExceptIsSeq
<1>3. ASSUME NEW j \in DOMAIN cfs
      PROVE  WfCf([cfs EXCEPT ![k] = cf][j], n)
  BY <1>3 DEF WfCfs
<1> QED
  BY <1>2, <1>3 DEF WfCfs

(* One operation of one block replaced. *)
PutCf(B, b, k, cf) == Put(B, b, WithCfs(B[b], [B[b].cfs EXCEPT ![k] = cf]))

LEMMA PutCfSame ==
  ASSUME NEW B, WfBlocks(B), NEW b \in 1..Len(B), NEW k, NEW cf,
         k \in DOMAIN B[b].cfs => WfCf(cf, Len(B))
  PROVE  SameExtent(B, PutCf(B, b, k, cf))
<1> DEFINE cfs == [B[b].cfs EXCEPT ![k] = cf]
           x == WithCfs(B[b], cfs)
<1>1. WfBlock(B[b], Len(B)) /\ WfCfs(B[b].cfs, Len(B))
  BY DEF WfBlocks, WfBlock
<1>2. WfCfs(cfs, Len(B))
  BY <1>1, PutCfWf
<1> HIDE DEF cfs
<1>3. WfBlock(x, Len(B)) /\ x.start = B[b].start /\ x.end = B[b].end /\ x.code = B[b].code
  BY <1>1, <1>2, FieldsWf, FieldsSame
<1>4. PutCf(B, b, k, cf) = Put(B, b, x)
  BY DEF PutCf, cfs
<1> HIDE DEF x
<1> QED
  BY <1>3, <1>4, PutSame

(* The operations of block c afterwards. *)
CfsBut(B, b, k, cf, c) == IF c = b THEN [B[b].cfs EXCEPT ![k] = cf] ELSE B[c].cfs

LEMMA PutCfCfs ==
  ASSUME NEW B, WfBlocks(B), NEW b \in 1..Len(B), NEW k, NEW cf,
         k \in DOMAIN B[b].cfs => WfCf(cf, Len(B))
  PROVE  \A c \in 1..Len(B) : PutCf(B, b, k, cf)[c].cfs = CfsBut(B, b, k, cf, c)
<1> DEFINE cfs == [B[b].cfs EXCEPT ![k] = cf]
           x == WithCfs(B[b], cfs)
<1>1. WfBlock(B[b], Len(B)) /\ WfCfs(B[b].cfs, Len(B))
  BY DEF WfBlocks, WfBlock
<1>2. WfCfs(cfs, Len(B))
  BY <1>1, PutCfWf
<1> HIDE DEF cfs
<1>3. WfBlock(x, Len(B)) /\ x.cfs = cfs
  BY <1>1, <1>2, FieldsWf, FieldsSame
<1>4. PutCf(B, b, k, cf) = Put(B, b, x)
  BY DEF PutCf, cfs
<1> HIDE DEF x
<1>5. \A c \in 1..Len(B) : Put(B, b, x)[c].cfs = IF c = b THEN cfs ELSE B[c].cfs
  BY <1>3, PutWf
<1> QED
  BY <1>4, <1>5 DEF CfsBut, cfs

(* A field of an operation replaced. *)
LEMMA CfFieldsWf ==
  ASSUME NEW n \in Nat, NEW cf, WfCf(cf, n)
  PROVE  /\ \A t \in 0..n : WfCf([cf EXCEPT !.target = t], n)
         /\ \A c \in 0..n : WfCf([cf EXCEPT !.cont = c], n)
         /\ \A S \in SUBSET Slots, j \in 0..(N + 1) :
              WfCf([cf EXCEPT !.addrs = S, !.jump = j], n)
         /\ WfCf([cf EXCEPT !.type = "unreachable", !.cont = Null], n)
BY DEF WfCf, CfFields, CfType, Null

(* What the loop leaves behind when it changes neither extent nor code. *)
LEMMA ResolveKept ==
  ASSUME Inv, phase = "cf",
         \/ NextCf(cur) /\ req' = req
         \/ /\ phase' = "split" /\ pos' = pos /\ cur' = cur /\ cfi' = cfi
            /\ req'.bb \in 1..Len(bbs) /\ req'.addr \in Slots /\ req'.addr <= pos
            /\ req'.back = "cf",
         SameExtent(bbs, bbs'),
         needs' \subseteq Slots,
         UNCHANGED <<prog, ptr, entry, todo, ijumps, found>>
  PROVE  Inv' /\ (CodePartition => CodePartition')
<1>1. /\ WfBlocks(bbs) /\ IsSeq(bbs) /\ Len(bbs) \in Nat
      /\ pos \in 1..N /\ pos \in Int /\ N \in Nat /\ req.back = "cf" /\ cur \in 1..Len(bbs)
  BY NAssumption DEF Inv, Typed, Control, Lifting, WfBlocks, IsSeq, Null
<1>2. WfBlocks(bbs') /\ IsSeq(bbs') /\ Len(bbs') = Len(bbs) /\ Extends(bbs, bbs')
  BY DEF SameExtent, WfBlocks
<1>3. /\ phase' \in {"scan", "cf", "split"}
      /\ phase' = "scan" => pos' = pos + 1
      /\ phase' # "scan" => pos' = pos /\ cur' \in 1..Len(bbs)
      /\ cur' \in 0..Len(bbs)
      /\ cfi' \in Nat \ {0}
  BY <1>1 DEF NextCf, Inv, Typed, Null
<1>4. /\ req'.bb \in 0..Len(bbs) /\ req'.addr \in 0..N /\ req'.back = "cf"
      /\ phase' = "split" => req'.bb # Null /\ req'.addr \in Slots /\ req'.addr <= pos
  BY <1>1 DEF NextCf, Inv, Typed, Null, Slots
<1>5. Typed'
  BY <1>1, <1>2, <1>3, <1>4 DEF Inv, Typed, Phases
<1>6. Control'
  BY <1>1, <1>2, <1>3, <1>4 DEF Inv, Control, Lifting, Null
<1>7. Behind'
  <2>1. Horizon = pos /\ Horizon' = pos /\ Horizon \in Int
    BY <1>1, <1>3 DEF Horizon
  <2>2. \A b \in (Len(bbs) + 1)..Len(bbs') : FALSE
    BY <1>1, <1>2
  <2> QED
    BY <1>2, <1>4, <2>1, <2>2, BehindKept DEF Inv
<1>8. \A i \in Slots : Lifted(i)' <=> Lifted(i)
  BY <1>1, <1>3 DEF Lifted, IsInstr, Slots
<1>9. ASSUME CodePartition
      PROVE  CodePartition'
  BY <1>1, <1>2, <1>8, <1>9, PartitionKept DEF Extends
<1> QED
  BY <1>5, <1>6, <1>7, <1>9 DEF Inv

(* The block of an address is one of the blocks, and its slot is lifted. *)
LEMMA BlockAtLifted ==
  ASSUME Inv, NEW a, BlockAt(a) # Null
  PROVE  a \in Slots /\ ptr[a] = BlockAt(a) /\ BlockAt(a) \in 1..Len(bbs) /\ a <= Horizon
BY DEF BlockAt, Inv, Typed, Behind, Null

LEMMA LinkedSame ==
  ASSUME Inv, phase = "cf", BlockAt(CurCf.jump) # Null
  PROVE  /\ SameExtent(bbs, Linked)
         /\ \A c \in 1..Len(bbs) : Linked[c].cfs =
              CfsBut(bbs, cur, cfi, [CurCf EXCEPT !.target = BlockAt(CurCf.jump)], c)
<1> DEFINE t == BlockAt(CurCf.jump)
           cf == [bbs[cur].cfs[cfi] EXCEPT !.target = t]
           B == PutCf(bbs, cur, cfi, cf)
<1>1. /\ WfBlocks(bbs) /\ Len(bbs) \in Nat /\ cur \in 1..Len(bbs) /\ DOMAIN bbs = 1..Len(bbs)
      /\ t \in 1..Len(bbs) /\ t \in 0..Len(bbs)
  BY BlockAtLifted DEF Inv, Typed, Control, Lifting, WfBlocks, IsSeq, Null
<1>2. cfi \in DOMAIN bbs[cur].cfs => WfCf(bbs[cur].cfs[cfi], Len(bbs))
  BY <1>1 DEF WfBlocks, WfBlock, WfCfs
<1> HIDE DEF t
<1>3. cfi \in DOMAIN bbs[cur].cfs => WfCf(cf, Len(bbs))
  BY <1>1, <1>2, CfFieldsWf
<1>4. SameExtent(bbs, B)
  <2> HIDE DEF cf
  <2> QED
    BY <1>1, <1>3, PutCfSame
<1>5. \A c \in 1..Len(bbs) : B[c].cfs = CfsBut(bbs, cur, cfi, cf, c)
  <2> HIDE DEF cf
  <2> QED
    BY <1>1, <1>3, PutCfCfs
<1>6. SameExtent(B, AddEdge(B, cur, t))
  <2> HIDE DEF B
  <2> QED
    BY <1>1, <1>4, AddEdgeSame DEF SameExtent
<1>7. \A c \in 1..Len(bbs) : AddEdge(B, cur, t)[c].cfs = B[c].cfs
  <2>1. WfBlocks(B) /\ Len(B) = Len(bbs)
    BY <1>4 DEF SameExtent
  <2> HIDE DEF B
  <2> QED
    BY <1>1, <2>1, AddEdgeSame
<1>8. Linked = AddEdge(B, cur, t)
  <2>1. [bbs EXCEPT ![cur].cfs[cfi].target = t] = B
    BY DEF PutCf, Put, WithCfs
  <2> HIDE DEF B
  <2> QED
    BY <2>1 DEF Linked, t
<1>9. \A c \in 1..Len(bbs) : Linked[c].cfs = CfsBut(bbs, cur, cfi, cf, c)
  <2> HIDE DEF B, cf
  <2> QED
    BY <1>5, <1>7, <1>8
<1> HIDE DEF B
<1>10. SameExtent(bbs, Linked)
  <2> HIDE DEF cf
  <2> QED
    BY <1>1, <1>4, <1>6, <1>8, ExtendsTransitive DEF SameExtent
<1> QED
  BY <1>9, <1>10 DEF t, CurCf

LEMMA ResolveInv ==
  ASSUME Inv, Resolve
  PROVE  Inv' /\ (CodePartition => CodePartition')
<1>1. /\ WfBlocks(bbs) /\ Len(bbs) \in Nat /\ phase = "cf"
      /\ cur \in 1..Len(bbs) /\ pos \in Slots /\ pos \in Int /\ Horizon = pos
      /\ needs \subseteq Slots
  BY NAssumption
  DEF Inv, Typed, Control, Lifting, WfBlocks, IsSeq, Null, Slots, Horizon,
      Resolve, ResolveReturn, ResolveUnknown, ResolveLink, ResolveSplit
<1>2. Continuations \subseteq Slots /\ TableEntries \subseteq Slots
  BY DEF Continuations, TableEntries
<1>3. CASE ResolveReturn
  <2>1. SameExtent(bbs, bbs')
    BY <1>1, <1>3, ExtendsReflexive DEF SameExtent, ResolveReturn
  <2> QED
    BY <1>1, <1>3, <2>1, ResolveKept DEF ResolveReturn
<1>4. CASE ResolveUnknown
  <2>1. SameExtent(bbs, bbs')
    <3>1. CASE TableEntries = {}
      BY <1>1, <1>4, <3>1, ExtendsReflexive DEF SameExtent, ResolveUnknown
    <3>2. CASE TableEntries # {}
      <4> DEFINE cf == [bbs[cur].cfs[cfi] EXCEPT !.addrs = TableEntries, !.jump = prog[pos].t]
      <4>1. prog[pos].t \in 0..(N + 1)
        <5>1. prog[pos] \in Instr
          BY <1>1, InstrAssumption DEF Inv, Typed
        <5> QED
          BY <5>1, NAssumption DEF Instr, Targets
      <4>2. cfi \in DOMAIN bbs[cur].cfs => WfCf(bbs[cur].cfs[cfi], Len(bbs))
        BY <1>1 DEF WfBlocks, WfBlock, WfCfs
      <4>3. cfi \in DOMAIN bbs[cur].cfs => WfCf(cf, Len(bbs))
        BY <1>1, <1>2, <4>1, <4>2, CfFieldsWf
      <4>4. bbs' = PutCf(bbs, cur, cfi, cf)
        BY <1>4, <3>2 DEF ResolveUnknown, PutCf, Put, WithCfs
      <4> HIDE DEF cf
      <4> QED
        BY <1>1, <4>3, <4>4, PutCfSame
    <3> QED
      BY <3>1, <3>2
  <2>2. needs' \subseteq Slots
    BY <1>1, <1>2, <1>4 DEF ResolveUnknown
  <2> QED
    BY <1>1, <1>4, <2>1, <2>2, ResolveKept DEF ResolveUnknown
<1>5. CASE ResolveLink
  <2>1. SameExtent(bbs, bbs') /\ needs' \subseteq Slots
    BY <1>1, <1>2, <1>5, LinkedSame DEF ResolveLink
  <2> QED
    BY <1>1, <1>5, <2>1, ResolveKept DEF ResolveLink
<1>6. CASE ResolveSplit
  <2>1. SameExtent(bbs, bbs') /\ needs' \subseteq Slots
    BY <1>1, <1>2, <1>6, LinkedSame DEF ResolveSplit
  <2>2. /\ req'.bb \in 1..Len(bbs) /\ req'.addr \in Slots /\ req'.addr <= pos
        /\ req'.back = "cf"
    BY <1>1, <1>6, BlockAtLifted DEF ResolveSplit
  <2> QED
    BY <1>1, <1>6, <2>1, <2>2, ResolveKept DEF ResolveSplit
<1> QED
  BY <1>3, <1>4, <1>5, <1>6 DEF Resolve
-----------------------------------------------------------------------------
(* Minima and maxima.                                                      *)

(* The order of the natural numbers is well-founded. *)
LEMMA NatMin ==
  ASSUME NEW S \in SUBSET Nat, S # {}
  PROVE  \E x \in S : \A y \in S : x <= y
<1>1. PICK x \in S : \A y \in S : <<y, x>> \notin Orders!OpToRel(<, Nat)
  BY Orders!WFMin, Orders!NatLessThanWellFounded, Zenon
<1>2. \A y \in S : ~(y < x)
  BY <1>1, Zenon DEF Orders!OpToRel
<1> QED
  BY <1>2

(* The least distance from the bound is that of the greatest element. *)
LEMMA NatMax ==
  ASSUME NEW h \in Nat, NEW S \in SUBSET (0..h), S # {}
  PROVE  \E x \in S : \A y \in S : x >= y
<1> DEFINE T == {h - x : x \in S}
<1>1. T \in SUBSET Nat /\ T # {}
  <2>1. \A x \in S : h - x \in Nat
    OBVIOUS
  <2> QED
    BY <2>1
<1>2. PICK y \in T : \A z \in T : y <= z
  <2> HIDE DEF T
  <2> QED
    BY <1>1, NatMin
<1>3. PICK x \in S : y = h - x
  OBVIOUS
<1>4. ASSUME NEW z \in S
      PROVE  x >= z
  <2>1. h - z \in T
    OBVIOUS
  <2>2. h - x <= h - z
    BY <1>2, <1>3, <2>1
  <2>3. z \in Int /\ x \in Int /\ h \in Int
    OBVIOUS
  <2> HIDE DEF T
  <2> QED
    BY <2>2, <2>3
<1> QED
  BY <1>4

LEMMA MaxIn ==
  ASSUME NEW h \in Nat, NEW S \in SUBSET (0..h), S # {}
  PROVE  Max(S) \in S
BY NatMax DEF Max

LEMMA LeastIn ==
  ASSUME NEW S, S \subseteq Nat \X Nat, S # {}
  PROVE  Least(S) \in S
<1> DEFINE A == {m[1] : m \in S}
<1>1. A \in SUBSET Nat /\ A # {}
  OBVIOUS
<1>2. PICK a \in A : \A x \in A : a <= x
  <2> HIDE DEF A
  <2> QED
    BY <1>1, NatMin
<1> DEFINE C == {m[2] : m \in {m \in S : m[1] = a}}
<1>3. C \in SUBSET Nat /\ C # {}
  OBVIOUS
<1>4. PICK c \in C : \A x \in C : c <= x
  <2> HIDE DEF C
  <2> QED
    BY <1>3, NatMin
<1>5. PICK m \in S : m[1] = a /\ m[2] = c
  OBVIOUS
<1>6. ASSUME NEW o \in S
      PROVE  m[1] < o[1] \/ (m[1] = o[1] /\ m[2] <= o[2])
  <2>1. m[1] <= o[1] /\ m[1] \in Nat /\ o[1] \in Nat
    BY <1>1, <1>2, <1>5
  <2>2. o[1] = m[1] => m[2] <= o[2]
    BY <1>4, <1>5
  <2> QED
    BY <2>1, <2>2
<1> QED
  BY <1>6 DEF Least

-----------------------------------------------------------------------------
(* Lifter::postprocess.                                                    *)

(* C is B with more blocks, edges and flags, and with operations replaced. *)
Grows(B, C) ==
  /\ WfBlocks(C)
  /\ Extends(B, C)
  /\ \A b \in 1..Len(B) : DOMAIN C[b].cfs = DOMAIN B[b].cfs

LEMMA GrowsReflexive ==
  ASSUME NEW B, WfBlocks(B)
  PROVE  Grows(B, B)
BY ExtendsReflexive DEF Grows

LEMMA GrowsTransitive ==
  ASSUME NEW B, NEW C, NEW D, WfBlocks(B), Grows(B, C), Grows(C, D)
  PROVE  Grows(B, D)
<1>1. Len(B) \in Nat /\ Len(C) \in Nat /\ Len(B) <= Len(C)
  BY DEF Grows, WfBlocks, IsSeq, Extends
<1>2. Extends(B, D)
  BY ExtendsTransitive DEF Grows
<1>3. ASSUME NEW b \in 1..Len(B)
      PROVE  DOMAIN D[b].cfs = DOMAIN B[b].cfs
  BY <1>1 DEF Grows
<1> QED
  BY <1>2, <1>3 DEF Grows

LEMMA PutCfGrows ==
  ASSUME NEW B, WfBlocks(B), NEW b \in 1..Len(B), NEW k, NEW cf,
         k \in DOMAIN B[b].cfs => WfCf(cf, Len(B))
  PROVE  Grows(B, PutCf(B, b, k, cf))
<1>1. SameExtent(B, PutCf(B, b, k, cf))
  BY PutCfSame
<1>2. WfBlock(B[b], Len(B)) /\ DOMAIN B = 1..Len(B)
  BY DEF WfBlocks, IsSeq
<1>3. ASSUME NEW c \in 1..Len(B)
      PROVE  DOMAIN PutCf(B, b, k, cf)[c].cfs = DOMAIN B[c].cfs
  <2>1. CASE c = b
    BY <1>2, <2>1 DEF PutCf, Put, WithCfs, WfBlock, BlockFields
  <2>2. CASE c # b
    BY <1>2, <2>2 DEF PutCf, Put
  <2> QED
    BY <2>1, <2>2
<1> QED
  BY <1>1, <1>3 DEF Grows, SameExtent

LEMMA AddEdgeGrows ==
  ASSUME NEW B, WfBlocks(B), NEW b \in 1..Len(B), NEW t \in 1..Len(B)
  PROVE  Grows(B, AddEdge(B, b, t)) /\ Grows(B, AddEdgeIfAbsent(B, b, t))
BY AddEdgeSame, AddEdgeIfAbsentSame DEF Grows, SameExtent

(* A flag more. *)
PutFlag(B, b, F) == Put(B, b, WithFlags(B[b], B[b].flags \cup F))

LEMMA PutFlagGrows ==
  ASSUME NEW B, WfBlocks(B), NEW b \in 1..Len(B), NEW F \in SUBSET Flags
  PROVE  Grows(B, PutFlag(B, b, F)) /\ Len(PutFlag(B, b, F)) = Len(B)
<1> DEFINE x == WithFlags(B[b], B[b].flags \cup F)
<1>1. WfBlock(B[b], Len(B))
  BY DEF WfBlocks
<1>2. B[b].flags \cup F \in SUBSET Flags
  BY <1>1 DEF WfBlock
<1>3. WfBlock(x, Len(B)) /\ x.cfs = B[b].cfs
      /\ x.start = B[b].start /\ x.end = B[b].end /\ x.code = B[b].code
  BY <1>1, <1>2, FieldsWf, FieldsSame
<1>4. PutFlag(B, b, F) = Put(B, b, x)
  BY DEF PutFlag
<1> HIDE DEF x
<1>5. SameExtent(B, Put(B, b, x))
  BY <1>3, PutSame
<1>6. \A c \in 1..Len(B) : Put(B, b, x)[c].cfs = B[c].cfs
  BY <1>3, PutWf
<1> QED
  BY <1>4, <1>5, <1>6 DEF Grows, SameExtent

LEMMA TrapBlockWf ==
  ASSUME NEW a \in 0..N, NEW n \in Nat
  PROVE  /\ WfBlock(TrapBlock(a), n) /\ TrapBlock(a).code = {}
         /\ WfBlock([TrapBlock(a) EXCEPT !.end = 0], n) /\ [TrapBlock(a) EXCEPT !.end = 0].code = {}
<1>1. WfBlock(EmptyBlock(a), n) /\ EmptyBlock(a).code = {} /\ 0 \in 0..N
  BY EmptyBlockWf, NAssumption DEF EmptyBlock
<1>2. WfCfs(<<Cf("unreachable", 0, 0, Null)>>, n)
  <2>1. WfCf(Cf("unreachable", 0, 0, Null), n)
    BY CfWf, NAssumption DEF CfType, Null
  <2> QED
    BY <2>1, SingleIsSeq DEF WfCfs
<1>3. DOMAIN EmptyBag = {}
  BY BagDomains
<1> HIDE DEF Cf
<1> QED
  BY <1>1, <1>2, <1>3, NAssumption DEF WfBlock, TrapBlock, EmptyBlock, BlockFields

(* A block without code more. *)
LEMMA AppendGrows ==
  ASSUME NEW B, WfBlocks(B), NEW x, WfBlock(x, Len(B) + 1), x.code = {}
  PROVE  Grows(B, Append(B, x)) /\ Len(Append(B, x)) = Len(B) + 1
<1>1. IsSeq(B) /\ Len(B) \in Nat
  BY DEF WfBlocks, IsSeq
<1>2. WfBlocks(Append(B, x)) /\ Len(Append(B, x)) = Len(B) + 1
  BY AppendBlockWf
<1>3. /\ \A b \in 1..Len(B) : Append(B, x)[b] = B[b]
      /\ Append(B, x)[Len(B) + 1] = x
  BY <1>1, AppendIsSeq
<1>4. \A b \in (Len(B) + 1)..Len(Append(B, x)) : b = Len(B) + 1
  BY <1>1, <1>2
<1> QED
  BY <1>1, <1>2, <1>3, <1>4 DEF Grows, Extends

(* The step of the loop that follows the continuation of a call. *)
LEMMA WithContGrows ==
  ASSUME NEW B, WfBlocks(B), NEW m, m[1] \in 1..Len(B), NEW c \in 1..Len(B)
  PROVE  Grows(B, WithCont(B, m, c)) /\ Len(WithCont(B, m, c)) = Len(B)
<1> DEFINE b == m[1]
           cf == [B[b].cfs[m[2]] EXCEPT !.cont = c]
           C == PutCf(B, b, m[2], cf)
           D == AddEdgeIfAbsent(C, b, c)
<1>1. Len(B) \in Nat /\ c \in 0..Len(B) /\ b \in 1..Len(B)
  BY DEF WfBlocks, IsSeq
<1>2. m[2] \in DOMAIN B[b].cfs => WfCf(cf, Len(B))
  <2>1. m[2] \in DOMAIN B[b].cfs => WfCf(B[b].cfs[m[2]], Len(B))
    BY <1>1 DEF WfBlocks, WfBlock, WfCfs
  <2> QED
    BY <1>1, <2>1, CfFieldsWf
<1>3. C = [B EXCEPT ![m[1]].cfs[m[2]].cont = c]
  BY DEF PutCf, Put, WithCfs
<1> HIDE DEF cf
<1>4. Grows(B, C) /\ WfBlocks(C) /\ Len(C) = Len(B)
  BY <1>1, <1>2, PutCfGrows, PutCfSame DEF SameExtent
<1>5. WithCont(B, m, c) = PutFlag(D, c, {"call_cont_block"})
  <2>1. WithCont(B, m, c) = [D EXCEPT ![c].flags = @ \cup {"call_cont_block"}]
    BY <1>3 DEF WithCont
  <2> QED
    BY <2>1 DEF PutFlag, Put, WithFlags
<1> HIDE DEF C
<1>6. Grows(C, D) /\ WfBlocks(D) /\ Len(D) = Len(C)
  BY <1>1, <1>4, AddEdgeGrows, AddEdgeIfAbsentSame DEF SameExtent
<1> HIDE DEF D
<1>7. Grows(D, PutFlag(D, c, {"call_cont_block"})) /\ Len(PutFlag(D, c, {"call_cont_block"})) = Len(D)
  BY <1>1, <1>4, <1>6, PutFlagGrows DEF Flags
<1> QED
  BY <1>4, <1>5, <1>6, <1>7, GrowsTransitive
(* An operation that gets its target, and the edge with it. *)
LinkTo(B, m, t) == PutCf(B, m[1], m[2], [B[m[1]].cfs[m[2]] EXCEPT !.target = t])

LEMMA LinkToGrows ==
  ASSUME NEW B, WfBlocks(B), NEW m, m[1] \in 1..Len(B), NEW t \in 1..Len(B)
  PROVE  /\ Grows(B, LinkTo(B, m, t)) /\ Len(LinkTo(B, m, t)) = Len(B)
         /\ Grows(B, AddEdge(LinkTo(B, m, t), m[1], t))
         /\ Grows(B, AddEdgeIfAbsent(LinkTo(B, m, t), m[1], t))
         /\ Len(AddEdgeIfAbsent(LinkTo(B, m, t), m[1], t)) = Len(B)
<1> DEFINE cf == [B[m[1]].cfs[m[2]] EXCEPT !.target = t]
<1>1. Len(B) \in Nat /\ t \in 0..Len(B)
  BY DEF WfBlocks, IsSeq
<1>2. m[2] \in DOMAIN B[m[1]].cfs => WfCf(cf, Len(B))
  <2>1. m[2] \in DOMAIN B[m[1]].cfs => WfCf(B[m[1]].cfs[m[2]], Len(B))
    BY DEF WfBlocks, WfBlock, WfCfs
  <2> QED
    BY <1>1, <2>1, CfFieldsWf
<1>3. LinkTo(B, m, t) = PutCf(B, m[1], m[2], cf)
  BY DEF LinkTo
<1> HIDE DEF cf
<1>4. Grows(B, LinkTo(B, m, t)) /\ WfBlocks(LinkTo(B, m, t)) /\ Len(LinkTo(B, m, t)) = Len(B)
  BY <1>2, <1>3, PutCfGrows, PutCfSame DEF SameExtent
<1>5. \A C : WfBlocks(C) /\ Len(C) = Len(B) =>
             /\ Grows(C, AddEdge(C, m[1], t)) /\ Grows(C, AddEdgeIfAbsent(C, m[1], t))
             /\ Len(AddEdgeIfAbsent(C, m[1], t)) = Len(C)
  BY AddEdgeGrows, AddEdgeIfAbsentSame DEF SameExtent
<1> QED
  BY <1>4, <1>5, GrowsTransitive

LEMMA PostTargetGrows ==
  ASSUME NEW B, WfBlocks(B), NEW p \in [Slots -> 0..Len(B)], NEW m, m[1] \in 1..Len(B),
         NEW cf, cf.target \in 0..Len(B)
  PROVE  Grows(B, PostTarget(B, p, m, cf))
<1> DEFINE t == IF cf.jump \in Slots THEN p[cf.jump] ELSE Null
           b == m[1]
<1>1. Len(B) \in Nat /\ t \in 0..Len(B) /\ {"call_target"} \in SUBSET Flags
  BY DEF WfBlocks, IsSeq, Null, Flags
<1>2. CASE cf.type \in {"ijump", "icall"}
  BY <1>2, GrowsReflexive DEF PostTarget
<1>3. CASE cf.type \notin {"ijump", "icall"} /\ cf.target # Null
  <2>1. CASE cf.type = "call"
    <3>1. PostTarget(B, p, m, cf) = PutFlag(B, cf.target, {"call_target"})
      BY <1>3, <2>1 DEF PostTarget, PutFlag, Put, WithFlags
    <3>2. cf.target \in 1..Len(B)
      BY <1>1, <1>3 DEF Null
    <3> QED
      BY <1>1, <3>1, <3>2, PutFlagGrows
  <2>2. CASE cf.type # "call"
    BY <1>3, <2>2, GrowsReflexive DEF PostTarget
  <2> QED
    BY <2>1, <2>2
<1>4. CASE cf.type \notin {"ijump", "icall"} /\ cf.target = Null /\ t # Null
  <2>1. t \in 1..Len(B)
    BY <1>1, <1>4 DEF Null
  <2> DEFINE L == AddEdgeIfAbsent(LinkTo(B, m, t), b, t)
  <2>2. LinkTo(B, m, t) = [B EXCEPT ![m[1]].cfs[m[2]].target = t]
    BY DEF LinkTo, PutCf, Put, WithCfs
  <2>3. PostTarget(B, p, m, cf) = IF cf.type = "call" THEN PutFlag(L, t, {"call_target"}) ELSE L
    BY <1>4, <2>2 DEF PostTarget, PutFlag, Put, WithFlags
  <2>4. Grows(B, L) /\ WfBlocks(L) /\ Len(L) = Len(B)
    BY <2>1, LinkToGrows DEF Grows
  <2> HIDE DEF L, t
  <2>5. Grows(L, PutFlag(L, t, {"call_target"}))
    BY <1>1, <2>1, <2>4, PutFlagGrows
  <2> QED
    BY <2>3, <2>4, <2>5, GrowsTransitive
<1>5. CASE cf.type = "syscall" /\ cf.target = Null /\ t = Null
  <2> DEFINE n == Len(B) + 1
             x == [TrapBlock(0) EXCEPT !.end = 0]
             A == Append(B, x)
             C == LinkTo(A, m, n)
  <2>1. WfBlock(x, n) /\ x.code = {}
    BY <1>1, TrapBlockWf, NAssumption
  <2>2. Grows(B, A) /\ WfBlocks(A) /\ Len(A) = n
    <3> HIDE DEF x
    <3> QED
      BY <2>1, AppendGrows DEF Grows
  <2>3. n \in 1..n /\ m[1] \in 1..n
    BY <1>1
  <2>4. C = [A EXCEPT ![m[1]].cfs[m[2]].target = n]
    BY DEF LinkTo, PutCf, Put, WithCfs
  <2>5. PostTarget(B, p, m, cf) = AddEdge(C, m[1], n)
    BY <1>5, <2>4 DEF PostTarget
  <2> HIDE DEF A
  <2>6. Grows(A, AddEdge(C, m[1], n))
    BY <2>2, <2>3, LinkToGrows
  <2> QED
    BY <2>2, <2>5, <2>6, GrowsTransitive
<1>6. CASE cf.type \notin {"ijump", "icall", "syscall"} /\ cf.target = Null /\ t = Null
  <2> DEFINE k == m[2]
             c == [B[b].cfs[k] EXCEPT !.type = "unreachable", !.cont = Null]
  <2>1. k \in DOMAIN B[b].cfs => WfCf(c, Len(B))
    <3>1. k \in DOMAIN B[b].cfs => WfCf(B[b].cfs[k], Len(B))
      BY DEF WfBlocks, WfBlock, WfCfs
    <3> QED
      BY <1>1, <3>1, CfFieldsWf
  <2>2. PostTarget(B, p, m, cf) = PutCf(B, b, k, c)
    BY <1>6 DEF PostTarget, PutCf, Put, WithCfs
  <2> HIDE DEF c
  <2> QED
    BY <2>1, <2>2, PutCfGrows
<1> QED
  BY <1>2, <1>3, <1>4, <1>5, <1>6

(* What the phases behind the scan leave alone. *)
LEMMA LateKept ==
  ASSUME Inv, phase \in {"post", "ijumps", "register"},
         phase' \in {"post", "ijumps", "register", "split", "done", "crashed"},
         WfBlocks(bbs'), Extends(bbs, bbs'),
         ptr' \in [Slots -> 0..Len(bbs')],
         entry' \in 1..Len(bbs'),
         todo' \subseteq todo,
         phase' = "post" => \A m \in todo' : m[2] \in DOMAIN bbs'[m[1]].cfs,
         ijumps' \subseteq Slots,
         found' \subseteq 0..(N + 1),
         phase' = "split" => req'.bb \in 1..Len(bbs') /\ req'.addr \in 0..N /\ req'.back = "register",
         phase' # "split" => req' = req,
         UNCHANGED <<prog, pos, cur, cfi, needs>>
  PROVE  Inv' /\ (CodePartition => CodePartition')
<1>1. /\ WfBlocks(bbs) /\ IsSeq(bbs) /\ Len(bbs) \in Nat /\ N \in Nat /\ pos = N + 1
      /\ IsSeq(bbs') /\ Len(bbs') \in Nat /\ Len(bbs) <= Len(bbs')
  BY NAssumption DEF Inv, Typed, Control, Lifting, WfBlocks, IsSeq, Extends
<1>2. /\ prog' \in [Slots -> Instrs] /\ phase' \in Phases /\ pos' \in 1..(N + 1)
      /\ cur' \in 0..Len(bbs') /\ cfi' \in Nat \ {0} /\ needs' \subseteq Slots
      /\ req'.bb \in 0..Len(bbs') /\ req'.addr \in 0..N /\ req'.back \in {"cf", "register"}
  <2>1. /\ prog \in [Slots -> Instrs] /\ pos \in 1..(N + 1) /\ cfi \in Nat \ {0}
        /\ cur \in 0..Len(bbs) /\ needs \subseteq Slots
        /\ req.bb \in 0..Len(bbs) /\ req.addr \in 0..N /\ req.back \in {"cf", "register"}
    BY DEF Inv, Typed
  <2>2. 0..Len(bbs) \subseteq 0..Len(bbs') /\ 1..Len(bbs') \subseteq 0..Len(bbs') /\ Slots \subseteq 0..N
    BY <1>1 DEF Slots
  <2>3. req'.bb \in 0..Len(bbs') /\ req'.addr \in 0..N /\ req'.back \in {"cf", "register"}
    BY <2>1, <2>2
  <2> QED
    BY <2>1, <2>2, <2>3 DEF Phases
<1>3. todo' \subseteq (1..Len(bbs')) \X (Nat \ {0})
  <2>1. 1..Len(bbs) \subseteq 1..Len(bbs')
    BY <1>1
  <2>2. todo \subseteq (1..Len(bbs)) \X (Nat \ {0})
    BY DEF Inv, Typed
  <2> QED
    BY <2>1, <2>2
<1>4. Typed'
  BY <1>1, <1>2, <1>3 DEF Typed
<1>5. Control'
  BY <1>1, <1>2 DEF Inv, Control, Lifting, Null, Dummy
<1>6. Behind'
  <2>1. Horizon = N + 1 /\ Horizon' = N + 1
    BY <1>1 DEF Horizon
  <2>2. \A b \in (Len(bbs) + 1)..Len(bbs') : bbs'[b].start <= N + 1 /\ bbs'[b].end <= N + 1
    BY <1>1 DEF WfBlocks, WfBlock
  <2>3. \A a \in Slots : a <= N + 1
    BY <1>1 DEF Slots
  <2> QED
    BY <1>1, <2>1, <2>2, <2>3, BehindKept DEF Inv
<1>7. \A i \in Slots : Lifted(i)' <=> Lifted(i)
  BY <1>1 DEF Lifted, IsInstr, Slots
<1>8. ASSUME CodePartition
      PROVE  CodePartition'
  BY <1>1, <1>7, <1>8, PartitionKept DEF Extends
<1> QED
  BY <1>4, <1>5, <1>6, <1>8 DEF Inv

LEMMA PostInv ==
  ASSUME Inv, Post
  PROVE  Inv' /\ (CodePartition => CodePartition')
<1> DEFINE m  == Least(todo)
           cf == bbs[m[1]].cfs[m[2]]
           a  == cf.instr + 1
<1>1. /\ WfBlocks(bbs) /\ Len(bbs) \in Nat /\ phase = "post" /\ todo # {}
      /\ todo \subseteq (1..Len(bbs)) \X (Nat \ {0})
      /\ \A o \in todo : o[2] \in DOMAIN bbs[o[1]].cfs
      /\ ptr \in [Slots -> 0..Len(bbs)] /\ ijumps \subseteq Slots /\ found \subseteq 0..(N + 1)
      /\ entry \in 1..Len(bbs)
  BY DEF Inv, Typed, Control, Lifting, WfBlocks, IsSeq, Post, Null
<1>2. m \in todo /\ m[1] \in 1..Len(bbs)
  <2>1. todo \subseteq Nat \X Nat
    BY <1>1
  <2>2. Least(todo) \in todo
    BY <1>1, <2>1, LeastIn
  <2> QED
    BY <1>1, <2>2
<1>3. WfCf(cf, Len(bbs))
  <2>1. WfBlock(bbs[m[1]], Len(bbs)) /\ m[2] \in DOMAIN bbs[m[1]].cfs
    BY <1>1, <1>2 DEF WfBlocks
  <2> QED
    BY <2>1 DEF WfBlock, WfCfs
<1>4. /\ PostPass(m, cf) \/ PostJump(m, cf) \/ PostCall(m, cf) \/ PostCallTrap(m, cf) \/ PostCrash(m, cf)
      /\ UNCHANGED <<prog, pos, cur, cfi, req, needs, entry, found>>
  BY Zenon DEF Post
<1>5. cf.target \in 0..Len(bbs) /\ Collect(cf) \subseteq Slots
  BY <1>3 DEF WfCf, Collect
<1> HIDE DEF m, cf
<1>6. /\ Grows(bbs, bbs') /\ ptr' \in [Slots -> 0..Len(bbs')]
      /\ ijumps' \subseteq Slots /\ todo' \subseteq todo /\ phase' \in {"post", "crashed"}
  <2>1. CASE PostPass(m, cf)
    BY <1>1, <2>1, GrowsReflexive DEF PostPass, PostGoOn
  <2>2. CASE PostJump(m, cf)
    <3>1. Grows(bbs, bbs')
      BY <1>1, <1>2, <1>5, <2>2, PostTargetGrows DEF PostJump
    <3>2. Len(bbs') \in Nat /\ Len(bbs) <= Len(bbs')
      BY <3>1 DEF Grows, WfBlocks, IsSeq, Extends
    <3> QED
      BY <1>1, <1>5, <2>2, <3>1, <3>2 DEF PostJump, PostGoOn
  <2>3. CASE PostCall(m, cf)
    <3> DEFINE B == WithCont(bbs, m, ptr[a])
    <3>1. a \in Slots /\ ptr[a] \in 1..Len(bbs)
      BY <2>3, BlockAtLifted DEF PostCall
    <3>2. Grows(bbs, B) /\ Len(B) = Len(bbs) /\ WfBlocks(B)
      BY <1>1, <1>2, <3>1, WithContGrows DEF Grows
    <3>3. bbs' = PostTarget(B, ptr, m, cf)
      BY <2>3 DEF PostCall
    <3> HIDE DEF B
    <3>4. Grows(B, bbs')
      BY <1>1, <1>2, <1>5, <3>2, <3>3, PostTargetGrows
    <3>5. Grows(bbs, bbs')
      BY <1>1, <3>2, <3>4, GrowsTransitive
    <3>6. Len(bbs') \in Nat /\ Len(bbs) <= Len(bbs')
      BY <3>5 DEF Grows, WfBlocks, IsSeq, Extends
    <3> QED
      BY <1>1, <1>5, <2>3, <3>5, <3>6 DEF PostCall, PostGoOn
  <2>4. CASE PostCallTrap(m, cf)
    <3> DEFINE n == Len(bbs) + 1
               A == Append(bbs, TrapBlock(a))
               B == WithCont(A, m, n)
    <3>1. /\ a \in Slots /\ ptr' = [ptr EXCEPT ![a] = n] /\ bbs' = PostTarget(B, ptr', m, cf)
          /\ ijumps' = ijumps \cup Collect(cf) /\ PostGoOn(m)
      BY <2>4 DEF PostCallTrap
    <3>2. Grows(bbs, A) /\ WfBlocks(A) /\ Len(A) = n
      <4>1. WfBlock(TrapBlock(a), n) /\ TrapBlock(a).code = {}
        <5>1. a \in 0..N /\ n \in Nat
          BY <1>1, <3>1 DEF Slots
        <5> QED
          BY <5>1, TrapBlockWf
      <4> QED
        BY <1>1, <4>1, AppendGrows DEF Grows
    <3>3. n \in 1..n /\ m[1] \in 1..n /\ cf.target \in 0..n /\ ptr' \in [Slots -> 0..n]
      BY <1>1, <1>2, <1>5, <3>1
    <3> HIDE DEF n, A
    <3>4. Grows(A, B) /\ Len(B) = n /\ WfBlocks(B)
      BY <3>2, <3>3, WithContGrows DEF Grows
    <3> HIDE DEF B
    <3>5. Grows(B, bbs')
      BY <3>1, <3>3, <3>4, PostTargetGrows
    <3>6. Grows(bbs, bbs')
      BY <1>1, <3>2, <3>4, <3>5, GrowsTransitive
    <3>7. Len(bbs') \in Nat /\ n <= Len(bbs') /\ n \in Nat
      BY <1>1, <3>4, <3>5 DEF Grows, WfBlocks, IsSeq, Extends, n
    <3>8. 0..n \subseteq 0..Len(bbs')
      BY <3>7
    <3>9. ptr' \in [Slots -> 0..Len(bbs')]
      BY <3>3, <3>8
    <3>10. ijumps' \subseteq Slots /\ todo' \subseteq todo /\ phase' = "post"
      BY <1>1, <1>5, <3>1 DEF PostGoOn
    <3> QED
      BY <3>6, <3>9, <3>10
  <2>5. CASE PostCrash(m, cf)
    BY <1>1, <2>5, GrowsReflexive DEF PostCrash
  <2> QED
    BY <1>4, <2>1, <2>2, <2>3, <2>4, <2>5
<1>7. \A o \in todo' : o[2] \in DOMAIN bbs'[o[1]].cfs
  <2>1. \A o \in todo' : o[1] \in 1..Len(bbs) /\ o[2] \in DOMAIN bbs[o[1]].cfs
    BY <1>1, <1>6
  <2> QED
    BY <1>6, <2>1 DEF Grows
<1>8. entry' \in 1..Len(bbs')
  BY <1>1, <1>4, <1>6 DEF Grows, WfBlocks, IsSeq, Extends
<1> QED
  BY <1>1, <1>4, <1>6, <1>7, <1>8, LateKept DEF Grows

-----------------------------------------------------------------------------
(* Lifter::process_ijumps and the entry block.                             *)

LEMMA LateInv ==
  ASSUME Inv, FinishPost \/ Backtrace \/ FinishRegister \/ AddEntry \/ \E a \in 0..(N + 1) : RegisterAddr(a)
  PROVE  Inv' /\ (CodePartition => CodePartition')
<1>1. /\ WfBlocks(bbs) /\ Len(bbs) \in Nat /\ Len(bbs) >= 1
      /\ phase \in {"post", "ijumps", "register"}
      /\ ptr \in [Slots -> 0..Len(bbs)] /\ ijumps \subseteq Slots /\ found \subseteq 0..(N + 1)
      /\ entry \in 1..Len(bbs) /\ N \in Nat
      /\ phase = "post" => \A m \in todo : m[2] \in DOMAIN bbs[m[1]].cfs
  <2>1. phase \in {"post", "ijumps", "register"}
    BY DEF FinishPost, Backtrace, FinishRegister, AddEntry, RegisterAddr
  <2>2. Typed /\ Control
    BY DEF Inv
  <2>3. WfBlocks(bbs) /\ Len(bbs) \in Nat /\ Len(bbs) >= 1
    BY <2>2 DEF Typed, Control, WfBlocks, IsSeq, Dummy
  <2>4. entry \in 0..Len(bbs) /\ entry # 0
    BY <2>1, <2>2 DEF Typed, Control, Lifting, Null
  <2> QED
    BY <2>1, <2>2, <2>3, <2>4, NAssumption DEF Typed, Control
<1>2. CASE FinishPost
  BY <1>1, <1>2, LateKept, ExtendsReflexive DEF FinishPost
<1>3. CASE Backtrace
  <2>1. PICK A \in SUBSET Targets :
          found' = IF A \cup TableOf(Min(ijumps)) = {} THEN {0} ELSE A \ TableOf(Min(ijumps))
    BY <1>3, Zenon DEF Backtrace
  <2>2. found' \subseteq 0..(N + 1)
    <3>1. Targets \subseteq 0..(N + 1) /\ {0} \subseteq 0..(N + 1)
      BY <1>1 DEF Targets
    <3>2. found' = {0} \/ found' \subseteq Targets
      BY <2>1
    <3> QED
      BY <3>1, <3>2
  <2>3. ijumps' \subseteq Slots
    BY <1>1, <1>3 DEF Backtrace
  <2> QED
    BY <1>1, <1>3, <2>2, <2>3, LateKept, ExtendsReflexive DEF Backtrace
<1>4. CASE FinishRegister
  BY <1>1, <1>4, LateKept, ExtendsReflexive DEF FinishRegister
<1>5. CASE AddEntry
  <2> DEFINE n == Len(bbs) + 1
             cfs == <<Cf("jump", 0, 0, entry)>>
             x == WithCfs(EmptyBlock(0), cfs)
             A == Append(bbs, x)
  <2>1. n \in Nat /\ n \in 1..n /\ entry \in 1..n /\ entry \in 0..n
    BY <1>1
  <2>2. WfCfs(cfs, n)
    <3>1. WfCf(Cf("jump", 0, 0, entry), n)
      <4>1. "jump" \in CfType /\ 0 \in 0..N /\ 0 \in 0..(N + 1) /\ "jump" \notin {"ijump", "icall"}
        BY <1>1 DEF CfType
      <4> HIDE DEF n
      <4> QED
        BY <2>1, <4>1, CfWf
    <3> QED
      BY <3>1, SingleIsSeq DEF WfCfs
  <2>3. WfBlock(EmptyBlock(0), n) /\ EmptyBlock(0).code = {}
    BY <1>1, <2>1, EmptyBlockWf DEF EmptyBlock
  <2>4. bbs' = AddEdge(A, n, entry)
    BY <1>5 DEF AddEntry, WithCfs
  <2> HIDE DEF cfs, n
  <2>5. WfBlock(x, n) /\ x.code = {}
    <3> DEFINE e == EmptyBlock(0)
    <3>1. WfBlock(e, n) /\ e.code = {} /\ x = WithCfs(e, cfs)
      BY <2>3
    <3> HIDE DEF e, x
    <3>2. WfBlock(WithCfs(e, cfs), n) /\ WithCfs(e, cfs).code = e.code
      BY <2>2, <3>1, FieldsWf, FieldsSame
    <3> QED
      BY <3>1, <3>2
  <2> HIDE DEF x
  <2>6. Grows(bbs, A) /\ WfBlocks(A) /\ Len(A) = n
    BY <1>1, <2>5, AppendGrows DEF Grows, n
  <2> HIDE DEF A
  <2>7. Grows(A, bbs') /\ Len(bbs') = n
    BY <2>1, <2>4, <2>6, AddEdgeGrows, AddEdgeSame DEF SameExtent
  <2>8. Grows(bbs, bbs')
    BY <1>1, <2>6, <2>7, GrowsTransitive
  <2>9. entry' \in 1..Len(bbs') /\ 0..Len(bbs) \subseteq 0..Len(bbs')
    BY <1>1, <1>5, <2>1, <2>7 DEF AddEntry, n
  <2>10. ptr' \in [Slots -> 0..Len(bbs')]
    BY <1>1, <1>5, <2>9 DEF AddEntry
  <2> QED
    BY <1>1, <1>5, <2>8, <2>9, <2>10, LateKept DEF AddEntry, Grows
<1>6. CASE \E a \in 0..(N + 1) : RegisterAddr(a)
  <2>1. PICK a \in 0..(N + 1) : RegisterAddr(a)
    BY <1>6
  <2> DEFINE b == IF a = 0 THEN Dummy ELSE BlockAt(a)
  <2>2. b \in 0..Len(bbs)
    BY <1>1, BlockAtLifted DEF Dummy, Null
  <2>3. /\ phase = "register" /\ found' = found \ {a}
        /\ bbs' = (IF b = Null THEN bbs ELSE PutFlag(bbs, b, {"needs_trans_bb"}))
        /\ UNCHANGED <<prog, pos, cur, cfi, ptr, needs, entry, todo, ijumps>>
    BY <2>1 DEF RegisterAddr, PutFlag, Put, WithFlags
  <2>4. \/ phase' = "register" /\ req' = req
        \/ /\ b # Null /\ bbs[b].start # a /\ req' = [bb |-> b, addr |-> a, back |-> "register"]
           /\ phase' = "split"
    BY <2>1, <2>3 DEF RegisterAddr
  <2> HIDE DEF b
  <2>5. Grows(bbs, bbs') /\ Len(bbs') = Len(bbs)
    BY <1>1, <2>2, <2>3, GrowsReflexive, PutFlagGrows DEF Null, Flags
  <2>6. phase' = "split" => req'.bb \in 1..Len(bbs') /\ req'.addr \in 0..N /\ req'.back = "register"
    <3>1. CASE a = 0
      <4>1. b \in 1..Len(bbs') /\ a \in 0..N
        BY <1>1, <2>5, <3>1 DEF b, Dummy
      <4> QED
        BY <2>4, <4>1
    <3>2. CASE a # 0
      <4>1. b # Null => b \in 1..Len(bbs') /\ a \in 0..N
        BY <1>1, <2>5, <3>2, BlockAtLifted DEF b, Slots
      <4> QED
        BY <2>4, <4>1
    <3> QED
      BY <3>1, <3>2
  <2> QED
    BY <1>1, <2>3, <2>4, <2>5, <2>6, LateKept DEF Grows
<1> QED
  BY <1>2, <1>3, <1>4, <1>5, <1>6
-----------------------------------------------------------------------------
(* Lifter::split_basic_block.                                              *)

(* Each operation replaced by a well-formed one. *)
LEMMA MapCfsWf ==
  ASSUME NEW n, NEW cfs, WfCfs(cfs, n), NEW new,
         new = [k \in DOMAIN cfs |-> new[k]],
         \A k \in DOMAIN cfs : WfCf(new[k], n)
  PROVE  WfCfs(new, n) /\ DOMAIN new = DOMAIN cfs
<1>1. Len(cfs) \in Nat /\ DOMAIN cfs = 1..Len(cfs)
  BY DEF WfCfs, IsSeq
<1>2. new = [k \in 1..Len(cfs) |-> new[k]]
  BY <1>1
<1>3. IsSeq(new)
  BY <1>1, <1>2, FunctionIsSeq
<1>4. DOMAIN new = DOMAIN cfs
  BY <1>1, <1>2
<1> QED
  BY <1>3, <1>4 DEF WfCfs

(* What every part of a split may assume. *)
LEMMA SplitFacts ==
  ASSUME Inv, phase = "split"
  PROVE  /\ WfBlocks(bbs) /\ Len(bbs) \in Nat /\ DOMAIN bbs = 1..Len(bbs)
         /\ req.bb \in 1..Len(bbs) /\ req.addr \in 0..N
         /\ \A t \in 1..Len(bbs) :
              /\ WfBlock(bbs[t], Len(bbs) + 1) /\ WfCfs(bbs[t].cfs, Len(bbs) + 1)
              /\ \A k \in DOMAIN bbs[t].cfs : WfCf(bbs[t].cfs[k], Len(bbs) + 1)
              /\ DOMAIN bbs[t].preds \subseteq 1..(Len(bbs) + 1)
              /\ DOMAIN bbs[t].succs \subseteq 1..(Len(bbs) + 1)
         /\ N \in Nat /\ Horizon = pos /\ pos \in Int
<1>1. /\ WfBlocks(bbs) /\ Len(bbs) \in Nat /\ DOMAIN bbs = 1..Len(bbs)
      /\ req.bb \in 1..Len(bbs) /\ req.addr \in 0..N
      /\ N \in Nat /\ pos \in Int
  BY NAssumption DEF Inv, Typed, Control, WfBlocks, IsSeq, Null
<1>2. ASSUME NEW t \in 1..Len(bbs)
      PROVE  /\ WfBlock(bbs[t], Len(bbs) + 1) /\ WfCfs(bbs[t].cfs, Len(bbs) + 1)
             /\ \A k \in DOMAIN bbs[t].cfs : WfCf(bbs[t].cfs[k], Len(bbs) + 1)
             /\ DOMAIN bbs[t].preds \subseteq 1..(Len(bbs) + 1)
             /\ DOMAIN bbs[t].succs \subseteq 1..(Len(bbs) + 1)
  <2>1. WfBlock(bbs[t], Len(bbs))
    BY <1>1 DEF WfBlocks
  <2>2. WfBlock(bbs[t], Len(bbs) + 1)
    BY <1>1, <2>1, WfGrows
  <2> QED
    BY <2>2 DEF WfBlock, WfCfs
<1>3. Horizon = pos
  BY DEF Horizon
<1> QED
  BY <1>1, <1>2, <1>3

LEMMA FirstEndTyped ==
  ASSUME Inv, phase = "split"
  PROVE  FirstEnd \in 0..N /\ FirstEnd <= Horizon
<1> DEFINE b == req.bb
           S == {bbs[req.bb].start} \cup {i \in bbs[req.bb].code : i < req.addr /\ Yields(i)}
<1>1. WfBlock(bbs[b], Len(bbs) + 1) /\ b \in 1..Len(bbs) /\ N \in Nat
  BY SplitFacts
<1>2. S \in SUBSET (0..N) /\ S # {}
  BY <1>1 DEF WfBlock, Slots
<1>3. \A i \in S : i <= Horizon
  BY <1>1 DEF Inv, Behind
<1>4. Max(S) \in S
  <2> HIDE DEF S
  <2> QED
    BY <1>1, <1>2, MaxIn
<1> HIDE DEF Horizon
<1> QED
  BY <1>2, <1>3, <1>4 DEF FirstEnd

LEMMA FirstWf ==
  ASSUME Inv, phase = "split", NEW n, n = Len(bbs) + 1
  PROVE  /\ WfBlock(First(n), n)
         /\ First(n).start = bbs[req.bb].start
         /\ First(n).end = FirstEnd
         /\ First(n).code = {i \in bbs[req.bb].code : i < req.addr}
         /\ First(n).cfs = <<Cf("jump", FirstEnd, req.addr, n)>>
<1> DEFINE c == bbs[req.bb]
           code == {i \in c.code : i < req.addr}
           cfs == <<Cf("jump", FirstEnd, req.addr, n)>>
           P == FirstPreds(n)
           S == SetToBag({n})
<1>1. WfBlock(c, n) /\ n \in Nat /\ n \in 1..n /\ n \in 0..n /\ N \in Nat
  BY SplitFacts
<1>2. WfCfs(cfs, n)
  <2>1. FirstEnd \in 0..N /\ req.addr \in 0..(N + 1) /\ "jump" \in CfType
    BY <1>1, FirstEndTyped, SplitFacts DEF CfType
  <2>2. WfCf(Cf("jump", FirstEnd, req.addr, n), n)
    BY <1>1, <2>1, CfWf
  <2> QED
    BY <2>2, SingleIsSeq DEF WfCfs
<1>3. DOMAIN P \subseteq 1..n
  <2> DEFINE P0 == [p \in BagToSet(bbs[req.bb].preds) \ LostPreds(n) |-> bbs[req.bb].preds[p]]
             Q == IF SelfInto(IntoFirst) /\ BagIn(req.bb, P0) THEN BagAdd(BagRemove(P0, req.bb), n) ELSE P0
  <2>1. DOMAIN P0 \subseteq 1..n
    BY <1>1 DEF WfBlock, BagToSet
  <2> HIDE DEF P0
  <2> DEFINE P1 == BagRemove(P0, req.bb)
  <2>6. DOMAIN P1 \subseteq 1..n
    BY <2>1, BagOver
  <2> HIDE DEF P1
  <2>7. DOMAIN BagAdd(P1, n) \subseteq 1..n
    BY <1>1, <2>6, BagOver
  <2>2. DOMAIN BagAdd(BagRemove(P0, req.bb), n) \subseteq 1..n
    BY <2>7 DEF P1
  <2>3. DOMAIN Q \subseteq 1..n
    BY <2>1, <2>2
  <2>4. P = IF SelfLost(n) THEN BagRemoveAll(Q, req.bb) ELSE Q
    BY Zenon DEF FirstPreds, P0
  <2> HIDE DEF Q, P
  <2>5. DOMAIN BagRemoveAll(Q, req.bb) \subseteq 1..n
    BY <2>3, BagOver
  <2> QED
    BY <2>3, <2>4, <2>5
<1>4. DOMAIN S \subseteq 1..n
  BY <1>1, BagDomains
<1>5. code \in SUBSET Slots /\ FirstEnd \in 0..N
  BY <1>1, FirstEndTyped DEF WfBlock
<1>6. First(n) = [c EXCEPT !.code = code, !.end = FirstEnd, !.cfs = cfs, !.preds = P, !.succs = S]
  BY DEF First
<1> HIDE DEF c, code, cfs, P, S
<1>7. /\ WfBlock(First(n), n) /\ First(n).start = c.start /\ First(n).end = FirstEnd
      /\ First(n).code = code /\ First(n).cfs = cfs
  BY <1>1, <1>2, <1>3, <1>4, <1>5, <1>6 DEF WfBlock, BlockFields
<1> QED
  BY <1>7 DEF c, code, cfs

LEMMA SecondWf ==
  ASSUME Inv, phase = "split", NEW n, n = Len(bbs) + 1
  PROVE  /\ WfBlock(Second(n), n)
         /\ Second(n).start = req.addr
         /\ Second(n).end = bbs[req.bb].end
         /\ Second(n).code = {i \in bbs[req.bb].code : i >= req.addr}
         /\ Second(n).cfs = SecondCfs(n)
<1> DEFINE c == bbs[req.bb]
           code == {i \in c.code : i >= req.addr}
           cfs == SecondCfs(n)
           self == IF SelfMoved(n) THEN {n} ELSE {}
           keep == IF SelfLost(n) THEN BagRemoveAll(c.succs, req.bb) ELSE c.succs
           P == SetToBag({p \in BagToSet(c.preds) : Moved(p)} \cup self \cup {req.bb})
           S == keep (+) SetToBag(self)
<1>1. /\ WfBlock(c, n) /\ n \in Nat /\ n \in 1..n /\ n \in 0..n /\ req.addr \in 0..N
      /\ WfCfs(c.cfs, n) /\ req.bb \in 1..n
      /\ \A k \in DOMAIN c.cfs : WfCf(c.cfs[k], n)
      /\ DOMAIN c.preds \subseteq 1..n /\ DOMAIN c.succs \subseteq 1..n
  BY SplitFacts
<1>2. WfCfs(cfs, n)
  <2>1. cfs = [k \in DOMAIN c.cfs |-> cfs[k]]
    BY DEF SecondCfs
  <2>2. ASSUME NEW k \in DOMAIN c.cfs
        PROVE  WfCf(cfs[k], n)
    <3>1. WfCf([c.cfs[k] EXCEPT !.target = n], n)
      BY <1>1, CfFieldsWf
    <3>2. cfs[k] \in {c.cfs[k], [c.cfs[k] EXCEPT !.target = n]}
      BY DEF SecondCfs
    <3> QED
      BY <1>1, <3>1, <3>2
  <2> HIDE DEF cfs
  <2> QED
    BY <1>1, <2>1, <2>2, MapCfsWf
<1>3. self \subseteq 1..n
  BY <1>1
<1> HIDE DEF self
<1>4. DOMAIN P \subseteq 1..n
  <2> DEFINE T == {p \in BagToSet(c.preds) : Moved(p)} \cup self \cup {req.bb}
  <2>1. T \subseteq 1..n
    BY <1>1, <1>3 DEF BagToSet
  <2> HIDE DEF T
  <2>2. DOMAIN SetToBag(T) = T
    BY BagDomains
  <2> QED
    BY <2>1, <2>2 DEF T
<1>5. DOMAIN S \subseteq 1..n
  <2>1. DOMAIN keep \subseteq 1..n
    <3> DEFINE R == BagRemoveAll(c.succs, req.bb)
    <3>1. DOMAIN R \subseteq 1..n
      <4> HIDE DEF c
      <4> QED
        BY <1>1, BagOver
    <3> HIDE DEF R
    <3>2. keep = IF SelfLost(n) THEN R ELSE c.succs
      BY DEF R
    <3> HIDE DEF keep
    <3> QED
      BY <1>1, <3>1, <3>2
  <2> HIDE DEF keep
  <2>2. DOMAIN S = DOMAIN keep \cup DOMAIN SetToBag(self) /\ DOMAIN SetToBag(self) = self
    BY BagDomains
  <2> QED
    BY <1>3, <2>1, <2>2
<1>6. code \in SUBSET Slots /\ c.end \in 0..N
  BY <1>1 DEF WfBlock
<1>7. Second(n) = [start |-> req.addr, end |-> c.end, code |-> code, cfs |-> cfs,
                   preds |-> P, succs |-> S, flags |-> {}]
  BY DEF Second, self
<1> HIDE DEF c, code, cfs, P, S
<1>8. /\ WfBlock(Second(n), n) /\ Second(n).start = req.addr /\ Second(n).end = c.end
      /\ Second(n).code = code /\ Second(n).cfs = cfs
  BY <1>1, <1>2, <1>4, <1>5, <1>6, <1>7 DEF WfBlock, BlockFields
<1> QED
  BY <1>8 DEF c, code, cfs

LEMMA OtherWf ==
  ASSUME Inv, phase = "split", NEW n, n = Len(bbs) + 1, NEW t \in 1..Len(bbs)
  PROVE  /\ WfBlock(Other(t, n), n)
         /\ Other(t, n).start = bbs[t].start
         /\ Other(t, n).end = bbs[t].end
         /\ Other(t, n).code = bbs[t].code
         /\ Other(t, n).cfs = MovedCfs(t, n)
<1> DEFINE c == bbs[t]
           cfs == MovedCfs(t, n)
           P == IF Hits(t) = 0 THEN c.preds
                ELSE BagRemoveAll(c.preds, req.bb) (+) [x \in {n} |-> Hits(t)]
           S0 == IF t \in LostPreds(n) THEN BagRemoveAll(c.succs, req.bb) ELSE c.succs
           S == IF Moved(t) THEN BagAdd(S0, n) ELSE S0
<1>1. /\ WfBlock(c, n) /\ n \in Nat /\ n \in 1..n /\ n \in 0..n /\ WfCfs(c.cfs, n)
      /\ \A k \in DOMAIN c.cfs : WfCf(c.cfs[k], n)
      /\ DOMAIN c.preds \subseteq 1..n /\ DOMAIN c.succs \subseteq 1..n
  BY SplitFacts
<1>2. WfCfs(cfs, n)
  <2>1. cfs = [k \in DOMAIN c.cfs |-> cfs[k]]
    BY DEF MovedCfs
  <2>2. ASSUME NEW k \in DOMAIN c.cfs
        PROVE  WfCf(cfs[k], n)
    <3>1. WfCf([c.cfs[k] EXCEPT !.target = n], n) /\ WfCf([c.cfs[k] EXCEPT !.cont = n], n)
      BY <1>1, CfFieldsWf
    <3>2. cfs[k] \in {c.cfs[k], [c.cfs[k] EXCEPT !.target = n], [c.cfs[k] EXCEPT !.cont = n]}
      <4> HIDE DEF Movers
      <4> QED
        BY DEF MovedCfs, Retarget
    <3> QED
      BY <1>1, <3>1, <3>2
  <2> HIDE DEF cfs
  <2> QED
    BY <1>1, <2>1, <2>2, MapCfsWf
<1>3. DOMAIN P \subseteq 1..n
  <2> DEFINE R == BagRemoveAll(c.preds, req.bb)
             H == [x \in {n} |-> Hits(t)]
  <2>1. DOMAIN R \subseteq 1..n /\ DOMAIN H = {n}
    <3> HIDE DEF c
    <3> QED
      BY <1>1, BagOver
  <2> HIDE DEF R, H
  <2>2. DOMAIN (R (+) H) = DOMAIN R \cup DOMAIN H
    BY BagDomains
  <2>3. P = IF Hits(t) = 0 THEN c.preds ELSE R (+) H
    BY DEF R, H
  <2> HIDE DEF P
  <2> QED
    BY <1>1, <2>1, <2>2, <2>3
<1>4. DOMAIN S \subseteq 1..n
  <2>1. DOMAIN S0 \subseteq 1..n
    <3> DEFINE R == BagRemoveAll(c.succs, req.bb)
    <3>1. DOMAIN R \subseteq 1..n
      <4> HIDE DEF c
      <4> QED
        BY <1>1, BagOver
    <3> HIDE DEF R
    <3>2. S0 = IF t \in LostPreds(n) THEN R ELSE c.succs
      BY DEF R
    <3> HIDE DEF S0
    <3> QED
      BY <1>1, <3>1, <3>2
  <2> HIDE DEF S0
  <2>2. DOMAIN BagAdd(S0, n) = DOMAIN S0 \cup {n}
    <3>1. \A B, x : DOMAIN BagAdd(B, x) = DOMAIN B \cup {x}
      BY BagDomains, Zenon
    <3> QED
      BY <3>1, Zenon
  <2>3. S \in {BagAdd(S0, n), S0} /\ n \in 1..n
    BY <1>1
  <2> HIDE DEF S
  <2> QED
    BY <2>1, <2>2, <2>3
<1>5. Other(t, n) = [c EXCEPT !.preds = P, !.succs = S, !.cfs = cfs]
  BY Zenon DEF Other
<1> HIDE DEF c, cfs, P, S
<1>6. /\ WfBlock(Other(t, n), n) /\ Other(t, n).start = c.start /\ Other(t, n).end = c.end
      /\ Other(t, n).code = c.code /\ Other(t, n).cfs = cfs
  BY <1>1, <1>2, <1>3, <1>4, <1>5 DEF WfBlock, BlockFields
<1> QED
  BY <1>6 DEF c, cfs

(* Pointers to n blocks, none behind slot h. *)
PtrOver(p, n, h) == p \in [Slots -> 0..n] /\ \A a \in Slots : p[a] # Null => a <= h

LEMMA PtrOverKept ==
  ASSUME NEW n \in Nat, NEW h \in Int, NEW p, PtrOver(p, n, h), NEW b \in 0..n, NEW e \in Int, e <= h
  PROVE  /\ PtrOver([p EXCEPT ![e] = b], n, h)
         /\ \A s : PtrOver(SetEnd(p, b, s, e), n, h)
<1>1. PtrOver([p EXCEPT ![e] = b], n, h)
  BY DEF PtrOver
<1>2. ASSUME NEW s
      PROVE  PtrOver(SetEnd(p, b, s, e), n, h)
  BY SetEndTyped DEF PtrOver
<1> QED
  BY <1>1, <1>2

LEMMA SplitInv ==
  ASSUME Inv, Split
  PROVE  Inv' /\ (CodePartition => CodePartition')
<1> DEFINE n == Len(bbs) + 1
           b == req.bb
           next == IF b = cur THEN n ELSE cur
<1>1. /\ WfBlocks(bbs) /\ Len(bbs) \in Nat /\ DOMAIN bbs = 1..Len(bbs)
      /\ b \in 1..Len(bbs) /\ req.addr \in 0..N /\ phase = "split"
      /\ N \in Nat /\ Horizon = pos /\ pos \in Int /\ pos \in 1..(N + 1)
      /\ n \in Nat /\ n \in 1..n /\ b # n
      /\ ptr \in [Slots -> 0..Len(bbs)]
  BY SplitFacts DEF Split, Inv, Typed
<1>2. /\ IsSeq(bbs') /\ Len(bbs') = n
      /\ \A t \in 1..n : bbs'[t] = IF t = n THEN Second(n) ELSE IF t = b THEN First(n) ELSE Other(t, n)
  <2> DEFINE C == [t \in 1..n |-> IF t = n THEN Second(n) ELSE IF t = b THEN First(n) ELSE Other(t, n)]
  <2>1. bbs' = C
    BY DEF Split
  <2>2. C = [t \in 1..n |-> C[t]] /\ \A t \in 1..n : C[t] = IF t = n THEN Second(n) ELSE IF t = b THEN First(n) ELSE Other(t, n)
    OBVIOUS
  <2> HIDE DEF C, n
  <2>3. IsSeq(C) /\ Len(C) = n
    BY <1>1, <2>2, FunctionIsSeq
  <2> QED
    BY <2>1, <2>2, <2>3
<1>3. /\ WfBlock(First(n), n) /\ First(n).start = bbs[b].start /\ First(n).end = FirstEnd
      /\ First(n).code = {i \in bbs[b].code : i < req.addr}
  BY <1>1, FirstWf
<1>4. /\ WfBlock(Second(n), n) /\ Second(n).start = req.addr /\ Second(n).end = bbs[b].end
      /\ Second(n).code = {i \in bbs[b].code : i >= req.addr}
  BY <1>1, SecondWf
<1>5. \A t \in 1..Len(bbs) : /\ WfBlock(Other(t, n), n)
                             /\ Other(t, n).start = bbs[t].start
                             /\ Other(t, n).end = bbs[t].end
                             /\ Other(t, n).code = bbs[t].code
  BY <1>1, OtherWf
<1>6. \A t \in 1..n : t = n \/ (t = b /\ t \in 1..Len(bbs)) \/ (t \in 1..Len(bbs) /\ t # b /\ t # n)
  BY <1>1
<1>7. WfBlocks(bbs')
  <2> HIDE DEF n, b
  <2> QED
    BY <1>1, <1>2, <1>3, <1>4, <1>5, <1>6 DEF WfBlocks
<1>8. /\ phase' \in {"scan", "cf", "register"}
      /\ phase' = "scan" => pos' = pos + 1
      /\ phase' # "scan" => pos' = pos
      /\ phase' \in {"scan", "cf"} <=> req.back = "cf"
      /\ phase' = "cf" => cur' = next
      /\ cur' \in {next, Null, cur}
      /\ cfi' \in Nat \ {0}
      /\ req.back \in {"cf", "register"}
      /\ UNCHANGED <<prog, req, needs, entry, todo, ijumps, found>>
  <2>1. req.back \in {"cf", "register"} /\ cfi \in Nat \ {0}
    BY DEF Inv, Typed
  <2>2. CASE req.back = "cf"
    <3>1. NextCf(next) /\ UNCHANGED <<prog, req, needs, entry, todo, ijumps, found>>
      BY <2>2 DEF Split
    <3> QED
      BY <2>1, <2>2, <3>1 DEF NextCf
  <2>3. CASE req.back = "register"
    BY <2>1, <2>3 DEF Split
  <2> QED
    BY <2>1, <2>2, <2>3
<1>9. /\ ptr' \in [Slots -> 0..n]
      /\ \A a \in Slots : ptr'[a] # Null => a <= pos
  <2>1. /\ \A a \in Slots : ptr[a] # Null => a <= pos
        /\ req.addr <= pos /\ bbs[b].end <= pos /\ bbs[b].end \in Int
        /\ FirstEnd <= pos /\ FirstEnd \in Int
    <3>1. WfBlock(bbs[b], Len(bbs))
      BY <1>1 DEF WfBlocks
    <3> QED
      BY <1>1, <3>1, FirstEndTyped DEF Inv, Behind, WfBlock
  <2>2. n \in 0..n /\ b \in 0..n /\ 0..Len(bbs) \subseteq 0..n /\ req.addr \in Int
    BY <1>1
  <2>3. ptr \in [Slots -> 0..n]
    BY <1>1, <2>2
  <2>4. ptr' = SetEnd(SetEnd([ptr EXCEPT ![req.addr] = n], n, req.addr, bbs[b].end), b, bbs[b].start, FirstEnd)
    BY DEF Split
  <2> DEFINE p0 == [ptr EXCEPT ![req.addr] = n]
             p1 == SetEnd(p0, n, req.addr, bbs[b].end)
             p2 == SetEnd(p1, b, bbs[b].start, FirstEnd)
  <2> HIDE DEF n, b
  <2>5. PtrOver(ptr, n, pos)
    BY <2>1, <2>3 DEF PtrOver
  <2>6. PtrOver(p0, n, pos)
    BY <1>1, <2>1, <2>2, <2>5, PtrOverKept
  <2> HIDE DEF p0
  <2>7. PtrOver(p1, n, pos)
    BY <1>1, <2>1, <2>2, <2>6, PtrOverKept
  <2> HIDE DEF p1
  <2>8. PtrOver(p2, n, pos)
    BY <1>1, <2>1, <2>2, <2>7, PtrOverKept
  <2>9. ptr' = p2
    BY <2>4 DEF p0, p1
  <2> HIDE DEF p2
  <2> QED
    BY <2>8, <2>9 DEF PtrOver
<1>10. Horizon' = pos
  BY <1>1, <1>8 DEF Horizon
<1>11. Typed'
  <2>1. /\ prog \in [Slots -> Instrs] /\ cur \in 0..Len(bbs)
        /\ req.bb \in 0..Len(bbs) /\ req.addr \in 0..N /\ req.back \in {"cf", "register"}
        /\ needs \subseteq Slots /\ entry \in 0..Len(bbs)
        /\ todo \subseteq (1..Len(bbs)) \X (Nat \ {0})
        /\ ijumps \subseteq Slots /\ found \subseteq 0..(N + 1)
    BY DEF Inv, Typed
  <2>2. 0..Len(bbs) \subseteq 0..n /\ 1..Len(bbs) \subseteq 1..n
    BY <1>1
  <2>3. pos' \in 1..(N + 1)
    <3>1. phase' = "scan" => pos <= N
      BY <1>1, <1>8 DEF Inv, Control, Lifting
    <3> QED
      BY <1>1, <1>8, <3>1
  <2>4. phase' \in Phases /\ cur' \in 0..n
    <3>1. next \in 0..n
      BY <1>1, <2>1
    <3> QED
      BY <1>1, <1>8, <2>1, <2>2, <3>1 DEF Phases, Null
  <2>5. todo \subseteq (1..n) \X (Nat \ {0})
    BY <2>1, <2>2
  <2>6. req.bb \in 0..n /\ entry \in 0..n
    BY <2>1, <2>2
  <2> HIDE DEF n
  <2> QED
    BY <1>2, <1>7, <1>8, <1>9, <2>1, <2>3, <2>4, <2>5, <2>6 DEF Typed
<1>12. Control'
  <2>1. next # Null <=> cur # Null
    BY <1>1 DEF Null
  <2>2. /\ req.back = "cf" => pos <= N /\ cur # Null
        /\ req.back # "cf" => pos = N + 1 /\ entry # Null
    BY <1>1 DEF Inv, Control, Lifting
  <2>3. Len(bbs') >= Dummy
    BY <1>1, <1>2 DEF Dummy
  <2> QED
    BY <1>8, <2>1, <2>2, <2>3 DEF Control, Lifting
<1>13. Behind'
  <2>1. \A t \in 1..Len(bbs) : /\ bbs[t].start <= pos /\ bbs[t].end <= pos
                               /\ \A i \in bbs[t].code : i <= pos
    BY <1>1 DEF Inv, Behind
  <2>2. req.addr <= pos /\ FirstEnd <= pos
    BY <1>1, FirstEndTyped DEF Inv, Behind
  <2>3. ASSUME NEW t \in 1..n
        PROVE  /\ bbs'[t].start <= pos /\ bbs'[t].end <= pos
               /\ \A i \in bbs'[t].code : i <= pos
    <3> HIDE DEF n, b
    <3>1. CASE t = n
      BY <1>1, <1>2, <1>4, <2>1, <2>2, <3>1
    <3>2. CASE t = b /\ t # n
      BY <1>1, <1>2, <1>3, <2>1, <2>2, <3>2
    <3>3. CASE t \in 1..Len(bbs) /\ t # b /\ t # n
      BY <1>2, <1>5, <2>1, <3>3
    <3> QED
      BY <1>6, <3>1, <3>2, <3>3
  <2> QED
    BY <1>2, <1>8, <1>9, <1>10, <2>3 DEF Behind
<1>14. \A i \in Slots : Lifted(i)' <=> Lifted(i)
  <2>1. prog' = prog
    BY <1>8
  <2>2. \A i \in Slots : i \in Int
    BY DEF Slots
  <2>3. \A i \in Slots : (i < pos \/ (i = pos /\ phase # "scan"))' <=> i <= pos
    BY <1>1, <1>8, <2>2
  <2>4. \A i \in Slots : (i < pos \/ (i = pos /\ phase # "scan")) <=> i <= pos
    BY <1>1, <2>2
  <2> QED
    BY <2>1, <2>3, <2>4 DEF Lifted, IsInstr
<1>15. ASSUME CodePartition
       PROVE  CodePartition'
  <2> HIDE DEF Lifted
  <2>1. BlockIds = 1..Len(bbs) /\ BlockIds' = 1..n
    BY <1>1, <1>2 DEF BlockIds, IsSeq
  <2>2. /\ \A t \in 1..Len(bbs) : t # b => bbs'[t].code = bbs[t].code
        /\ bbs'[b].code = {i \in bbs[b].code : i < req.addr}
        /\ bbs'[n].code = {i \in bbs[b].code : i >= req.addr}
        /\ 1..Len(bbs) \subseteq 1..n /\ \A t \in 1..n : t = n \/ t \in 1..Len(bbs)
        /\ n \notin 1..Len(bbs)
    <3>1. \A t \in 1..Len(bbs) : t \in 1..n /\ t # n
      BY <1>1
    <3> HIDE DEF n, b
    <3> QED
      BY <1>1, <1>2, <1>3, <1>4, <1>5, <1>6, <3>1
  <2> HIDE DEF n
  <2>3. ASSUME NEW i \in Slots, ~Lifted(i)'
        PROVE  \A t \in BlockIds' : i \notin bbs'[t].code
    <3>1. \A t \in 1..Len(bbs) : i \notin bbs[t].code
      BY <1>14, <1>15, <2>1, <2>3 DEF CodePartition
    <3> QED
      BY <1>1, <2>1, <2>2, <3>1
  <2>4. ASSUME NEW i \in Slots, Lifted(i)'
        PROVE  \E d \in BlockIds' : {t \in BlockIds' : i \in bbs'[t].code} = {d}
    <3>1. PICK d \in 1..Len(bbs) : {t \in 1..Len(bbs) : i \in bbs[t].code} = {d}
      BY <1>14, <1>15, <2>1, <2>4 DEF CodePartition
    <3>2. \A t \in 1..Len(bbs) : i \in bbs[t].code <=> t = d
      BY <3>1
    <3>3. i \in Int /\ req.addr \in Int
      BY <1>1 DEF Slots
    <3>4. PICK e \in 1..n : e = IF d = b /\ i >= req.addr THEN n ELSE d
      BY <1>1, <2>2
    <3>5. ASSUME NEW t \in 1..n
          PROVE  i \in bbs'[t].code <=> t = e
      <4>1. CASE t = n
        BY <1>1, <2>2, <3>2, <3>4, <4>1
      <4>2. CASE t # n /\ t = b
        BY <1>1, <2>2, <3>2, <3>3, <3>4, <4>2
      <4>3. CASE t # n /\ t # b
        BY <1>1, <2>2, <3>2, <3>4, <4>3
      <4> QED
        BY <4>1, <4>2, <4>3
    <3> QED
      BY <2>1, <3>5
  <2> QED
    BY <2>3, <2>4 DEF CodePartition
<1> QED
  BY <1>11, <1>12, <1>13, <1>15 DEF Inv
LEMMA SplitCrashInv ==
  ASSUME Inv, SplitCrash
  PROVE  Inv' /\ (CodePartition => CodePartition')
<1>1. /\ WfBlocks(bbs) /\ phase = "split" /\ phase' = "crashed"
      /\ UNCHANGED <<prog, pos, cur, cfi, req, bbs, ptr, needs, entry, todo, ijumps, found>>
  BY DEF Inv, Typed, SplitCrash
<1>2. Typed'
  BY <1>1 DEF Inv, Typed, Phases
<1>3. Control'
  BY <1>1 DEF Inv, Control, Lifting
<1>4. Behind'
  BY <1>1 DEF Inv, Behind, Horizon
<1>5. ASSUME CodePartition
      PROVE  CodePartition'
  <2>1. \A i \in Slots : Lifted(i)' <=> Lifted(i)
    BY <1>1 DEF Lifted, IsInstr
  <2> QED
    BY <1>1, <1>5, <2>1, PartitionKept, ExtendsReflexive DEF Extends, WfBlocks
<1> QED
  BY <1>2, <1>3, <1>4, <1>5 DEF Inv

-----------------------------------------------------------------------------
(* The theorems.                                                           *)

(* Every step of the lifter keeps the invariant, and with it the code where *)
(* it belongs.                                                             *)
LEMMA NextInv ==
  ASSUME Inv, [Next]_vars
  PROVE  Inv' /\ (CodePartition => CodePartition')
<1>1. CASE Scan
  BY <1>1, ScanDataInv, ScanInvalidInv, ScanInstrInv, FinishScanInv DEF Scan
<1>2. CASE Resolve
  BY <1>2, ResolveInv
<1>3. CASE Split
  BY <1>3, SplitInv
<1>4. CASE SplitCrash
  BY <1>4, SplitCrashInv
<1>5. CASE Post
  BY <1>5, PostInv
<1>6. CASE FinishPost \/ Backtrace \/ FinishRegister \/ AddEntry \/ \E a \in 0..(N + 1) : RegisterAddr(a)
  BY <1>6, LateInv
<1>7. CASE UNCHANGED vars
  <2>1. Inv'
    BY <1>7
    DEF vars, Inv, Typed, Control, Lifting, Behind, Horizon
  <2>2. CodePartition => CodePartition'
    BY <1>7 DEF vars, CodePartition, Lifted, IsInstr, BlockIds
  <2> QED
    BY <2>1, <2>2
<1> QED
  BY <1>1, <1>2, <1>3, <1>4, <1>5, <1>6, <1>7, Zenon DEF Next, Halt

(* The inductive invariant of Lifter::lift, postprocess and process_ijumps: *)
(* blocks, pointers and edge vectors are well-formed (Typed), the phases    *)
(* agree with the other variables (Control), and nothing reaches beyond the *)
(* last lifted slot (Behind).                                              *)
THEOREM Inductive == Spec => []Inv
<1>1. Init => Inv
  BY InitInv
<1>2. Inv /\ [Next]_vars => Inv'
  BY NextInv
<1> QED
  BY <1>1, <1>2, PTL DEF Spec

(* Every index the lifter keeps names one of the blocks in ir->basic_blocks *)
(* and every address one of the program, for every program of any length:   *)
(* no call of split_basic_block or of add_basic_block leaves a block, an    *)
(* edge or a control flow operation that points nowhere.                   *)
THEOREM TypeCorrect == Spec => []TypeOK
<1>1. Inv => TypeOK
  <2> SUFFICES ASSUME Inv
               PROVE  TypeOK
    OBVIOUS
  <2>1. Typed /\ WfBlocks(bbs) /\ Len(bbs) \in Nat /\ BlockIds = 1..Len(bbs)
    BY DEF Inv, Typed, WfBlocks, IsSeq, BlockIds
  <2>2. 0..Len(bbs) = BlockIds \cup {Null}
    BY <2>1 DEF Null
  <2>3. ASSUME NEW b \in BlockIds
        PROVE  BlockOK(bbs[b])
    <3>1. WfBlock(bbs[b], Len(bbs))
      BY <2>1 DEF WfBlocks
    <3>2. \A k \in DOMAIN bbs[b].cfs : CfOK(bbs[b].cfs[k])
      <4>1. \A k \in DOMAIN bbs[b].cfs : WfCf(bbs[b].cfs[k], Len(bbs))
        BY <3>1 DEF WfBlock, WfCfs
      <4> QED
        BY <2>2, <4>1 DEF WfCf, CfOK
    <3> QED
      BY <2>1, <3>1, <3>2 DEF WfBlock, BlockOK
  <2>4. /\ cur \in BlockIds \cup {Null} /\ req.bb \in BlockIds \cup {Null}
        /\ ptr \in [Slots -> BlockIds \cup {Null}] /\ entry \in BlockIds \cup {Null}
    BY <2>1, <2>2 DEF Typed
  <2>5. todo \subseteq BlockIds \X (Nat \ {0})
    BY <2>1 DEF Typed
  <2> QED
    BY <2>1, <2>3, <2>4, <2>5 DEF Typed, TypeOK
<1> QED
  BY <1>1, Inductive, PTL

(* The assertion of lifter.cpp:95 never fails: when lift() reaches a slot,  *)
(* no block covers it or a slot behind it, whatever was split before.      *)
THEOREM ScanMeetsNoBlock == Spec => []NothingAhead
<1>1. Inv => NothingAhead
  <2> SUFFICES ASSUME Inv, phase \in {"scan", "cf", "split"}, NEW a \in Slots,
                      a > pos \/ (a = pos /\ phase = "scan")
               PROVE  ptr[a] = Null
    BY DEF NothingAhead
  <2>1. pos \in Int /\ a \in Int
    BY DEF Inv, Typed, Slots
  <2>2. ~(a <= Horizon)
    BY <2>1 DEF Horizon
  <2> QED
    BY <2>2 DEF Inv, Behind
<1> QED
  BY <1>1, Inductive, PTL

(* Lifting and splitting neither lose nor duplicate an instruction: every   *)
(* instruction the scan has passed is in exactly one block, and no block    *)
(* holds anything else.                                                    *)
THEOREM CodeIsPartitioned == Spec => []CodePartition
<1>1. Init => Inv /\ CodePartition
  <2> SUFFICES ASSUME Init
               PROVE  CodePartition
    BY InitInv
  <2>1. \A b \in BlockIds : bbs[b].code = {}
    BY DEF Init, BlockIds, EmptyBlock
  <2>2. \A i \in Slots : ~Lifted(i)
    BY DEF Init, Lifted, Slots
  <2> QED
    BY <2>1, <2>2 DEF CodePartition
<1>2. (Inv /\ CodePartition) /\ [Next]_vars => (Inv /\ CodePartition)'
  BY NextInv
<1> QED
  BY <1>1, <1>2, PTL DEF Spec
=============================================================================

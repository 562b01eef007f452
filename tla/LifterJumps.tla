---------------------------- MODULE LifterJumps ----------------------------
(***************************************************************************)
(* For every program with no FENCE, unknown mnemonic or ignored csr or     *)
(* float instruction in front of another instruction: virt_bb_ptrs and the *)
(* blocks agree (PtrCoherent), a direct jump goes to the start of a block  *)
(* (JumpsHitStarts), and split_basic_block retargets at most the operation *)
(* it was called for (SplitMovesOne).  split_basic_block ends the first    *)
(* half of a block at the last instruction that declares a variable;       *)
(* behind such an instruction that is too early, and a second split then   *)
(* moves the slots in between to a new block without their pointers.       *)
(***************************************************************************)
EXTENDS LifterCFGProofs, FiniteSetTheorems

(* Every instruction in front of another one declares a variable. *)
AllYield == \A a \in Slots : IsInstr(a + 1) => Yields(a)

-----------------------------------------------------------------------------
(* First part: virt_bb_ptrs.  The inductive invariant.                     *)

(* What is found at an address: code of the block, or, where it starts, no *)
(* instruction.  Slot h is excepted.                                       *)
OwnCode(B, p, h) ==
  \A a \in Slots \ {h} : p[a] # Null =>
    a \in B[p[a]].code \/ (a = B[p[a]].start /\ ~IsInstr(a))

(* A block without end is found at its start only. *)
OpenAtStart(B, p) ==
  \A a \in Slots : p[a] # Null /\ B[p[a]].end = 0 => a = B[p[a]].start

(* A block with an end is found in all of its code. *)
FoundInCode(B, p) ==
  \A b \in 1..Len(B) : B[b].end # 0 => \A a \in B[b].code : p[a] = b

(* Code is a run of slots, up to the end of the block if it has one. *)
Runs(B) ==
  \A b \in 1..Len(B) : B[b].code # {} =>
    B[b].start \in Slots /\ (B[b].end # 0 => B[b].code = B[b].start..B[b].end)

FoundAtStart(B, p) ==
  \A b \in 1..Len(B) : B[b].start \in Slots => p[B[b].start] = b

Mapped(B, p, h) ==
  /\ OwnCode(B, p, h)
  /\ OpenAtStart(B, p)
  /\ FoundInCode(B, p)
  /\ Runs(B)
  /\ FoundAtStart(B, p)

(* The open block holds everything from its start to the last slot. *)
OpenBlock ==
  phase = "scan" /\ cur # Null =>
    /\ bbs[cur].end = 0
    /\ bbs[cur].start \in 1..(pos - 1)
    /\ bbs[cur].code = bbs[cur].start..(pos - 1)
    /\ bbs[cur].cfs = <<>>
    /\ prog[pos - 1].kind \notin Terminators

(* A block starts behind every instruction that changes the control flow.  *)
StartsBehind ==
  \A a \in Slots : prog[a].kind \in Terminators /\ Lifted(a + 1) => ptr[a + 1] # Null

(* A call is an operation of such an instruction. *)
Site(cf) ==
  cf.type \in {"call", "icall"} => cf.instr \in Slots /\ prog[cf.instr].kind \in Terminators

Sites(cfs) == \A k \in DOMAIN cfs : Site(cfs[k])

Sited(B) == \A b \in 1..Len(B) : Sites(B[b].cfs)

(* The split in progress cuts the block that the address is found in. *)
CutsInside ==
  phase = "split" =>
    /\ req.addr \in Slots
    /\ ptr[req.addr] = req.bb
    /\ bbs[req.bb].start # req.addr

Pointers ==
  /\ Mapped(bbs, ptr, 0)
  /\ OpenBlock
  /\ StartsBehind
  /\ Sited(bbs)
  /\ CutsInside
  /\ bbs[Dummy].start = 0

(* What CodePartition says of a vector of blocks: no slot is in two of     *)
(* them, and each holds an instruction.                                    *)
Disjoint(B) ==
  /\ \A b, c \in 1..Len(B) : b # c => B[b].code \cap B[c].code = {}
  /\ \A b \in 1..Len(B) : \A a \in B[b].code : IsInstr(a)

LEMMA PartitionDisjoint ==
  ASSUME IsSeq(bbs), CodePartition, \A b \in 1..Len(bbs) : bbs[b].code \subseteq Slots
  PROVE  Disjoint(bbs)
<1>1. BlockIds = 1..Len(bbs)
  BY DEF IsSeq, BlockIds
<1>2. ASSUME NEW b \in 1..Len(bbs), NEW a \in bbs[b].code
      PROVE  /\ Lifted(a)
             /\ \A c \in 1..Len(bbs) : a \in bbs[c].code => c = b
  <2>1. a \in Slots
    BY <1>2
  <2>2. Lifted(a)
    <3> HIDE DEF Lifted
    <3> QED
      BY <1>1, <1>2, <2>1 DEF CodePartition
  <2>3. PICK d \in BlockIds : {c \in BlockIds : a \in bbs[c].code} = {d}
    <3> HIDE DEF Lifted
    <3> QED
      BY <2>1, <2>2 DEF CodePartition
  <2> QED
    BY <1>1, <1>2, <2>2, <2>3
<1> QED
  BY <1>2 DEF Disjoint, Lifted

-----------------------------------------------------------------------------
(* Pointers under the operations on blocks.                                *)

LEMMA SameMapped ==
  ASSUME NEW B, NEW C, NEW p, NEW h, Mapped(B, p, h), WfBlocks(B), WfBlocks(C), Extends(B, C),
         \A b \in (Len(B) + 1)..Len(C) : C[b].start = 0 /\ C[b].end = 0,
         p \in [Slots -> 0..Len(B)]
  PROVE  Mapped(C, p, h)
<1>1. /\ Len(B) \in Nat /\ Len(C) \in Nat /\ Len(B) <= Len(C)
      /\ \A b \in 1..Len(C) : b \in 1..Len(B) \/ b \in (Len(B) + 1)..Len(C)
      /\ \A b \in 1..Len(B) : C[b].start = B[b].start /\ C[b].end = B[b].end /\ C[b].code = B[b].code
      /\ \A b \in (Len(B) + 1)..Len(C) : C[b].code = {}
  BY DEF WfBlocks, IsSeq, Extends
<1>2. \A a \in Slots : p[a] # Null => p[a] \in 1..Len(B)
  BY <1>1 DEF Null
<1>3. OwnCode(C, p, h)
  BY <1>1, <1>2 DEF Mapped, OwnCode
<1>4. OpenAtStart(C, p)
  BY <1>1, <1>2 DEF Mapped, OpenAtStart
<1>5. FoundInCode(C, p)
  BY <1>1 DEF Mapped, FoundInCode
<1>6. Runs(C)
  BY <1>1 DEF Mapped, Runs
<1>7. FoundAtStart(C, p)
  <2>1. 0 \notin Slots
    BY DEF Slots
  <2> QED
    BY <1>1, <2>1 DEF Mapped, FoundAtStart
<1> QED
  BY <1>3, <1>4, <1>5, <1>6, <1>7 DEF Mapped

(* A block without code at an address that has none: set_bb_ptr.           *)
LEMMA AppendMapped ==
  ASSUME NEW B, NEW p, Mapped(B, p, 0), WfBlocks(B), p \in [Slots -> 0..Len(B)],
         NEW a \in Slots, p[a] = Null,
         NEW x, WfBlock(x, Len(B) + 1), x.start = a, x.code = {},
         NEW h, h = a \/ ~IsInstr(a)
  PROVE  Mapped(Append(B, x), [p EXCEPT ![a] = Len(B) + 1], h)
<1> DEFINE n == Len(B) + 1
           C == Append(B, x)
           q == [p EXCEPT ![a] = n]
<1>1. /\ Len(B) \in Nat /\ WfBlocks(C) /\ Len(C) = n
      /\ \A b \in 1..Len(B) : C[b] = B[b]
      /\ C[n] = x
      /\ \A b \in 1..n : b \in 1..Len(B) \/ b = n
      /\ n \notin 1..Len(B) /\ n # Null
  <2>1. IsSeq(B) /\ Len(B) \in Nat
    BY DEF WfBlocks, IsSeq
  <2> QED
    BY <2>1, AppendBlockWf, AppendIsSeq DEF Null
<1>2. /\ q[a] = n
      /\ \A s \in Slots : s # a => q[s] = p[s]
      /\ \A s \in Slots : p[s] # Null => p[s] \in 1..Len(B)
  BY <1>1 DEF Null
<1> HIDE DEF n, C, q
<1>3. OwnCode(C, q, h)
  <2> SUFFICES ASSUME NEW s \in Slots \ {h}, q[s] # Null
               PROVE  s \in C[q[s]].code \/ (s = C[q[s]].start /\ ~IsInstr(s))
    BY DEF OwnCode
  <2>1. CASE s = a
    BY <1>1, <1>2, <2>1
  <2>2. CASE s # a
    <3>1. s \in Slots \ {0}
      BY DEF Slots
    <3> HIDE DEF IsInstr
    <3> QED
      BY <1>1, <1>2, <2>2, <3>1 DEF Mapped, OwnCode
  <2> QED
    BY <2>1, <2>2
<1>4. OpenAtStart(C, q)
  BY <1>1, <1>2 DEF Mapped, OpenAtStart
<1>5. FoundInCode(C, q)
  <2>1. \A b \in 1..Len(B) : B[b].code \subseteq Slots
    BY DEF WfBlocks, WfBlock
  <2> QED
    BY <1>1, <1>2, <2>1 DEF Mapped, FoundInCode, Null
<1>6. Runs(C)
  BY <1>1 DEF Mapped, Runs
<1>7. FoundAtStart(C, q)
  BY <1>1, <1>2 DEF Mapped, FoundAtStart, Null
<1> QED
  BY <1>3, <1>4, <1>5, <1>6, <1>7 DEF Mapped, C, q, n

(* One end set, one slot added. *)
EndWith(B, b, e, c)  == IF c = b THEN e ELSE B[c].end
CodeWith(B, b, a, c) == IF c = b THEN B[b].code \cup {a} ELSE B[c].code

(* set_virt_end_addr: the open block b is found in all of its code. *)
LEMMA CloseMapped ==
  ASSUME NEW B, NEW C, NEW p, NEW h, Mapped(B, p, h), WfBlocks(B), Len(C) = Len(B), Disjoint(B),
         p \in [Slots -> 0..Len(B)],
         NEW b \in 1..Len(B), NEW e \in Slots,
         B[b].end = 0, B[b].start \in Slots, B[b].code = B[b].start..e, h \notin B[b].code \/ p[h] = b,
         \A c \in 1..Len(B) : /\ C[c].start = B[c].start /\ C[c].code = B[c].code
                              /\ C[c].end = EndWith(B, b, e, c)
  PROVE  Mapped(C, SetEnd(p, b, B[b].start, e), h)
<1>0. \A c \in 1..Len(B) : C[c].end = IF c = b THEN e ELSE B[c].end
  BY DEF EndWith
<1> DEFINE q == SetEnd(p, b, B[b].start, e)
<1>1. /\ Len(B) \in Nat /\ b # Null /\ e # 0
      /\ \A s \in Slots : p[s] # Null => p[s] \in 1..Len(B)
      /\ \A c \in 1..Len(B) : B[c].code \subseteq Slots
  BY DEF WfBlocks, WfBlock, IsSeq, Null, Slots
<1>2. \A s \in Slots : q[s] = IF s \in B[b].code THEN b ELSE p[s]
  BY DEF SetEnd, Slots
<1>3. \A s \in Slots : p[s] = b => s \in B[b].code \/ B[b].code = {}
  BY <1>1 DEF Mapped, OpenAtStart, Slots
<1> HIDE DEF q
<1>4. OwnCode(C, q, h)
  <2> SUFFICES ASSUME NEW s \in Slots \ {h}, q[s] # Null
               PROVE  s \in C[q[s]].code \/ (s = C[q[s]].start /\ ~IsInstr(s))
    BY DEF OwnCode
  <2>1. CASE s \in B[b].code
    BY <1>2, <2>1
  <2>2. CASE s \notin B[b].code
    <3>1. q[s] = p[s] /\ p[s] \in 1..Len(B)
      BY <1>1, <1>2, <2>2
    <3> HIDE DEF IsInstr
    <3> QED
      BY <3>1 DEF Mapped, OwnCode
  <2> QED
    BY <2>1, <2>2
<1>5. OpenAtStart(C, q)
  BY <1>0, <1>1, <1>2 DEF Mapped, OpenAtStart
<1>6. FoundInCode(C, q)
  <2> SUFFICES ASSUME NEW c \in 1..Len(B), C[c].end # 0, NEW s \in B[c].code
               PROVE  q[s] = c
    BY DEF FoundInCode
  <2>1. CASE c = b
    BY <1>1, <1>2, <2>1
  <2>2. CASE c # b
    <3>1. s \notin B[b].code
      BY <2>2 DEF Disjoint
    <3>2. p[s] = c /\ s \in Slots
      BY <1>0, <1>1, <2>2 DEF Mapped, FoundInCode
    <3> QED
      BY <1>2, <3>1, <3>2
  <2> QED
    BY <2>1, <2>2
<1>7. Runs(C)
  BY <1>0 DEF Mapped, Runs
<1>8. FoundAtStart(C, q)
  <2> SUFFICES ASSUME NEW c \in 1..Len(B), B[c].start \in Slots
               PROVE  q[B[c].start] = c
    BY DEF FoundAtStart
  <2> DEFINE s == B[c].start
  <2>1. p[s] = c /\ c # Null
    BY DEF Mapped, FoundAtStart, Null
  <2>2. CASE s \in B[b].code
    <3>1. CASE s = h
      BY <1>2, <2>1, <2>2, <3>1
    <3>2. CASE s # h
      <4>1. s \in B[c].code \/ ~IsInstr(s)
        BY <2>1, <3>2 DEF Mapped, OwnCode
      <4>2. s \in B[c].code
        BY <2>2, <4>1 DEF Disjoint
      <4> QED
        BY <1>2, <2>2, <4>2 DEF Disjoint
    <3> QED
      BY <3>1, <3>2
  <2>3. CASE s \notin B[b].code
    BY <1>2, <2>1, <2>3
  <2> QED
    BY <2>2, <2>3
<1> QED
  BY <1>4, <1>5, <1>6, <1>7, <1>8 DEF Mapped, q

-----------------------------------------------------------------------------
(* The scan.                                                               *)

(* create_new_bb at the scanned slot.  Until the instruction is lifted,    *)
(* the new block is found at a slot that is not in its code.               *)
LEMMA OpenMapped ==
  ASSUME Inv, Pointers, Disjoint(bbs), phase = "scan", pos <= N,
         NEW h, h = pos \/ (h = 0 /\ ~IsInstr(pos))
  PROVE  Mapped(OpenBlocks, OpenPtr, h)
<1> DEFINE n == Len(bbs) + 1
           A == Append(bbs, EmptyBlock(pos))
           p == [ptr EXCEPT ![pos] = n]
<1>1. /\ WfBlocks(bbs) /\ IsSeq(bbs) /\ Len(bbs) \in Nat /\ ptr \in [Slots -> 0..Len(bbs)]
      /\ pos \in Slots /\ pos \in 0..N /\ pos \in 1..N /\ ptr[pos] = Null /\ cur \in 0..Len(bbs)
      /\ Mapped(bbs, ptr, 0) /\ n \in Nat
  BY NAssumption DEF Inv, Typed, Behind, Horizon, WfBlocks, IsSeq, Slots, Pointers
<1>2. /\ WfBlock(EmptyBlock(pos), n) /\ EmptyBlock(pos).start = pos /\ EmptyBlock(pos).code = {}
      /\ EmptyBlock(pos).end = 0
  <2>1. WfBlock(EmptyBlock(pos), n)
    BY <1>1, EmptyBlockWf
  <2> QED
    BY <2>1 DEF EmptyBlock
<1>3. Mapped(A, p, h)
  <2>1. h = pos \/ ~IsInstr(pos)
    OBVIOUS
  <2> HIDE DEF IsInstr, EmptyBlock
  <2> QED
    BY <1>1, <1>2, <2>1, AppendMapped
<1>4. /\ WfBlocks(A) /\ Len(A) = n
      /\ \A b \in 1..Len(bbs) : A[b] = bbs[b]
      /\ A[n] = EmptyBlock(pos)
      /\ \A b \in 1..n : b \in 1..Len(bbs) \/ b = n
  BY <1>1, <1>2, AppendBlockWf, AppendIsSeq
<1>5. CASE cur = Null
  <2>1. OpenBlocks = A /\ OpenPtr = p
    BY <1>5 DEF OpenBlocks, OpenPtr
  <2> HIDE DEF A, p
  <2> QED
    BY <1>3, <2>1
<1>6. CASE cur # Null
  <2>1. /\ cur \in 1..Len(bbs) /\ cur \in 1..n /\ A[cur] = bbs[cur]
        /\ bbs[cur].end = 0 /\ bbs[cur].start \in 1..(pos - 1)
        /\ bbs[cur].code = bbs[cur].start..(pos - 1)
    BY <1>1, <1>4, <1>6 DEF Pointers, OpenBlock, Null
  <2>2. pos - 1 \in Slots /\ bbs[cur].start \in Slots /\ h \notin bbs[cur].code
    <3>1. h = pos \/ h = 0
      OBVIOUS
    <3>2. N \in Nat
      BY NAssumption
    <3>3. pos - 1 \in Slots /\ bbs[cur].start \in Slots
      BY <1>1, <2>1, <3>2 DEF Slots
    <3>4. ~(pos \in bbs[cur].start..(pos - 1)) /\ ~(0 \in bbs[cur].start..(pos - 1))
      BY <1>1, <2>1
    <3> QED
      BY <2>1, <3>1, <3>3, <3>4
  <2>3. Disjoint(A)
    <3> HIDE DEF n, A, IsInstr
    <3> QED
      BY <1>1, <1>2, <1>4 DEF Disjoint
  <2>4. p \in [Slots -> 0..n]
    BY <1>1
  <2>5. /\ Len(OpenBlocks) = n
        /\ \A c \in 1..n : /\ OpenBlocks[c].start = A[c].start /\ OpenBlocks[c].code = A[c].code
                            /\ OpenBlocks[c].end = EndWith(A, cur, pos - 1, c)
    <3>1. n # cur
      BY <1>1
    <3>2. Len(OpenBlocks) = n
      BY OpenWf
    <3>3. \A c \in 1..Len(bbs) : /\ OpenBlocks[c].start = bbs[c].start
                                  /\ OpenBlocks[c].code = bbs[c].code
                                  /\ OpenBlocks[c].end = IF c = cur THEN pos - 1 ELSE bbs[c].end
      BY OpenWf
    <3>4. OpenBlocks[n].start = pos /\ OpenBlocks[n].end = 0 /\ OpenBlocks[n].code = {}
      BY OpenWf
    <3> HIDE DEF A, n
    <3> QED
      BY <1>2, <1>4, <3>1, <3>2, <3>3, <3>4 DEF EndWith
  <2>6. OpenPtr = SetEnd(p, cur, A[cur].start, pos - 1)
    BY <1>6, <2>1 DEF OpenPtr
  <2> HIDE DEF A, p, n
  <2> QED
    BY <1>3, <1>4, <2>1, <2>2, <2>3, <2>4, <2>5, <2>6, CloseMapped
<1> QED
  BY <1>5, <1>6

(* Opening a block forgets no pointer. *)
LEMMA OpenPtrKeeps ==
  ASSUME Inv, phase = "scan", pos <= N
  PROVE  /\ \A a \in Slots : ptr[a] # Null => OpenPtr[a] # Null
         /\ OpenPtr[pos] = Len(bbs) + 1
<1>1. /\ Len(bbs) \in Nat /\ pos \in Slots /\ pos \in 1..N /\ ptr \in [Slots -> 0..Len(bbs)]
      /\ \A a \in Slots : a \in Int
  BY NAssumption DEF Inv, Typed, WfBlocks, IsSeq, Slots
<1>2. CASE cur = Null
  BY <1>1, <1>2 DEF OpenPtr, Null
<1>3. CASE cur # Null
  BY <1>1, <1>3 DEF OpenPtr, SetEnd, Null
<1> QED
  BY <1>2, <1>3

(* The block the instruction goes into is open and reaches up to it. *)
LEMMA TargetOpen ==
  ASSUME Inv, Pointers, Disjoint(bbs), phase = "scan", pos <= N,
         NEW opens, opens <=> cur = Null \/ pos \in needs,
         NEW b, b = IF opens THEN Len(bbs) + 1 ELSE cur,
         NEW B, B = IF opens THEN OpenBlocks ELSE bbs,
         NEW p, p = IF opens THEN OpenPtr ELSE ptr
  PROVE  /\ Mapped(B, p, pos)
         /\ B[b].end = 0 /\ B[b].start \in 1..pos /\ B[b].code = B[b].start..(pos - 1)
         /\ p[pos] \in {Null, b}
         /\ cur = Null => p[pos] = b
         /\ \A a \in Slots : ptr[a] # Null => p[a] # Null
         /\ Disjoint(B)
         /\ Sited(B)
         /\ B[Dummy].start = 0
<1>1. /\ WfBlocks(bbs) /\ Len(bbs) \in Nat /\ Len(bbs) >= 1
      /\ pos \in 1..N /\ cur \in 0..Len(bbs) /\ pos \in Slots
      /\ ptr[pos] = Null
  BY NAssumption DEF Inv, Typed, Behind, Control, Horizon, WfBlocks, IsSeq, Slots, Dummy
<1>2. CASE ~opens
  <2>1. B = bbs /\ b = cur /\ p = ptr /\ cur # Null
    BY <1>2
  <2>2. Mapped(bbs, ptr, pos)
    BY DEF Pointers, Mapped, OwnCode, Slots
  <2>3. bbs[cur].end = 0 /\ bbs[cur].start \in 1..pos /\ bbs[cur].code = bbs[cur].start..(pos - 1)
    BY <1>1, <2>1 DEF Pointers, OpenBlock
  <2> QED
    BY <1>1, <2>1, <2>2, <2>3 DEF Pointers
<1>3. CASE opens
  <2>1. B = OpenBlocks /\ b = Len(bbs) + 1 /\ p = OpenPtr
    BY <1>3
  <2>2. Mapped(OpenBlocks, OpenPtr, pos)
    BY OpenMapped
  <2>3. /\ OpenBlocks[b].start = pos /\ OpenBlocks[b].end = 0
        /\ OpenBlocks[b].code = {} /\ OpenBlocks[b].cfs = <<>>
        /\ Len(OpenBlocks) = Len(bbs) + 1
        /\ \A c \in 1..Len(OpenBlocks) : c \in 1..Len(bbs) \/ c = b
    BY <1>1, <2>1, OpenWf
  <2>4. \A c \in 1..Len(bbs) : OpenBlocks[c].code = bbs[c].code /\ OpenBlocks[c].start = bbs[c].start
    BY OpenWf
  <2>5. Disjoint(OpenBlocks)
    <3> HIDE DEF IsInstr
    <3> QED
      BY <2>3, <2>4 DEF Disjoint
  <2>6. ASSUME NEW c \in 1..Len(OpenBlocks)
        PROVE  Sites(OpenBlocks[c].cfs)
    <3>1. CASE c = b
      BY <2>3, <3>1, EmptyIsSeq DEF Sites, IsSeq
    <3>2. CASE c \in 1..Len(bbs) /\ c # cur
      <4>1. OpenBlocks[c].cfs = bbs[c].cfs
        BY <3>2, OpenWf
      <4> QED
        BY <3>2, <4>1 DEF Pointers, Sited
    <3>3. CASE c \in 1..Len(bbs) /\ c = cur
      <4> DEFINE x == Cf("jump", pos - 1, pos, Len(bbs) + 1)
      <4>1. OpenBlocks[c].cfs = Append(<<>>, x)
        <5>1. cur # Null /\ bbs[cur].cfs = <<>>
          BY <3>3 DEF Pointers, OpenBlock, Null
        <5>2. OpenBlocks[c].cfs = Append(bbs[c].cfs, x)
          BY <3>3, OpenWf
        <5> QED
          BY <3>3, <5>1, <5>2
      <4>2. DOMAIN Append(<<>>, x) = 1..1 /\ Append(<<>>, x)[1] = x
        <5> HIDE DEF x
        <5> QED
          BY EmptyIsSeq, AppendIsSeq
      <4>3. Site(x)
        BY DEF Site, Cf
      <4> HIDE DEF x, Site
      <4> QED
        BY <4>1, <4>2, <4>3 DEF Sites
    <3> QED
      BY <2>3, <3>1, <3>2, <3>3
  <2>7. OpenBlocks[Dummy].start = 0
    BY <1>1, <2>4 DEF Pointers, Dummy
  <2>8. Sited(OpenBlocks)
    BY <2>6 DEF Sited
  <2>9. OpenPtr[pos] = b /\ \A a \in Slots : ptr[a] # Null => OpenPtr[a] # Null
    BY <2>1, OpenPtrKeeps
  <2>10. OpenBlocks[b].start \in 1..pos /\ OpenBlocks[b].code = OpenBlocks[b].start..(pos - 1)
    BY <1>1, <2>3
  <2> QED
    BY <2>1, <2>2, <2>3, <2>5, <2>7, <2>8, <2>9, <2>10
<1> QED
  BY <1>2, <1>3

LEMMA RunGrows ==
  ASSUME NEW x \in Int, NEW y \in Int, x <= y
  PROVE  (x..(y - 1)) \cup {y} = x..y
OBVIOUS

(* The instruction at slot a joins the open block b. *)
LEMMA LiftMapped ==
  ASSUME NEW B, NEW C, NEW p, WfBlocks(B), Len(C) = Len(B), p \in [Slots -> 0..Len(B)],
         NEW a \in Slots, Mapped(B, p, a), Disjoint(B), IsInstr(a),
         NEW b \in 1..Len(B), B[b].end = 0, B[b].start \in 1..a, B[b].code = B[b].start..(a - 1),
         p[a] \in {Null, b}, \A c \in 1..Len(B) : a \notin B[c].code,
         \A c \in 1..Len(B) : /\ C[c].start = B[c].start /\ C[c].end = B[c].end
                              /\ C[c].code = CodeWith(B, b, a, c)
  PROVE  /\ Mapped(C, p, 0)
         /\ Disjoint(C)
<1>0. /\ \A c \in 1..Len(B) : c # b => C[c].code = B[c].code
      /\ C[b].code = B[b].code \cup {a}
      /\ C[b].start = B[b].start
  BY DEF CodeWith
<1>1. /\ Len(B) \in Nat /\ a \in Int /\ a \in 1..N /\ B[b].start \in Slots
      /\ \A s \in Slots : p[s] # Null => p[s] \in 1..Len(B)
      /\ \A c \in 1..Len(B) : B[c].code \subseteq C[c].code
  <2>1. /\ Len(B) \in Nat /\ a \in Int /\ a \in 1..N /\ B[b].start \in Slots
    BY NAssumption DEF WfBlocks, IsSeq, Slots
  <2>2. \A s \in Slots : p[s] # Null => p[s] \in 1..Len(B)
    BY <2>1 DEF Null
  <2>3. \A c \in 1..Len(B) : B[c].code \subseteq C[c].code
    BY <1>0
  <2> QED
    BY <2>1, <2>2, <2>3
<1>3. OwnCode(C, p, 0)
  <2> SUFFICES ASSUME NEW s \in Slots, p[s] # Null
               PROVE  s \in C[p[s]].code \/ (s = C[p[s]].start /\ ~IsInstr(s))
    BY DEF OwnCode
  <2>1. CASE s = a
    BY <1>0, <1>1, <2>1
  <2>2. CASE s # a
    <3> HIDE DEF IsInstr
    <3> QED
      BY <1>1, <2>2 DEF Mapped, OwnCode
  <2> QED
    BY <2>1, <2>2
<1>4. OpenAtStart(C, p)
  BY <1>1 DEF Mapped, OpenAtStart
<1>5. FoundInCode(C, p)
  <2>1. \A c \in 1..Len(B) : B[c].end # 0 => c # b
    OBVIOUS
  <2>2. \A c \in 1..Len(B) : B[c].end # 0 => C[c].code = B[c].code /\ \A s \in B[c].code : p[s] = c
    BY <1>0, <2>1 DEF Mapped, FoundInCode
  <2> QED
    BY <2>2 DEF FoundInCode
<1>6. Runs(C)
  BY <1>0, <1>1 DEF Mapped, Runs
<1>7. FoundAtStart(C, p)
  BY DEF Mapped, FoundAtStart
<1>8. Disjoint(C)
  <2> HIDE DEF IsInstr
  <2>1. ASSUME NEW c \in 1..Len(B), NEW s \in C[c].code
        PROVE  (s \in B[c].code /\ s # a) \/ (s = a /\ c = b)
    <3>1. CASE c = b
      BY <1>0, <2>1, <3>1
    <3>2. CASE c # b
      BY <1>0, <2>1, <3>2
    <3> QED
      BY <3>1, <3>2
  <2>2. ASSUME NEW c \in 1..Len(B), NEW d \in 1..Len(B), NEW s \in C[c].code, s \in C[d].code
        PROVE  c = d
    <3>1. (s \in B[c].code /\ s # a) \/ (s = a /\ c = b)
      BY <2>1, <2>2
    <3>2. (s \in B[d].code /\ s # a) \/ (s = a /\ d = b)
      BY <2>1, <2>2
    <3> QED
      BY <3>1, <3>2, Zenon DEF Disjoint
  <2>3. ASSUME NEW c \in 1..Len(B), NEW s \in C[c].code
        PROVE  IsInstr(s)
    BY <2>1, <2>3, Zenon DEF Disjoint
  <2> QED
    BY <2>2, <2>3, Zenon DEF Disjoint
<1> QED
  BY <1>3, <1>4, <1>5, <1>6, <1>7, <1>8 DEF Mapped

(* ScanInstr with its local definitions named. *)
LEMMA ScanInstrSteps ==
  ASSUME ScanInstr,
         NEW b, b = (IF cur = Null \/ pos \in needs THEN Len(bbs) + 1 ELSE cur),
         NEW B, B = (IF cur = Null \/ pos \in needs THEN OpenBlocks ELSE bbs),
         NEW p, p = (IF cur = Null \/ pos \in needs THEN OpenPtr ELSE ptr)
  PROVE  /\ cur' = b
         /\ \/ /\ prog[pos].kind \in Terminators
               /\ bbs' = [[B EXCEPT ![b].code = @ \cup {pos}, ![b].cfs = CfsOf(prog[pos], pos)] EXCEPT ![b].end = pos]
               /\ ptr' = SetEnd(p, b, B[b].start, pos)
               /\ phase' = "cf" /\ cfi' = 1 /\ pos' = pos
            \/ /\ prog[pos].kind \notin Terminators
               /\ bbs' = [B EXCEPT ![b].code = @ \cup {pos}, ![b].cfs = CfsOf(prog[pos], pos)]
               /\ ptr' = p
               /\ phase' = phase /\ cfi' = cfi /\ pos' = pos + 1
         /\ UNCHANGED <<prog, req, needs, entry, todo, ijumps, found>>
BY Zenon DEF ScanInstr

(* What ScanInstr does to block b of the blocks B and to the pointers p.   *)
LEMMA ScanInstrFields ==
  ASSUME Inv, ScanInstr,
         NEW opens, opens <=> cur = Null \/ pos \in needs,
         NEW b, b = IF opens THEN Len(bbs) + 1 ELSE cur,
         NEW B, B = IF opens THEN OpenBlocks ELSE bbs,
         NEW p, p = IF opens THEN OpenPtr ELSE ptr
  PROVE  /\ Len(bbs') = Len(B)
         /\ \A c \in 1..Len(B) :
              /\ bbs'[c].start = B[c].start
              /\ bbs'[c].code = CodeWith(B, b, pos, c)
              /\ c # b => bbs'[c].cfs = B[c].cfs /\ bbs'[c].end = B[c].end
         /\ bbs'[b].cfs = CfsOf(prog[pos], pos)
         /\ cur' = b /\ prog' = prog
         /\ \/ /\ prog[pos].kind \in Terminators
               /\ bbs'[b].end = pos
               /\ ptr' = SetEnd(p, b, B[b].start, pos)
               /\ phase' = "cf" /\ pos' = pos
            \/ /\ prog[pos].kind \notin Terminators
               /\ bbs'[b].end = B[b].end
               /\ ptr' = p
               /\ phase' = "scan" /\ pos' = pos + 1
<1> DEFINE ins == prog[pos]
           y == WithCfs(WithCode(B[b], B[b].code \cup {pos}), CfsOf(ins, pos))
           z == WithEnd(y, pos)
<1>1. /\ pos \in Slots /\ pos \in 0..N /\ phase = "scan" /\ pos <= N /\ ins \in Instr
  BY NAssumption, InstrAssumption DEF Inv, Typed, ScanInstr, Slots
<1>2. WfBlocks(B) /\ Len(B) \in Nat /\ b \in 1..Len(B)
  BY <1>1, TargetBlock
<1>3. WfBlock(B[b], Len(B)) /\ B[b].code \cup {pos} \in SUBSET Slots
  BY <1>1, <1>2 DEF WfBlocks, WfBlock
<1>4. WfCfs(CfsOf(ins, pos), Len(B))
  BY <1>1, <1>2, CfsOfWf
<1>5. [B EXCEPT ![b].code = @ \cup {pos}, ![b].cfs = CfsOf(ins, pos)] = Put(B, b, y)
  BY <1>2, <1>3 DEF Put, WithCode, WithCfs, WfBlocks, IsSeq, WfBlock, BlockFields
<1>6. [Put(B, b, y) EXCEPT ![b].end = pos] = Put(B, b, z)
  <2> HIDE DEF y
  <2> QED
    BY <1>2 DEF Put, WithEnd, WfBlocks, IsSeq
<1>7. /\ b = (IF cur = Null \/ pos \in needs THEN Len(bbs) + 1 ELSE cur)
      /\ B = (IF cur = Null \/ pos \in needs THEN OpenBlocks ELSE bbs)
      /\ p = (IF cur = Null \/ pos \in needs THEN OpenPtr ELSE ptr)
  OBVIOUS
<1>8. /\ cur' = b
      /\ \/ /\ ins.kind \in Terminators
            /\ bbs' = [[B EXCEPT ![b].code = @ \cup {pos}, ![b].cfs = CfsOf(ins, pos)] EXCEPT ![b].end = pos]
            /\ ptr' = SetEnd(p, b, B[b].start, pos)
            /\ phase' = "cf" /\ cfi' = 1 /\ pos' = pos
         \/ /\ ins.kind \notin Terminators
            /\ bbs' = [B EXCEPT ![b].code = @ \cup {pos}, ![b].cfs = CfsOf(ins, pos)]
            /\ ptr' = p
            /\ phase' = phase /\ cfi' = cfi /\ pos' = pos + 1
      /\ UNCHANGED <<prog, req, needs, entry, todo, ijumps, found>>
  BY <1>7, ScanInstrSteps
<1>9. /\ WfBlock(y, Len(B)) /\ y.start = B[b].start /\ y.end = B[b].end
      /\ y.code = B[b].code \cup {pos} /\ y.cfs = CfsOf(ins, pos)
  <2> DEFINE x == WithCode(B[b], B[b].code \cup {pos})
             cfs == CfsOf(ins, pos)
  <2>1. /\ WfBlock(x, Len(B)) /\ x.start = B[b].start /\ x.end = B[b].end
        /\ x.code = B[b].code \cup {pos}
    BY <1>3, FieldsWf, FieldsSame
  <2>2. y = WithCfs(x, cfs) /\ WfCfs(cfs, Len(B))
    BY <1>4
  <2> HIDE DEF x, y, cfs, ins
  <2>3. WfBlock(WithCfs(x, cfs), Len(B))
    BY <2>1, <2>2, FieldsWf
  <2>4. \A c \in {WithCfs(x, cfs)} : c.start = x.start /\ c.end = x.end /\ c.code = x.code /\ c.cfs = cfs
    BY <2>1, FieldsSame
  <2> QED
    BY <2>1, <2>2, <2>3, <2>4 DEF cfs
<1>10. /\ WfBlock(z, Len(B)) /\ z.start = B[b].start /\ z.end = pos
       /\ z.code = B[b].code \cup {pos} /\ z.cfs = CfsOf(ins, pos)
  <2> HIDE DEF y, ins
  <2>1. WfBlock(z, Len(B))
    BY <1>1, <1>9, FieldsWf
  <2>2. z.start = y.start /\ z.end = pos /\ z.code = y.code /\ z.cfs = y.cfs
    BY <1>9, FieldsSame
  <2> QED
    BY <1>9, <2>1, <2>2
<1>11. PICK w : w = IF ins.kind \in Terminators THEN z ELSE y
  OBVIOUS
<1> HIDE DEF y, z
<1>12. bbs' = Put(B, b, w) /\ WfBlock(w, Len(B))
  <2> HIDE DEF ins
  <2> QED
    BY <1>5, <1>6, <1>8, <1>9, <1>10, <1>11
<1>13. /\ w.start = B[b].start /\ w.code = B[b].code \cup {pos} /\ w.cfs = CfsOf(ins, pos)
       /\ w.end = IF ins.kind \in Terminators THEN pos ELSE B[b].end
  <2> HIDE DEF ins
  <2> QED
    BY <1>9, <1>10, <1>11
<1>14. /\ Len(bbs') = Len(B)
       /\ \A c \in 1..Len(B) : bbs'[c] = IF c = b THEN w ELSE B[c]
  BY <1>2, <1>12, PutWf
<1> QED
  BY <1>1, <1>2, <1>8, <1>13, <1>14 DEF CodeWith

(* The operations of an instruction name its slot, and only instructions   *)
(* that change the control flow have any.                                  *)
LEMMA CfsOfSites ==
  ASSUME NEW ins \in Instr, NEW i \in Slots
  PROVE  /\ ins.kind \in Terminators => \A k \in DOMAIN CfsOf(ins, i) : CfsOf(ins, i)[k].instr = i
         /\ ins.kind \notin Terminators => CfsOf(ins, i) = <<>>
<1>1. ins.kind \notin Terminators => CfsOf(ins, i) = <<>>
  BY DEF Instr, HasTarget, Terminators, CfsOf
<1>2. \A type, jump : Cf(type, i, jump, Null).instr = i
  BY DEF Cf
<1>3. ASSUME ins.kind \in Terminators, NEW k \in DOMAIN CfsOf(ins, i)
      PROVE  CfsOf(ins, i)[k].instr = i
  <2> HIDE DEF Cf
  <2>1. \A cf : DOMAIN <<cf>> = {1} /\ <<cf>>[1] = cf
    OBVIOUS
  <2>2. \A cf, cg : DOMAIN <<cf, cg>> = {1, 2} /\ <<cf, cg>>[1] = cf /\ <<cf, cg>>[2] = cg
    OBVIOUS
  <2>3. CASE ins.kind \in {"beq", "bne"}
    BY <1>2, <1>3, <2>2, <2>3 DEF CfsOf
  <2>4. CASE ins.kind \notin {"beq", "bne"}
    BY <1>2, <1>3, <2>1, <2>4 DEF CfsOf, Terminators
  <2> QED
    BY <2>3, <2>4
<1> QED
  BY <1>1, <1>3

(* Pointers are only added, and a slot that becomes lifted has one or does *)
(* not follow a change of the control flow.                                *)
LEMMA StartsBehindKept ==
  ASSUME StartsBehind, prog' = prog,
         \A a \in Slots : ptr[a] # Null => ptr'[a] # Null,
         \A a \in Slots : Lifted(a)' /\ ~Lifted(a) =>
           ptr'[a] # Null \/ a - 1 \notin Slots \/ prog[a - 1].kind \notin Terminators
  PROVE  StartsBehind'
<1> SUFFICES ASSUME NEW a \in Slots, prog[a].kind \in Terminators, Lifted(a + 1)'
             PROVE  ptr'[a + 1] # Null
  BY DEF StartsBehind
<1>1. a + 1 \in Slots /\ (a + 1) - 1 = a
  BY DEF Lifted, IsInstr, Slots
<1> HIDE DEF Lifted
<1>2. CASE Lifted(a + 1)
  BY <1>1, <1>2 DEF StartsBehind
<1>3. CASE ~Lifted(a + 1)
  BY <1>1, <1>3
<1> QED
  BY <1>2, <1>3

LEMMA ScanInstrPointers ==
  ASSUME Inv, Pointers, Disjoint(bbs), ScanInstr
  PROVE  Pointers'
<1>1. /\ pos \in Slots /\ pos \in 1..N /\ pos \in 0..N /\ phase = "scan" /\ pos <= N
      /\ prog[pos] \in Instr /\ IsInstr(pos) /\ Len(bbs) \in Nat /\ Len(bbs) >= 1
      /\ \A a \in Slots : a \in Int
  BY NAssumption, InstrAssumption
  DEF Inv, Typed, Control, ScanInstr, Slots, IsInstr, WfBlocks, IsSeq, Dummy
<1>2. PICK opens : opens <=> cur = Null \/ pos \in needs
  OBVIOUS
<1>3. PICK b : b = IF opens THEN Len(bbs) + 1 ELSE cur
  OBVIOUS
<1>4. PICK B : B = IF opens THEN OpenBlocks ELSE bbs
  OBVIOUS
<1>5. PICK p : p = IF opens THEN OpenPtr ELSE ptr
  OBVIOUS
<1>6. /\ Mapped(B, p, pos)
      /\ B[b].end = 0 /\ B[b].start \in 1..pos /\ B[b].code = B[b].start..(pos - 1)
      /\ p[pos] \in {Null, b}
      /\ cur = Null => p[pos] = b
      /\ \A a \in Slots : ptr[a] # Null => p[a] # Null
      /\ Disjoint(B)
      /\ Sited(B)
      /\ B[Dummy].start = 0
  BY <1>1, <1>2, <1>3, <1>4, <1>5, TargetOpen
<1>7. /\ WfBlocks(B) /\ Len(B) \in Nat /\ b \in 1..Len(B) /\ Len(B) >= 1
      /\ \A c \in 1..Len(B) : \A i \in B[c].code : i <= pos - 1
      /\ p \in [Slots -> 0..Len(B)]
  <2>1. /\ WfBlocks(B) /\ Len(B) \in Nat /\ b \in 1..Len(B)
        /\ Len(B) = IF opens THEN Len(bbs) + 1 ELSE Len(bbs)
        /\ \A c \in 1..Len(B) : \A i \in B[c].code : i <= pos - 1
        /\ p \in [Slots -> 0..Len(B)]
    BY <1>1, <1>2, <1>3, <1>4, <1>5, TargetBlock
  <2> QED
    BY <1>1, <2>1
<1>8. /\ Len(bbs') = Len(B)
      /\ \A c \in 1..Len(B) :
           /\ bbs'[c].start = B[c].start
           /\ bbs'[c].code = CodeWith(B, b, pos, c)
           /\ c # b => bbs'[c].cfs = B[c].cfs /\ bbs'[c].end = B[c].end
      /\ bbs'[b].cfs = CfsOf(prog[pos], pos)
      /\ cur' = b /\ prog' = prog
      /\ \/ /\ prog[pos].kind \in Terminators
            /\ bbs'[b].end = pos
            /\ ptr' = SetEnd(p, b, B[b].start, pos)
            /\ phase' = "cf" /\ pos' = pos
         \/ /\ prog[pos].kind \notin Terminators
            /\ bbs'[b].end = B[b].end
            /\ ptr' = p
            /\ phase' = "scan" /\ pos' = pos + 1
  BY <1>1, <1>2, <1>3, <1>4, <1>5, ScanInstrFields
<1>19. /\ \/ phase' = "cf" /\ pos' = pos
          \/ phase' = "scan" /\ pos' = pos + 1
       /\ cur' = b /\ prog' = prog
       /\ bbs'[b].start = B[b].start /\ bbs'[b].code = B[b].code \cup {pos}
       /\ bbs'[b].cfs = CfsOf(prog[pos], pos)
  BY <1>7, <1>8 DEF CodeWith
<1>9. \A c \in 1..Len(B) : pos \notin B[c].code
  BY <1>1, <1>7
<1> HIDE DEF IsInstr
<1>10. PICK C : /\ WfBlocks(C) /\ Len(C) = Len(B)
                /\ \A c \in 1..Len(B) : /\ C[c].start = B[c].start /\ C[c].end = B[c].end
                                        /\ C[c].code = CodeWith(B, b, pos, c)
  <2> DEFINE x == WithCode(B[b], B[b].code \cup {pos})
             D == Put(B, b, x)
  <2>1. WfBlock(B[b], Len(B)) /\ B[b].code \cup {pos} \in SUBSET Slots
    BY <1>1, <1>7 DEF WfBlocks, WfBlock
  <2>2. /\ WfBlock(x, Len(B)) /\ x.start = B[b].start /\ x.end = B[b].end
        /\ x.code = B[b].code \cup {pos}
    BY <2>1, FieldsWf, FieldsSame
  <2> HIDE DEF x
  <2>3. /\ WfBlocks(D) /\ Len(D) = Len(B)
        /\ \A c \in 1..Len(B) : D[c] = IF c = b THEN x ELSE B[c]
    BY <1>7, <2>2, PutWf
  <2> HIDE DEF D
  <2>4. /\ WfBlocks(D) /\ Len(D) = Len(B)
        /\ \A c \in 1..Len(B) : /\ D[c].start = B[c].start /\ D[c].end = B[c].end
                                /\ D[c].code = CodeWith(B, b, pos, c)
    BY <1>7, <2>2, <2>3 DEF CodeWith
  <2> QED
    BY <2>4
<1>11. Mapped(C, p, 0) /\ Disjoint(C) /\ C[b].code = C[b].start..pos
  <2>1. Mapped(C, p, 0)
    BY <1>1, <1>6, <1>7, <1>9, <1>10, LiftMapped
  <2>2. Disjoint(C)
    BY <1>1, <1>6, <1>7, <1>9, <1>10, LiftMapped
  <2>3. C[b].code = C[b].start..pos
    <3>1. C[b].start = B[b].start /\ C[b].code = B[b].code \cup {pos}
      BY <1>7, <1>10 DEF CodeWith
    <3>2. B[b].start \in Int /\ pos \in Int /\ B[b].start <= pos
      BY <1>1, <1>6
    <3> QED
      BY <1>6, <3>1, <3>2, RunGrows
  <2> QED
    BY <2>1, <2>2, <2>3
<1>12. /\ Mapped(bbs', ptr', 0)
       /\ \A a \in Slots : p[a] # Null => ptr'[a] # Null
       /\ p[pos] = b => ptr'[pos] # Null
  <2>1. CASE prog[pos].kind \in Terminators
    <3>0. C[b].start = B[b].start /\ C[b].end = B[b].end
      BY <1>7, <1>10
    <3>6. /\ C[b].start \in Slots /\ 0 \notin C[b].start..pos
      BY <1>1, <1>6, <3>0, NAssumption DEF Slots
    <3>7. ptr' = SetEnd(p, b, B[b].start, pos) /\ bbs'[b].end = pos
      BY <1>8, <2>1
    <3>1. /\ ptr' = SetEnd(p, b, C[b].start, pos) /\ bbs'[b].end = pos
          /\ C[b].end = 0 /\ C[b].start \in Slots /\ 0 \notin C[b].code /\ Len(bbs') = Len(C)
          /\ b \in 1..Len(C) /\ p \in [Slots -> 0..Len(C)]
      BY <1>6, <1>7, <1>8, <1>10, <1>11, <3>0, <3>6, <3>7
    <3>2. \A c \in 1..Len(C) : /\ bbs'[c].start = C[c].start /\ bbs'[c].code = C[c].code
                               /\ bbs'[c].end = EndWith(C, b, pos, c)
      BY <1>7, <1>8, <1>10, <3>1 DEF EndWith
    <3>3. Mapped(bbs', ptr', 0)
      BY <1>1, <1>10, <1>11, <3>1, <3>2, CloseMapped
    <3>4. b # Null
      BY <1>7 DEF Null
    <3>5. \A a \in Slots : p[a] # Null => ptr'[a] # Null
      BY <3>1, <3>4 DEF SetEnd
    <3> QED
      BY <1>1, <3>3, <3>4, <3>5
  <2>2. CASE prog[pos].kind \notin Terminators
    <3>1. ptr' = p /\ bbs'[b].end = B[b].end
      BY <1>8, <2>2
    <3>2. \A c \in 1..Len(B) : /\ bbs'[c].start = B[c].start /\ bbs'[c].end = B[c].end
                               /\ bbs'[c].code = CodeWith(B, b, pos, c)
      BY <1>7, <1>8, <3>1
    <3>3. Mapped(bbs', p, 0)
      BY <1>1, <1>6, <1>7, <1>8, <1>9, <3>2, LiftMapped
    <3>4. b # Null
      BY <1>7 DEF Null
    <3> QED
      BY <3>1, <3>3, <3>4
  <2> QED
    BY <2>1, <2>2
<1>13. StartsBehind'
  <2>1. \A a \in Slots : ptr[a] # Null => ptr'[a] # Null
    BY <1>6, <1>12
  <2>2. ASSUME NEW a \in Slots, Lifted(a)', ~Lifted(a)
        PROVE  ptr'[a] # Null \/ a - 1 \notin Slots \/ prog[a - 1].kind \notin Terminators
    <3>1. IsInstr(a)' <=> IsInstr(a)
      BY <1>8 DEF IsInstr
    <3>5. IsInstr(a) /\ (a < pos' \/ (a = pos' /\ phase' # "scan"))
      BY <2>2, <3>1 DEF Lifted
    <3>6. ~(a < pos)
      BY <2>2, <3>5 DEF Lifted
    <3>2. a = pos
      BY <1>1, <1>19, <3>5, <3>6
    <3>3. CASE cur = Null
      BY <1>6, <1>12, <3>2, <3>3
    <3>4. CASE cur # Null
      BY <1>1, <3>2, <3>4 DEF Pointers, OpenBlock
    <3> QED
      BY <3>3, <3>4
  <2>3. StartsBehind
    BY DEF Pointers
  <2> HIDE DEF Lifted
  <2> QED
    BY <1>8, <2>1, <2>2, <2>3, StartsBehindKept
<1>14. Sited(bbs)'
  <2>1. ASSUME NEW c \in 1..Len(B)
        PROVE  Sites(bbs'[c].cfs)
    <3>1. CASE c # b
      BY <1>6, <1>8, <2>1, <3>1 DEF Sited
    <3>2. CASE c = b /\ prog[pos].kind \in Terminators
      <4>1. \A k \in DOMAIN CfsOf(prog[pos], pos) : CfsOf(prog[pos], pos)[k].instr = pos
        BY <1>1, <3>2, CfsOfSites
      <4> QED
        BY <1>1, <1>8, <3>2, <4>1 DEF Sites, Site
    <3>3. CASE c = b /\ prog[pos].kind \notin Terminators
      <4>1. bbs'[c].cfs = <<>>
        BY <1>1, <1>8, <3>3, CfsOfSites
      <4> QED
        BY <4>1 DEF Sites
    <3> QED
      BY <3>1, <3>2, <3>3
  <2> QED
    BY <1>8, <2>1 DEF Sited, Sites, Site
<1>15. OpenBlock'
  <2>1. CASE prog[pos].kind \in Terminators
    BY <1>8, <2>1 DEF OpenBlock
  <2>2. CASE prog[pos].kind \notin Terminators
    <3>1. /\ cur' = b /\ pos' = pos + 1 /\ pos' - 1 = pos
          /\ bbs'[b].end = 0 /\ bbs'[b].start \in 1..pos
          /\ bbs'[b].code = B[b].code \cup {pos} /\ bbs'[b].cfs = CfsOf(prog[pos], pos)
      BY <1>1, <1>6, <1>8, <1>19, <2>2
    <3>2. bbs'[b].code = bbs'[b].start..pos
      BY <1>7, <1>8, <1>10, <1>11, <3>1
    <3>3. bbs'[b].cfs = <<>>
      BY <1>1, <2>2, <3>1, CfsOfSites
    <3> QED
      BY <1>8, <2>2, <3>1, <3>2, <3>3 DEF OpenBlock
  <2> QED
    BY <2>1, <2>2
<1>16. CutsInside'
  BY <1>8 DEF CutsInside
<1>17. bbs'[Dummy].start = 0
  BY <1>6, <1>7, <1>8 DEF Dummy
<1>18. Mapped(bbs, ptr, 0)'
  BY <1>8, <1>12 DEF Mapped, OwnCode, IsInstr
<1> QED
  BY <1>13, <1>14, <1>15, <1>16, <1>17, <1>18 DEF Pointers

LEMMA AppendSites ==
  ASSUME NEW n, NEW cfs, WfCfs(cfs, n), Sites(cfs), NEW cf, Site(cf)
  PROVE  Sites(Append(cfs, cf))
<1>1. IsSeq(cfs) /\ DOMAIN cfs = 1..Len(cfs) /\ Len(cfs) \in Nat
  BY DEF WfCfs, IsSeq
<1>2. \A k \in 1..(Len(cfs) + 1) : k \in 1..Len(cfs) \/ k = Len(cfs) + 1
  BY <1>1
<1> HIDE DEF Site
<1> QED
  BY <1>1, <1>2, AppendIsSeq DEF Sites

(* Undecodable bytes end a block. *)
LEMMA UnreachableSited ==
  ASSUME NEW B, WfBlocks(B), Sited(B), NEW b \in 1..Len(B), NEW i \in 0..N
  PROVE  Sited(Unreachable(B, b, i))
<1> DEFINE C == Unreachable(B, b, i)
           cf == Cf("unreachable", i, 0, Null)
<1>1. /\ Len(C) = Len(B)
      /\ \A c \in 1..Len(B) : C[c].cfs = IF c = b THEN Append(B[b].cfs, cf) ELSE B[c].cfs
  BY UnreachableSame DEF SameExtent
<1>2. Site(cf)
  BY DEF Site, Cf
<1>3. WfCfs(B[b].cfs, Len(B)) /\ Sites(B[b].cfs)
  BY DEF WfBlocks, WfBlock, Sited
<1> HIDE DEF C, cf, Site
<1>4. Sites(Append(B[b].cfs, cf))
  BY <1>2, <1>3, AppendSites
<1>5. \A c \in 1..Len(C) : Sites(C[c].cfs)
  BY <1>1, <1>4 DEF Sited
<1> QED
  BY <1>5 DEF Sited, C

(* Slot pos is passed; nothing is lifted from it. *)
LEMMA PassedPointers ==
  ASSUME Inv, Pointers, phase = "scan", pos <= N, ~IsInstr(pos),
         cur' = Null, pos' = pos + 1, phase' = "scan", prog' = prog,
         NEW B, WfBlocks(B), Mapped(B, ptr', 0), Sited(B), B[Dummy].start = 0, Len(B) >= 1,
         ptr' \in [Slots -> 0..Len(B)],
         \A a \in Slots : ptr[a] # Null => ptr'[a] # Null,
         \/ bbs' = B
         \/ \E b \in 1..Len(B) : bbs' = Unreachable(B, b, pos)
  PROVE  Pointers'
<1>1. /\ SameExtent(B, bbs') /\ Sited(bbs') /\ Len(B) \in Nat
  <2>1. pos \in 0..N
    BY NAssumption DEF Inv, Typed
  <2>2. Len(B) \in Nat
    BY DEF WfBlocks, IsSeq
  <2>3. CASE bbs' = B
    BY <2>2, <2>3, ExtendsReflexive DEF SameExtent
  <2>4. CASE \E b \in 1..Len(B) : bbs' = Unreachable(B, b, pos)
    <3>1. PICK b \in 1..Len(B) : bbs' = Unreachable(B, b, pos)
      BY <2>4
    <3> HIDE DEF Sited
    <3> QED
      BY <2>1, <2>2, <3>1, UnreachableSame, UnreachableSited
  <2> QED
    BY <2>3, <2>4
<1>2. Mapped(bbs', ptr', 0)
  <2>1. \A b \in (Len(B) + 1)..Len(bbs') : bbs'[b].start = 0 /\ bbs'[b].end = 0
    BY <1>1 DEF SameExtent
  <2> HIDE DEF Mapped
  <2> QED
    BY <1>1, <2>1, SameMapped DEF SameExtent
<1>3. Mapped(bbs, ptr, 0)'
  BY <1>2 DEF Mapped, OwnCode, IsInstr
<1>4. Sited(bbs)'
  BY <1>1 DEF Sited, Sites, Site
<1>5. StartsBehind'
  <2>1. \A a \in Slots : Lifted(a)' => Lifted(a)
    <3>1. pos \in Int /\ \A a \in Slots : a \in Int /\ (IsInstr(a)' <=> IsInstr(a))
      BY DEF Inv, Typed, IsInstr, Slots
    <3> HIDE DEF IsInstr
    <3>2. \A a \in Slots : Lifted(a)' => IsInstr(a) /\ a < pos + 1
      BY <3>1 DEF Lifted
    <3>3. \A a \in Slots : IsInstr(a) /\ a < pos + 1 => a < pos
      BY <3>1
    <3> QED
      BY <3>2, <3>3 DEF Lifted
  <2>2. StartsBehind
    BY DEF Pointers
  <2> HIDE DEF Lifted
  <2> QED
    BY <2>1, <2>2, StartsBehindKept
<1>6. OpenBlock' /\ CutsInside'
  BY DEF OpenBlock, CutsInside
<1>7. bbs'[Dummy].start = 0
  BY <1>1 DEF SameExtent, Extends, Dummy
<1> QED
  BY <1>3, <1>4, <1>5, <1>6, <1>7 DEF Pointers

LEMMA ScanDataPointers ==
  ASSUME Inv, Pointers, Disjoint(bbs), ScanData
  PROVE  Pointers'
<1>1. /\ WfBlocks(bbs) /\ Len(bbs) \in Nat /\ Len(bbs) >= 1 /\ pos <= N /\ phase = "scan"
      /\ cur \in 0..Len(bbs) /\ ptr \in [Slots -> 0..Len(bbs)] /\ ~IsInstr(pos)
      /\ cur' = Null /\ pos' = pos + 1 /\ phase' = "scan" /\ prog' = prog /\ ptr' = ptr
  BY DEF Inv, Typed, Control, WfBlocks, IsSeq, ScanData, IsInstr, Dummy
<1>2. bbs' = bbs \/ \E b \in 1..Len(bbs) : bbs' = Unreachable(bbs, b, pos)
  <2>1. CASE cur = Null
    BY <2>1 DEF ScanData
  <2>2. CASE cur # Null
    <3>1. cur \in 1..Len(bbs) /\ bbs' = Unreachable(bbs, cur, pos)
      BY <1>1, <2>2 DEF ScanData, Null
    <3> QED
      BY <3>1
  <2> QED
    BY <2>1, <2>2
<1>3. Mapped(bbs, ptr', 0) /\ Sited(bbs) /\ bbs[Dummy].start = 0
  BY <1>1 DEF Pointers
<1> HIDE DEF IsInstr, Mapped, Sited
<1> QED
  BY <1>1, <1>2, <1>3, PassedPointers

LEMMA ScanInvalidPointers ==
  ASSUME Inv, Pointers, Disjoint(bbs), ScanInvalid
  PROVE  Pointers'
<1>1. /\ WfBlocks(bbs) /\ Len(bbs) \in Nat /\ Len(bbs) >= 1 /\ pos <= N /\ phase = "scan"
      /\ cur \in 0..Len(bbs) /\ ptr \in [Slots -> 0..Len(bbs)] /\ ~IsInstr(pos)
      /\ cur' = Null /\ pos' = pos + 1 /\ phase' = "scan" /\ prog' = prog
  BY DEF Inv, Typed, Control, WfBlocks, IsSeq, ScanInvalid, IsInstr, Dummy
<1>2. CASE cur # Null /\ pos \in needs
  <2>1. bbs' = Unreachable(OpenBlocks, Len(bbs) + 1, pos) /\ ptr' = OpenPtr
    BY <1>2 DEF ScanInvalid
  <2>2. Mapped(OpenBlocks, OpenPtr, 0)
    BY <1>1, OpenMapped
  <2>3. WfBlocks(OpenBlocks) /\ Len(OpenBlocks) = Len(bbs) + 1
    BY <1>1, OpenWf
  <2>4. PICK opens : opens <=> cur = Null \/ pos \in needs
    OBVIOUS
  <2>5. PICK b : b = IF opens THEN Len(bbs) + 1 ELSE cur
    OBVIOUS
  <2>6. PICK B : B = IF opens THEN OpenBlocks ELSE bbs
    OBVIOUS
  <2>7. PICK p : p = IF opens THEN OpenPtr ELSE ptr
    OBVIOUS
  <2>8. Sited(B) /\ B[Dummy].start = 0 /\ \A a \in Slots : ptr[a] # Null => p[a] # Null
    BY <1>1, <2>4, <2>5, <2>6, <2>7, TargetOpen
  <2>9. B = OpenBlocks /\ p = OpenPtr
    BY <1>2, <2>4, <2>6, <2>7
  <2>10. OpenPtr \in [Slots -> 0..(Len(bbs) + 1)]
    BY <1>1, OpenPtrTyped
  <2>11. Len(OpenBlocks) >= 1 /\ Len(bbs) + 1 \in 1..Len(OpenBlocks)
    BY <1>1, <2>3
  <2> HIDE DEF IsInstr, Mapped, Sited
  <2>12. /\ WfBlocks(OpenBlocks) /\ Mapped(OpenBlocks, ptr', 0) /\ Sited(OpenBlocks)
         /\ OpenBlocks[Dummy].start = 0 /\ Len(OpenBlocks) >= 1
         /\ ptr' \in [Slots -> 0..Len(OpenBlocks)]
         /\ \A a \in Slots : ptr[a] # Null => ptr'[a] # Null
         /\ \E c \in 1..Len(OpenBlocks) : bbs' = Unreachable(OpenBlocks, c, pos)
    BY <2>1, <2>2, <2>3, <2>8, <2>9, <2>10, <2>11
  <2> QED
    BY <1>1, <2>12, PassedPointers
<1>3. CASE ~(cur # Null /\ pos \in needs)
  <2>1. ptr' = ptr
    BY <1>3 DEF ScanInvalid
  <2>2. bbs' = bbs \/ \E b \in 1..Len(bbs) : bbs' = Unreachable(bbs, b, pos)
    <3>1. CASE cur = Null
      BY <1>3, <3>1 DEF ScanInvalid
    <3>2. CASE cur # Null
      <4>1. cur \in 1..Len(bbs) /\ bbs' = Unreachable(bbs, cur, pos)
        BY <1>1, <1>3, <3>2 DEF ScanInvalid, Null
      <4> QED
        BY <4>1
    <3> QED
      BY <3>1, <3>2
  <2>3. Mapped(bbs, ptr', 0) /\ Sited(bbs) /\ bbs[Dummy].start = 0
    BY <2>1 DEF Pointers
  <2> HIDE DEF IsInstr, Mapped, Sited
  <2> QED
    BY <1>1, <2>1, <2>2, <2>3, PassedPointers
<1> QED
  BY <1>2, <1>3

(* Steps that leave blocks and pointers alone. *)
LEMMA SamePointers ==
  ASSUME Inv, Pointers, UNCHANGED <<prog, pos, bbs, ptr>>,
         phase' = "scan" => phase = "scan" /\ cur' = cur,
         phase' = "split" => phase = "split" /\ req' = req,
         phase = "scan" => phase' = "scan" \/ pos > N
  PROVE  Pointers'
<1>1. Mapped(bbs, ptr, 0)'
  BY DEF Pointers, Mapped, OwnCode, IsInstr
<1>2. Sited(bbs)' /\ bbs'[Dummy].start = 0
  BY DEF Pointers, Sited, Sites, Site
<1>3. OpenBlock'
  BY DEF Pointers, OpenBlock
<1>4. CutsInside'
  BY DEF Pointers, CutsInside
<1>5. StartsBehind'
  <2>1. pos \in Int /\ N \in Nat /\ \A a \in Slots : a \in 1..N /\ (IsInstr(a)' <=> IsInstr(a))
    BY NAssumption DEF Inv, Typed, IsInstr, Slots
  <2> HIDE DEF IsInstr
  <2>2. \A a \in Slots : Lifted(a)' => Lifted(a)
    BY <2>1 DEF Lifted
  <2>3. StartsBehind
    BY DEF Pointers
  <2> HIDE DEF Lifted
  <2> QED
    BY <2>2, <2>3, StartsBehindKept
<1> QED
  BY <1>1, <1>2, <1>3, <1>4, <1>5 DEF Pointers

-----------------------------------------------------------------------------
(* The loop over the operations of the block that has ended.               *)

LEMMA CfsButSited ==
  ASSUME NEW B, Sited(B), NEW b \in 1..Len(B), NEW k, NEW cf, k \in DOMAIN B[b].cfs => Site(cf),
         NEW C, Len(C) = Len(B), \A c \in 1..Len(B) : C[c].cfs = CfsBut(B, b, k, cf, c)
  PROVE  Sited(C)
<1> HIDE DEF Site
<1>1. Sites([B[b].cfs EXCEPT ![k] = cf])
  BY DEF Sited, Sites
<1>2. \A c \in 1..Len(B) : Sites(C[c].cfs)
  BY <1>1 DEF CfsBut, Sited
<1> QED
  BY <1>2 DEF Sited

LEMMA ResolvedPointers ==
  ASSUME Inv, Pointers, phase = "cf", SameExtent(bbs, bbs'), Sited(bbs'),
         UNCHANGED <<prog, ptr>>,
         \/ NextCf(cur)
         \/ /\ phase' = "split" /\ pos' = pos
            /\ req'.addr \in Slots /\ ptr[req'.addr] = req'.bb /\ req'.bb \in 1..Len(bbs)
            /\ bbs[req'.bb].start # req'.addr
  PROVE  Pointers'
<1>1. /\ WfBlocks(bbs) /\ Len(bbs) \in Nat /\ Len(bbs) >= 1 /\ pos \in Int
      /\ ptr \in [Slots -> 0..Len(bbs)]
      /\ WfBlocks(bbs') /\ Len(bbs') = Len(bbs) /\ Extends(bbs, bbs')
      /\ \A b \in 1..Len(bbs) : bbs'[b].start = bbs[b].start
  BY DEF Inv, Typed, Control, WfBlocks, IsSeq, Dummy, SameExtent, Extends
<1>2. \/ phase' = "scan" /\ cur' = Null /\ pos' = pos + 1
      \/ phase' = "cf" /\ pos' = pos
      \/ /\ phase' = "split" /\ pos' = pos
         /\ req'.addr \in Slots /\ ptr[req'.addr] = req'.bb /\ req'.bb \in 1..Len(bbs)
         /\ bbs[req'.bb].start # req'.addr
  BY DEF NextCf
<1>3. Mapped(bbs, ptr, 0)'
  <2>1. \A b \in (Len(bbs) + 1)..Len(bbs') : bbs'[b].start = 0 /\ bbs'[b].end = 0
    BY <1>1
  <2>2. Mapped(bbs, ptr, 0)
    BY DEF Pointers
  <2>3. Mapped(bbs', ptr, 0)
    <3> HIDE DEF Mapped
    <3> QED
      BY <1>1, <2>1, <2>2, SameMapped
  <2> QED
    BY <2>3 DEF Mapped, OwnCode, IsInstr
<1>4. Sited(bbs)'
  BY DEF Sited, Sites, Site
<1>5. StartsBehind'
  <2>1. \A a \in Slots : a \in Int /\ (IsInstr(a)' <=> IsInstr(a))
    BY DEF IsInstr, Slots
  <2> HIDE DEF IsInstr
  <2>2. \A a \in Slots : Lifted(a)' => IsInstr(a) /\ a <= pos
    BY <1>1, <1>2, <2>1 DEF Lifted
  <2>3. \A a \in Slots : IsInstr(a) /\ a <= pos => Lifted(a)
    BY <1>1, <2>1 DEF Lifted
  <2>4. StartsBehind
    BY DEF Pointers
  <2> HIDE DEF Lifted
  <2> QED
    BY <2>2, <2>3, <2>4, StartsBehindKept
<1>6. OpenBlock'
  BY <1>2 DEF OpenBlock
<1>7. CutsInside'
  BY <1>1, <1>2 DEF CutsInside
<1>8. bbs'[Dummy].start = 0
  BY <1>1 DEF Pointers, Dummy
<1> QED
  BY <1>3, <1>4, <1>5, <1>6, <1>7, <1>8 DEF Pointers

LEMMA ResolvePointers ==
  ASSUME Inv, Pointers, Resolve
  PROVE  Pointers'
<1>1. /\ WfBlocks(bbs) /\ Len(bbs) \in Nat /\ phase = "cf"
      /\ cur \in 1..Len(bbs) /\ UNCHANGED <<prog, ptr>> /\ Sited(bbs)
  BY DEF Inv, Typed, Control, Lifting, WfBlocks, IsSeq, Null, Pointers,
         Resolve, ResolveReturn, ResolveUnknown, ResolveLink, ResolveSplit
<1>2. SameExtent(bbs, bbs)
  BY <1>1, ExtendsReflexive DEF SameExtent
<1>3. cfi \in DOMAIN bbs[cur].cfs => Site(bbs[cur].cfs[cfi]) /\ WfCf(bbs[cur].cfs[cfi], Len(bbs))
  BY <1>1 DEF Sited, Sites, WfBlocks, WfBlock, WfCfs
<1>4. CASE ResolveReturn
  BY <1>1, <1>2, <1>4, ResolvedPointers DEF ResolveReturn
<1>5. CASE ResolveUnknown
  <2>1. SameExtent(bbs, bbs') /\ Sited(bbs')
    <3>1. CASE TableEntries = {}
      BY <1>1, <1>2, <1>5, <3>1 DEF ResolveUnknown
    <3>2. CASE TableEntries # {}
      <4> DEFINE cf == [bbs[cur].cfs[cfi] EXCEPT !.addrs = TableEntries, !.jump = prog[pos].t]
      <4>1. prog[pos].t \in 0..(N + 1) /\ TableEntries \subseteq Slots
        <5>1. pos \in Slots
          <6>1. pos \in 1..(N + 1) /\ pos <= N /\ N \in Nat
            BY <1>1, NAssumption DEF Inv, Typed, Control, Lifting
          <6> QED
            BY <6>1 DEF Slots
        <5>2. prog[pos] \in Instr
          BY <5>1, InstrAssumption DEF Inv, Typed
        <5> QED
          BY <5>2, NAssumption DEF Instr, Targets, TableEntries
      <4>2. cfi \in DOMAIN bbs[cur].cfs => WfCf(cf, Len(bbs))
        BY <1>1, <1>3, <4>1, CfFieldsWf
      <4>3. cfi \in DOMAIN bbs[cur].cfs => Site(cf)
        BY <1>3 DEF Site, WfCf, CfFields
      <4>4. bbs' = PutCf(bbs, cur, cfi, cf)
        BY <1>5, <3>2 DEF ResolveUnknown, PutCf, Put, WithCfs
      <4> HIDE DEF cf, Site
      <4>5. SameExtent(bbs, bbs')
        BY <1>1, <4>2, <4>4, PutCfSame
      <4>6. \A c \in 1..Len(bbs) : bbs'[c].cfs = CfsBut(bbs, cur, cfi, cf, c)
        BY <1>1, <4>2, <4>4, PutCfCfs
      <4> QED
        BY <1>1, <4>3, <4>5, <4>6, CfsButSited DEF SameExtent
    <3> QED
      BY <3>1, <3>2
  <2> QED
    BY <1>1, <1>5, <2>1, ResolvedPointers DEF ResolveUnknown
<1>6. ASSUME BlockAt(CurCf.jump) # Null
      PROVE  SameExtent(bbs, Linked) /\ Sited(Linked)
  <2> DEFINE cf == [CurCf EXCEPT !.target = BlockAt(CurCf.jump)]
  <2>1. cfi \in DOMAIN bbs[cur].cfs => Site(cf)
    BY <1>3 DEF Site, WfCf, CfFields, CurCf
  <2> HIDE DEF Site
  <2>2. /\ SameExtent(bbs, Linked)
        /\ \A c \in 1..Len(bbs) : Linked[c].cfs = CfsBut(bbs, cur, cfi, cf, c)
    BY <1>1, <1>6, LinkedSame
  <2> HIDE DEF cf
  <2> QED
    BY <1>1, <2>1, <2>2, CfsButSited DEF SameExtent
<1>7. CASE ResolveLink
  BY <1>1, <1>6, <1>7, ResolvedPointers DEF ResolveLink
<1>8. CASE ResolveSplit
  <2>1. /\ req'.addr \in Slots /\ ptr[req'.addr] = req'.bb /\ req'.bb \in 1..Len(bbs)
        /\ bbs[req'.bb].start # req'.addr /\ phase' = "split" /\ pos' = pos
    BY <1>8, BlockAtLifted DEF ResolveSplit
  <2> QED
    BY <1>1, <1>6, <1>8, <2>1, ResolvedPointers DEF ResolveSplit
<1> QED
  BY <1>4, <1>5, <1>6, <1>7, <1>8 DEF Resolve

-----------------------------------------------------------------------------
(* Lifter::split_basic_block.                                              *)

(* The block that is split is a run of slots with the address inside, and  *)
(* its first half ends right in front of the address.                      *)
LEMMA SplitRun ==
  ASSUME AllYield, Inv, Disjoint(bbs), Pointers, phase = "split"
  PROVE  /\ bbs[req.bb].code = bbs[req.bb].start..bbs[req.bb].end
         /\ bbs[req.bb].start \in 1..(req.addr - 1)
         /\ req.addr \in 1..bbs[req.bb].end
         /\ bbs[req.bb].end \in Slots
         /\ FirstEnd = req.addr - 1
<1> DEFINE b == req.bb
           s == bbs[b].start
           e == bbs[b].end
           a == req.addr
<1>1. /\ a \in Slots /\ ptr[a] = b /\ s # a /\ b \in 1..Len(bbs) /\ N \in Nat
      /\ b # Null /\ a \notin {0} /\ WfBlock(bbs[b], Len(bbs))
      /\ prog \in [Slots -> Instrs]
      /\ Mapped(bbs, ptr, 0)
  <2>1. a \in Slots /\ ptr[a] = b /\ s # a /\ Mapped(bbs, ptr, 0)
    BY DEF Pointers, CutsInside
  <2>2. b \in 1..Len(bbs) /\ N \in Nat /\ WfBlock(bbs[b], Len(bbs))
    BY SplitFacts DEF WfBlocks
  <2>3. prog \in [Slots -> Instrs]
    BY DEF Inv, Typed
  <2>4. a \notin {0} /\ b # Null
    BY <2>1, <2>2 DEF Slots, Null
  <2> QED
    BY <2>1, <2>2, <2>3, <2>4
<1>2. a \in bbs[b].code
  BY <1>1 DEF Mapped, OwnCode
<1>3. e # 0
  BY <1>1 DEF Mapped, OpenAtStart
<1>4. s \in Slots /\ bbs[b].code = s..e
  BY <1>1, <1>2, <1>3 DEF Mapped, Runs
<1>5. e \in 0..N /\ s \in 1..(a - 1) /\ a \in 1..e /\ e \in Slots
  BY <1>1, <1>2, <1>3, <1>4 DEF WfBlock, Slots
<1>6. FirstEnd = a - 1
  <2> DEFINE S == {s} \cup {i \in bbs[b].code : i < a /\ Yields(i)}
  <2>1. a - 1 \in S
    <3>1. IsInstr(a) /\ a - 1 \in Slots /\ (a - 1) + 1 = a
      <4>1. IsInstr(a)
        <5> HIDE DEF IsInstr
        <5> QED
          BY <1>1, <1>2 DEF Disjoint
      <4>2. a - 1 \in Slots /\ (a - 1) + 1 = a
        <5>1. N \in Nat /\ a \in 1..N /\ s \in 1..(a - 1)
          BY <1>1, <1>5 DEF Slots
        <5> HIDE DEF a, s, S
        <5>2. a \in Int /\ 1 <= a - 1 /\ a - 1 <= N
          BY <5>1
        <5> QED
          BY <5>1, <5>2 DEF Slots
      <4> QED
        BY <4>1, <4>2
    <3>2. Yields(a - 1)
      <4> HIDE DEF IsInstr
      <4> QED
        BY <3>1 DEF AllYield
    <3> QED
      BY <1>4, <1>5, <3>2
  <2>2. \A i \in S : i \in s..(a - 1)
    BY <1>4, <1>5
  <2>3. S \in SUBSET (0..N) /\ S # {}
    BY <1>1, <1>5, <2>1, <2>2 DEF Slots
  <2>4. FirstEnd = Max(S)
    BY DEF FirstEnd
  <2> HIDE DEF S
  <2>5. Max(S) \in S /\ \A x \in S : x <= Max(S)
    BY <1>1, <2>3, NatMax DEF Max
  <2>6. Max(S) \in s..(a - 1) /\ a - 1 <= Max(S)
    BY <2>1, <2>2, <2>5
  <2> QED
    BY <1>5, <2>4, <2>6
<1> QED
  BY <1>4, <1>5, <1>6

(* The blocks C and the pointers q after block b of B, the slots s to e, is *)
(* cut at address a; block n is the second half.                           *)
Cut(B, C, p, q, b, n, s, e, a) ==
  /\ b \in 1..Len(B) /\ n = Len(B) + 1 /\ Len(C) = n
  /\ s = B[b].start /\ e = B[b].end /\ B[b].code = s..e
  /\ e \in Slots /\ a \in 1..e /\ s \in 1..(a - 1)
  /\ C[b].start = s /\ C[b].end = a - 1 /\ C[b].code = {i \in s..e : i < a}
  /\ C[n].start = a /\ C[n].end = e /\ C[n].code = {i \in s..e : i >= a}
  /\ \A c \in 1..Len(B) : c # b =>
       C[c].start = B[c].start /\ C[c].end = B[c].end /\ C[c].code = B[c].code
  /\ \A x \in Slots :
       /\ x \in s..(a - 1) => q[x] = b
       /\ x \in a..e => q[x] = n
       /\ x \notin s..e => q[x] = p[x]

(* Both halves are found in their code, every other block in its own. *)
LEMMA SplitMapped ==
  ASSUME NEW B, NEW C, NEW p, NEW q, Mapped(B, p, 0), WfBlocks(B), p \in [Slots -> 0..Len(B)],
         NEW b, NEW n, NEW s, NEW e, NEW a, Cut(B, C, p, q, b, n, s, e, a)
  PROVE  Mapped(C, q, 0)
<1> USE DEF Cut
<1>1. /\ Len(B) \in Nat /\ N \in Nat /\ e \in 1..N /\ s \in Int /\ a \in Int /\ e # 0 /\ a - 1 # 0
      /\ n # b /\ n # Null /\ b # Null /\ s \in Slots /\ a \in Slots
      /\ \A c \in 1..n : c = n \/ c = b \/ (c \in 1..Len(B) /\ c # b /\ c # n)
      /\ \A x \in Slots : p[x] # Null => p[x] \in 1..Len(B)
      /\ \A x \in Slots : x \in Int
  BY NAssumption DEF WfBlocks, IsSeq, Slots, Null
<1>2. C[b].code = s..(a - 1) /\ C[n].code = a..e
  BY <1>1
<1>3. \A x \in Slots : x \in s..(a - 1) \/ x \in a..e \/ x \notin s..e
  BY <1>1
<1>4. ASSUME NEW x \in Slots, x \notin s..e
      PROVE  p[x] # b
  <2>1. B[b].code = s..e /\ B[b].start = s /\ a <= e /\ s < a
    BY <1>1
  <2>2. OwnCode(B, p, 0)
    BY DEF Mapped
  <2> HIDE DEF IsInstr, Cut
  <2>3. x \in Slots \ {0} /\ s \in s..e
    BY <1>1, <2>1 DEF Slots
  <2>4. p[x] = b => x \in s..e \/ x = s
    BY <1>1, <2>1, <2>2, <2>3 DEF OwnCode
  <2> QED
    BY <1>4, <2>3, <2>4
<1>5. \A x \in s..e : x \in Slots /\ p[x] = b
  <2>1. FoundInCode(B, p) /\ b \in 1..Len(B) /\ B[b].code = s..e /\ B[b].end # 0
    <3>1. FoundInCode(B, p)
      BY DEF Mapped
    <3>2. b \in 1..Len(B) /\ B[b].code = s..e /\ B[b].end = e
      OBVIOUS
    <3> QED
      BY <1>1, <3>1, <3>2
  <2>2. s \in Slots /\ e \in 1..N /\ N \in Nat
    BY <1>1
  <2> HIDE DEF Cut
  <2>3. \A x \in s..e : x \in Slots
    BY <2>2 DEF Slots
  <2> QED
    BY <2>1, <2>3 DEF FoundInCode
<1>6. ASSUME NEW c \in 1..Len(B), c # b, B[c].end # 0, NEW x \in B[c].code
      PROVE  x \in Slots /\ x \notin s..e /\ p[x] = c
  <2>1. x \in Slots /\ p[x] = c
    <3>1. WfBlock(B[c], Len(B)) /\ FoundInCode(B, p)
      BY <1>6 DEF WfBlocks, Mapped
    <3> HIDE DEF Cut
    <3> QED
      BY <1>6, <3>1 DEF WfBlock, FoundInCode
  <2> QED
    BY <1>5, <1>6, <2>1
<1>7. OwnCode(C, q, 0)
  <2> SUFFICES ASSUME NEW x \in Slots, x # 0, q[x] # Null
               PROVE  x \in C[q[x]].code \/ (x = C[q[x]].start /\ ~IsInstr(x))
    BY DEF OwnCode
  <2>1. CASE x \in s..(a - 1)
    BY <1>2, <2>1
  <2>2. CASE x \in a..e
    BY <1>2, <2>2
  <2>3. CASE x \notin s..e
    <3>1. q[x] = p[x] /\ p[x] # b /\ p[x] \in 1..Len(B)
      BY <1>1, <1>4, <2>3
    <3> HIDE DEF IsInstr
    <3> QED
      BY <3>1 DEF Mapped, OwnCode
  <2> QED
    BY <1>3, <2>1, <2>2, <2>3
<1>8. OpenAtStart(C, q)
  <2> SUFFICES ASSUME NEW x \in Slots, q[x] # Null, C[q[x]].end = 0
               PROVE  x = C[q[x]].start
    BY DEF OpenAtStart
  <2>1. x \notin s..e
    BY <1>1, <1>3
  <2>2. q[x] = p[x] /\ p[x] # b /\ p[x] \in 1..Len(B)
    BY <1>1, <1>4, <2>1
  <2> QED
    BY <2>2 DEF Mapped, OpenAtStart
<1>9. FoundInCode(C, q)
  <2> SUFFICES ASSUME NEW c \in 1..n, C[c].end # 0, NEW x \in C[c].code
               PROVE  q[x] = c
    BY DEF FoundInCode
  <2>1. CASE c = n
    BY <1>1, <1>2, <1>5, <2>1
  <2>2. CASE c = b
    BY <1>1, <1>2, <1>5, <2>2
  <2>3. CASE c \in 1..Len(B) /\ c # b /\ c # n
    <3>1. x \in B[c].code /\ B[c].end # 0
      BY <2>3
    <3>2. x \in Slots /\ x \notin s..e /\ p[x] = c
      BY <1>6, <2>3, <3>1
    <3> QED
      BY <3>2
  <2> QED
    BY <1>1, <2>1, <2>2, <2>3
<1>10. Runs(C)
  <2> SUFFICES ASSUME NEW c \in 1..n, C[c].code # {}
               PROVE  C[c].start \in Slots /\ (C[c].end # 0 => C[c].code = C[c].start..C[c].end)
    BY DEF Runs
  <2>1. CASE c = n
    BY <1>1, <1>2, <2>1
  <2>2. CASE c = b
    BY <1>1, <1>2, <2>2
  <2>3. CASE c \in 1..Len(B) /\ c # b /\ c # n
    BY <2>3 DEF Mapped, Runs
  <2> QED
    BY <1>1, <2>1, <2>2, <2>3
<1>11. FoundAtStart(C, q)
  <2> SUFFICES ASSUME NEW c \in 1..n, C[c].start \in Slots
               PROVE  q[C[c].start] = c
    BY DEF FoundAtStart
  <2>1. CASE c = n
    BY <1>1, <2>1
  <2>2. CASE c = b
    <3>1. s \in s..(a - 1) /\ C[c].start = s
      BY <1>1, <2>2
    <3>2. q[s] = b
      BY <1>1, <3>1
    <3> QED
      BY <2>2, <3>1, <3>2
  <2>3. CASE c \in 1..Len(B) /\ c # b /\ c # n
    <3>1. C[c].start = B[c].start /\ p[B[c].start] = c
      BY <2>3 DEF Mapped, FoundAtStart
    <3>2. B[c].start \notin s..e
      BY <1>5, <2>3, <3>1
    <3> QED
      BY <3>1, <3>2
  <2> QED
    BY <1>1, <2>1, <2>2, <2>3
<1> QED
  BY <1>7, <1>8, <1>9, <1>10, <1>11 DEF Mapped

(* The operations stay those of the instructions they came from. *)
LEMMA SplitSites ==
  ASSUME Inv, Sited(bbs), phase = "split", NEW n, n = Len(bbs) + 1
  PROVE  /\ Sites(First(n).cfs)
         /\ Sites(Second(n).cfs)
         /\ \A t \in 1..Len(bbs) : Sites(Other(t, n).cfs)
<1>1. /\ \A t \in 1..Len(bbs) : \A k \in DOMAIN bbs[t].cfs :
             WfCf(bbs[t].cfs[k], n) /\ Site(bbs[t].cfs[k])
      /\ req.bb \in 1..Len(bbs)
  BY SplitFacts DEF Sited, Sites
<1>2. ASSUME NEW cf, WfCf(cf, n), Site(cf), NEW t
      PROVE  Site([cf EXCEPT !.target = t]) /\ Site([cf EXCEPT !.cont = t])
  BY <1>2 DEF Site, WfCf, CfFields
<1>3. Sites(First(n).cfs)
  <2>1. Site(Cf("jump", FirstEnd, req.addr, n))
    BY DEF Site, Cf
  <2>2. First(n).cfs = <<Cf("jump", FirstEnd, req.addr, n)>>
    BY FirstWf
  <2> HIDE DEF Site
  <2> QED
    BY <2>1, <2>2, SingleIsSeq DEF Sites
<1>4. Sites(Second(n).cfs)
  <2>1. Second(n).cfs = SecondCfs(n)
    BY SecondWf
  <2>2. ASSUME NEW k \in DOMAIN SecondCfs(n)
        PROVE  Site(SecondCfs(n)[k])
    <3>1. /\ k \in DOMAIN bbs[req.bb].cfs
          /\ SecondCfs(n)[k] \in {bbs[req.bb].cfs[k], [bbs[req.bb].cfs[k] EXCEPT !.target = n]}
      BY DEF SecondCfs
    <3>2. WfCf(bbs[req.bb].cfs[k], n) /\ Site(bbs[req.bb].cfs[k])
      BY <1>1, <3>1
    <3> HIDE DEF Site, WfCf
    <3>3. Site([bbs[req.bb].cfs[k] EXCEPT !.target = n])
      BY <1>2, <3>2
    <3> QED
      BY <3>1, <3>2, <3>3
  <2> QED
    BY <2>1, <2>2 DEF Sites
<1>5. ASSUME NEW t \in 1..Len(bbs)
      PROVE  Sites(Other(t, n).cfs)
  <2>1. Other(t, n).cfs = MovedCfs(t, n)
    BY OtherWf
  <2>2. ASSUME NEW k \in DOMAIN MovedCfs(t, n)
        PROVE  Site(MovedCfs(t, n)[k])
    <3>1. /\ k \in DOMAIN bbs[t].cfs
          /\ MovedCfs(t, n)[k] \in {bbs[t].cfs[k], [bbs[t].cfs[k] EXCEPT !.target = n],
                                    [bbs[t].cfs[k] EXCEPT !.cont = n]}
      <4> HIDE DEF Movers
      <4> QED
        BY DEF MovedCfs, Retarget
    <3>2. WfCf(bbs[t].cfs[k], n) /\ Site(bbs[t].cfs[k])
      BY <1>1, <3>1
    <3> HIDE DEF Site, WfCf
    <3>3. Site([bbs[t].cfs[k] EXCEPT !.target = n]) /\ Site([bbs[t].cfs[k] EXCEPT !.cont = n])
      BY <1>2, <3>2
    <3> QED
      BY <3>1, <3>2, <3>3
  <2> QED
    BY <2>1, <2>2 DEF Sites
<1> QED
  BY <1>3, <1>4, <1>5

(* The blocks after a split, and how it cuts the block. *)
LEMMA SplitCut ==
  ASSUME AllYield, Inv, Disjoint(bbs), Pointers, Split, NEW n, n = Len(bbs) + 1
  PROVE  /\ Len(bbs') = n
         /\ bbs'[n] = Second(n) /\ bbs'[req.bb] = First(n)
         /\ \A t \in 1..Len(bbs) : t # req.bb => bbs'[t] = Other(t, n)
         /\ Cut(bbs, bbs', ptr, ptr', req.bb, n, bbs[req.bb].start, bbs[req.bb].end, req.addr)
<1> DEFINE b == req.bb
           s == bbs[b].start
           e == bbs[b].end
           a == req.addr
<1>1. /\ WfBlocks(bbs) /\ Len(bbs) \in Nat /\ Len(bbs) >= 1 /\ b \in 1..Len(bbs) /\ phase = "split"
      /\ N \in Nat /\ pos \in Int /\ n \in Nat /\ n \in 1..n /\ b # n
      /\ ptr \in [Slots -> 0..Len(bbs)] /\ Mapped(bbs, ptr, 0) /\ Sited(bbs)
  <2>1. phase = "split"
    BY DEF Split
  <2>2. WfBlocks(bbs) /\ Len(bbs) \in Nat /\ b \in 1..Len(bbs) /\ N \in Nat /\ pos \in Int
    BY <2>1, SplitFacts
  <2>3. Len(bbs) >= 1 /\ ptr \in [Slots -> 0..Len(bbs)]
    BY DEF Inv, Typed, Control, Dummy
  <2>4. Mapped(bbs, ptr, 0) /\ Sited(bbs)
    BY <2>1 DEF Pointers
  <2>5. n \in Nat /\ n \in 1..n /\ b # n
    BY <2>2
  <2> QED
    BY <2>1, <2>2, <2>3, <2>4, <2>5
<1>2. /\ Len(bbs') = n
      /\ bbs'[n] = Second(n) /\ bbs'[b] = First(n)
      /\ \A t \in 1..Len(bbs) : t # b => bbs'[t] = Other(t, n)
  <2> DEFINE C == [t \in 1..n |-> IF t = n THEN Second(n) ELSE IF t = b THEN First(n) ELSE Other(t, n)]
  <2>1. bbs' = C
    BY DEF Split
  <2>2. C = [t \in 1..n |-> C[t]] /\ \A t \in 1..n : C[t] = IF t = n THEN Second(n) ELSE IF t = b THEN First(n) ELSE Other(t, n)
    OBVIOUS
  <2>3. \A t \in 1..Len(bbs) : t \in 1..n /\ t # n
    BY <1>1
  <2> HIDE DEF C
  <2>4. Len(C) = n
    BY <1>1, <2>2, FunctionIsSeq
  <2> QED
    BY <1>1, <2>1, <2>2, <2>3, <2>4
<1>3. /\ bbs[b].code = s..e /\ s \in 1..(a - 1) /\ a \in 1..e /\ e \in Slots /\ FirstEnd = a - 1
  BY <1>1, SplitRun
<1>4. /\ First(n).start = s /\ First(n).end = a - 1 /\ First(n).code = {i \in s..e : i < a}
      /\ Second(n).start = a /\ Second(n).end = e /\ Second(n).code = {i \in s..e : i >= a}
      /\ \A t \in 1..Len(bbs) : /\ Other(t, n).start = bbs[t].start
                                /\ Other(t, n).end = bbs[t].end
                                /\ Other(t, n).code = bbs[t].code
  BY <1>1, <1>3, FirstWf, SecondWf, OtherWf
<1>5. \A x \in Slots : /\ x \in s..(a - 1) => ptr'[x] = b
                       /\ x \in a..e => ptr'[x] = n
                       /\ x \notin s..e => ptr'[x] = ptr[x]
  <2>1. ptr' = SetEnd(SetEnd([ptr EXCEPT ![a] = n], n, a, e), b, s, a - 1)
    BY <1>3 DEF Split
  <2>2. \A x \in Slots :
          ptr'[x] = IF s <= x /\ x <= a - 1 THEN b
                    ELSE IF a <= x /\ x <= e THEN n ELSE [ptr EXCEPT ![a] = n][x]
    BY <2>1 DEF SetEnd
  <2>3. s \in Int /\ a \in Int /\ e \in Int /\ s < a /\ a <= e /\ \A x \in Slots : x \in Int
    BY <1>1, <1>3 DEF Slots
  <2>4. \A x \in Slots : x # a => [ptr EXCEPT ![a] = n][x] = ptr[x]
    BY <1>1
  <2> HIDE DEF b, s, a, e
  <2> QED
    BY <2>2, <2>3, <2>4
<1>6. /\ bbs'[b].start = s /\ bbs'[b].end = a - 1 /\ bbs'[b].code = {i \in s..e : i < a}
      /\ bbs'[n].start = a /\ bbs'[n].end = e /\ bbs'[n].code = {i \in s..e : i >= a}
      /\ \A c \in 1..Len(bbs) : c # b =>
           bbs'[c].start = bbs[c].start /\ bbs'[c].end = bbs[c].end /\ bbs'[c].code = bbs[c].code
  BY <1>2, <1>4
<1>7. s = bbs[b].start /\ e = bbs[b].end
  OBVIOUS
<1> HIDE DEF b, s, e, a
<1>8. Cut(bbs, bbs', ptr, ptr', b, n, s, e, a)
  BY <1>1, <1>2, <1>3, <1>5, <1>6, <1>7 DEF Cut
<1> QED
  BY <1>2, <1>8 DEF b, s, e, a

LEMMA SplitPointers ==
  ASSUME AllYield, Inv, Disjoint(bbs), Pointers, Split
  PROVE  Pointers'
<1> DEFINE n == Len(bbs) + 1
           b == req.bb
           s == bbs[b].start
           e == bbs[b].end
           a == req.addr
<1>1. /\ WfBlocks(bbs) /\ Len(bbs) \in Nat /\ Len(bbs) >= 1 /\ b \in 1..Len(bbs) /\ phase = "split"
      /\ N \in Nat /\ pos \in Int /\ n \in Nat /\ n \in 1..n /\ b # n
      /\ ptr \in [Slots -> 0..Len(bbs)] /\ Mapped(bbs, ptr, 0) /\ Sited(bbs)
  <2>1. phase = "split"
    BY DEF Split
  <2>2. WfBlocks(bbs) /\ Len(bbs) \in Nat /\ b \in 1..Len(bbs) /\ N \in Nat /\ pos \in Int
    BY <2>1, SplitFacts
  <2>3. Len(bbs) >= 1 /\ ptr \in [Slots -> 0..Len(bbs)]
    BY DEF Inv, Typed, Control, Dummy
  <2>4. Mapped(bbs, ptr, 0) /\ Sited(bbs)
    BY <2>1 DEF Pointers
  <2>5. n \in Nat /\ n \in 1..n /\ b # n
    BY <2>2
  <2> QED
    BY <2>1, <2>2, <2>3, <2>4, <2>5
<1>2. /\ Len(bbs') = n
      /\ bbs'[n] = Second(n) /\ bbs'[b] = First(n)
      /\ \A t \in 1..Len(bbs) : t # b => bbs'[t] = Other(t, n)
      /\ Cut(bbs, bbs', ptr, ptr', b, n, s, e, a)
  BY SplitCut
<1>3. /\ s \in 1..(a - 1) /\ a \in 1..e
      /\ \A c \in 1..Len(bbs) : c # b => bbs'[c].start = bbs[c].start
  BY <1>2 DEF Cut
<1>4. \A x \in Slots : /\ x \in s..(a - 1) => ptr'[x] = b
                       /\ x \in a..e => ptr'[x] = n
                       /\ x \notin s..e => ptr'[x] = ptr[x]
  BY <1>2 DEF Cut
<1>5. Mapped(bbs', ptr', 0)
  <2> HIDE DEF Mapped, n, b, s, e, a
  <2> QED
    BY <1>1, <1>2, SplitMapped
<1>6. prog' = prog
  BY DEF Split
<1>7. Mapped(bbs, ptr, 0)'
  BY <1>5, <1>6 DEF Mapped, OwnCode, IsInstr
<1>8. Sited(bbs)'
  <2>1. /\ Sites(First(n).cfs) /\ Sites(Second(n).cfs)
        /\ \A t \in 1..Len(bbs) : Sites(Other(t, n).cfs)
    BY <1>1, SplitSites
  <2>2. \A t \in 1..n : t = n \/ t = b \/ (t \in 1..Len(bbs) /\ t # b)
    BY <1>1
  <2>3. \A t \in 1..n : Sites(bbs'[t].cfs)
    BY <1>2, <2>1, <2>2
  <2> QED
    BY <1>2, <1>6, <2>3 DEF Sited, Sites, Site
<1>9. /\ phase' # "split" /\ (phase' = "scan" => cur' = Null)
      /\ phase' = "scan" => pos' = pos + 1
      /\ phase' # "scan" => pos' = pos
  <2>1. req.back \in {"cf", "register"}
    BY DEF Inv, Typed
  <2> QED
    BY <2>1 DEF Split, NextCf
<1>10. OpenBlock' /\ CutsInside'
  BY <1>9 DEF OpenBlock, CutsInside
<1>11. StartsBehind'
  <2>1. \A x \in Slots : x \in Int /\ (IsInstr(x)' <=> IsInstr(x))
    BY <1>6 DEF IsInstr, Slots
  <2> HIDE DEF IsInstr
  <2>2. \A x \in Slots : Lifted(x)' => IsInstr(x) /\ x <= pos
    BY <1>1, <1>9, <2>1 DEF Lifted
  <2>3. \A x \in Slots : IsInstr(x) /\ x <= pos => Lifted(x)
    BY <1>1, <2>1 DEF Lifted
  <2>4. \A x \in Slots : ptr[x] # Null => ptr'[x] # Null
    <3>1. \A x \in Slots : x \in s..(a - 1) \/ x \in a..e \/ x \notin s..e
      BY <1>1, <1>3
    <3>2. n # Null /\ b # Null
      BY <1>1 DEF Null
    <3> QED
      BY <1>4, <3>1, <3>2
  <2>5. StartsBehind
    BY DEF Pointers
  <2> HIDE DEF Lifted
  <2> QED
    BY <1>6, <2>2, <2>3, <2>4, <2>5, StartsBehindKept
<1>12. bbs'[Dummy].start = 0
  <2>1. bbs[Dummy].start = 0 /\ Dummy \in 1..Len(bbs)
    BY <1>1 DEF Pointers, Dummy
  <2>2. Dummy # b
    BY <1>3, <2>1
  <2> QED
    BY <1>3, <2>1, <2>2
<1> QED
  BY <1>7, <1>8, <1>10, <1>11, <1>12 DEF Pointers

-----------------------------------------------------------------------------
(* Lifter::postprocess.                                                    *)

(* C is B with more blocks without an address, edges and flags, and with   *)
(* operations of the same instructions.                                    *)
Keeps(B, C) ==
  /\ Grows(B, C)
  /\ \A b \in (Len(B) + 1)..Len(C) : C[b].start = 0 /\ C[b].end = 0
  /\ Sited(B) => Sited(C)

LEMMA KeepsTransitive ==
  ASSUME NEW B, NEW C, NEW D, WfBlocks(B), Keeps(B, C), Keeps(C, D)
  PROVE  Keeps(B, D)
<1>1. /\ Len(B) \in Nat /\ Len(C) \in Nat /\ Len(D) \in Nat /\ Extends(B, C) /\ Extends(C, D)
      /\ Grows(B, D)
  BY GrowsTransitive DEF Keeps, Grows, WfBlocks, IsSeq
<1>2. ASSUME NEW b \in (Len(B) + 1)..Len(D)
      PROVE  D[b].start = 0 /\ D[b].end = 0
  <2>1. CASE b \in (Len(C) + 1)..Len(D)
    BY <2>1 DEF Keeps
  <2>2. CASE b \in (Len(B) + 1)..Len(C)
    <3>1. b \in 1..Len(C) /\ C[b].start = 0 /\ C[b].end = 0
      BY <1>1, <2>2 DEF Keeps
    <3> QED
      BY <1>1, <3>1 DEF Extends
  <2> QED
    BY <1>1, <2>1, <2>2
<1> HIDE DEF Sited
<1> QED
  BY <1>1, <1>2 DEF Keeps

(* Neither a block nor an operation more or other. *)
LEMMA SameCfsKeeps ==
  ASSUME NEW B, WfBlocks(B), NEW C, SameExtent(B, C), \A c \in 1..Len(B) : C[c].cfs = B[c].cfs
  PROVE  Keeps(B, C)
<1>1. Len(B) \in Nat /\ Len(C) = Len(B)
  BY DEF WfBlocks, IsSeq, SameExtent
<1>2. Grows(B, C)
  BY DEF Grows, SameExtent
<1>3. \A b \in (Len(B) + 1)..Len(C) : C[b].start = 0 /\ C[b].end = 0
  BY <1>1
<1>4. Sited(B) => Sited(C)
  BY <1>1 DEF Sited
<1> QED
  BY <1>2, <1>3, <1>4 DEF Keeps

LEMMA PutFlagKeeps ==
  ASSUME NEW B, WfBlocks(B), NEW b \in 1..Len(B), NEW F \in SUBSET Flags
  PROVE  Keeps(B, PutFlag(B, b, F))
<1> DEFINE x == WithFlags(B[b], B[b].flags \cup F)
<1>1. WfBlock(B[b], Len(B))
  BY DEF WfBlocks
<1>2. B[b].flags \cup F \in SUBSET Flags
  BY <1>1 DEF WfBlock
<1>3. WfBlock(x, Len(B)) /\ x.cfs = B[b].cfs
      /\ x.start = B[b].start /\ x.end = B[b].end /\ x.code = B[b].code
  BY <1>1, <1>2, FieldsWf, FieldsSame
<1>4. PutFlag(B, b, F) = Put(B, b, x)
  BY DEF PutFlag
<1> HIDE DEF x
<1>5. SameExtent(B, Put(B, b, x))
  BY <1>3, PutSame
<1>6. \A c \in 1..Len(B) : Put(B, b, x)[c].cfs = B[c].cfs
  BY <1>3, PutWf
<1> QED
  BY <1>4, <1>5, <1>6, SameCfsKeeps

(* An operation that stays what it is, as far as Site can tell. *)
LEMMA PutCfKeeps ==
  ASSUME NEW B, WfBlocks(B), NEW b \in 1..Len(B), NEW k, NEW cf,
         k \in DOMAIN B[b].cfs => WfCf(cf, Len(B)) /\ (Site(B[b].cfs[k]) => Site(cf))
  PROVE  Keeps(B, PutCf(B, b, k, cf)) /\ Len(PutCf(B, b, k, cf)) = Len(B)
<1> DEFINE C == PutCf(B, b, k, cf)
<1> HIDE DEF Site, WfCf
<1>1. SameExtent(B, C) /\ \A c \in 1..Len(B) : C[c].cfs = CfsBut(B, b, k, cf, c)
  BY PutCfSame, PutCfCfs
<1>2. Grows(B, C)
  BY PutCfGrows
<1>3. Len(C) = Len(B) /\ Len(B) \in Nat
  BY <1>1 DEF SameExtent, WfBlocks, IsSeq
<1> HIDE DEF C
<1>4. ASSUME Sited(B)
      PROVE  Sited(C)
  <2>1. k \in DOMAIN B[b].cfs => Site(cf)
    BY <1>4 DEF Sited, Sites
  <2> QED
    BY <1>1, <1>3, <1>4, <2>1, CfsButSited
<1>5. \A c \in (Len(B) + 1)..Len(C) : C[c].start = 0 /\ C[c].end = 0
  BY <1>3
<1>6. Keeps(B, C)
  BY <1>2, <1>4, <1>5 DEF Keeps
<1> QED
  BY <1>3, <1>6 DEF C

(* The continuation of a call is set. *)
LEMMA WithContKeeps ==
  ASSUME NEW B, WfBlocks(B), NEW m, m[1] \in 1..Len(B), NEW c \in 1..Len(B)
  PROVE  Keeps(B, WithCont(B, m, c)) /\ Len(WithCont(B, m, c)) = Len(B)
<1> DEFINE b == m[1]
           cf == [B[b].cfs[m[2]] EXCEPT !.cont = c]
           C == PutCf(B, b, m[2], cf)
           D == AddEdgeIfAbsent(C, b, c)
<1>1. Len(B) \in Nat /\ c \in 0..Len(B) /\ b \in 1..Len(B)
  BY DEF WfBlocks, IsSeq
<1>2. m[2] \in DOMAIN B[b].cfs => WfCf(cf, Len(B)) /\ (Site(B[b].cfs[m[2]]) => Site(cf))
  <2>1. m[2] \in DOMAIN B[b].cfs => WfCf(B[b].cfs[m[2]], Len(B))
    BY <1>1 DEF WfBlocks, WfBlock, WfCfs
  <2>2. m[2] \in DOMAIN B[b].cfs => WfCf(cf, Len(B))
    BY <1>1, <2>1, CfFieldsWf
  <2>3. m[2] \in DOMAIN B[b].cfs => cf.type = B[b].cfs[m[2]].type /\ cf.instr = B[b].cfs[m[2]].instr
    BY <2>1 DEF WfCf, CfFields
  <2> QED
    BY <2>2, <2>3 DEF Site
<1>3. C = [B EXCEPT ![m[1]].cfs[m[2]].cont = c]
  BY DEF PutCf, Put, WithCfs
<1> HIDE DEF cf, Site
<1>4. Keeps(B, C) /\ WfBlocks(C) /\ Len(C) = Len(B)
  BY <1>1, <1>2, PutCfKeeps, PutCfSame DEF SameExtent
<1>5. WithCont(B, m, c) = PutFlag(D, c, {"call_cont_block"})
  <2>1. WithCont(B, m, c) = [D EXCEPT ![c].flags = @ \cup {"call_cont_block"}]
    BY <1>3 DEF WithCont
  <2> QED
    BY <2>1 DEF PutFlag, Put, WithFlags
<1> HIDE DEF C
<1>6. Keeps(C, D) /\ WfBlocks(D) /\ Len(D) = Len(C)
  BY <1>1, <1>4, AddEdgeIfAbsentSame, SameCfsKeeps DEF SameExtent
<1> HIDE DEF D
<1>7. Keeps(D, PutFlag(D, c, {"call_cont_block"})) /\ Len(PutFlag(D, c, {"call_cont_block"})) = Len(D)
  BY <1>1, <1>4, <1>6, PutFlagKeeps, PutFlagGrows DEF Flags
<1>8. Keeps(B, D)
  BY <1>4, <1>6, KeepsTransitive
<1> QED
  BY <1>4, <1>5, <1>6, <1>7, <1>8, KeepsTransitive

(* The target of an operation is set. *)
LEMMA LinkToKeeps ==
  ASSUME NEW B, WfBlocks(B), NEW m, m[1] \in 1..Len(B), NEW t \in 1..Len(B)
  PROVE  /\ Keeps(B, AddEdge(LinkTo(B, m, t), m[1], t))
         /\ Keeps(B, AddEdgeIfAbsent(LinkTo(B, m, t), m[1], t))
<1> DEFINE cf == [B[m[1]].cfs[m[2]] EXCEPT !.target = t]
<1>1. Len(B) \in Nat /\ t \in 0..Len(B)
  BY DEF WfBlocks, IsSeq
<1>2. m[2] \in DOMAIN B[m[1]].cfs => WfCf(cf, Len(B)) /\ (Site(B[m[1]].cfs[m[2]]) => Site(cf))
  <2>1. m[2] \in DOMAIN B[m[1]].cfs => WfCf(B[m[1]].cfs[m[2]], Len(B))
    BY DEF WfBlocks, WfBlock, WfCfs
  <2>2. m[2] \in DOMAIN B[m[1]].cfs => WfCf(cf, Len(B))
    BY <1>1, <2>1, CfFieldsWf
  <2>3. m[2] \in DOMAIN B[m[1]].cfs =>
          cf.type = B[m[1]].cfs[m[2]].type /\ cf.instr = B[m[1]].cfs[m[2]].instr
    BY <2>1 DEF WfCf, CfFields
  <2> QED
    BY <2>2, <2>3 DEF Site
<1>3. LinkTo(B, m, t) = PutCf(B, m[1], m[2], cf)
  BY DEF LinkTo
<1> HIDE DEF cf, Site
<1>4. Keeps(B, LinkTo(B, m, t)) /\ WfBlocks(LinkTo(B, m, t)) /\ Len(LinkTo(B, m, t)) = Len(B)
  BY <1>2, <1>3, PutCfKeeps, PutCfSame DEF SameExtent
<1>5. \A C : WfBlocks(C) /\ Len(C) = Len(B) =>
             Keeps(C, AddEdge(C, m[1], t)) /\ Keeps(C, AddEdgeIfAbsent(C, m[1], t))
  BY AddEdgeSame, AddEdgeIfAbsentSame, SameCfsKeeps
<1> QED
  BY <1>4, <1>5, KeepsTransitive

(* A block without an address more. *)
LEMMA AppendKeeps ==
  ASSUME NEW B, WfBlocks(B), NEW x, WfBlock(x, Len(B) + 1), x.code = {},
         x.start = 0, x.end = 0, Sites(x.cfs)
  PROVE  Keeps(B, Append(B, x)) /\ Len(Append(B, x)) = Len(B) + 1
<1>1. IsSeq(B) /\ Len(B) \in Nat
  BY DEF WfBlocks, IsSeq
<1>2. Grows(B, Append(B, x)) /\ Len(Append(B, x)) = Len(B) + 1
  BY AppendGrows
<1>3. /\ \A b \in 1..Len(B) : Append(B, x)[b] = B[b]
      /\ Append(B, x)[Len(B) + 1] = x
  BY <1>1, AppendIsSeq
<1>4. \A b \in (Len(B) + 1)..Len(Append(B, x)) : Append(B, x)[b].start = 0 /\ Append(B, x)[b].end = 0
  BY <1>1, <1>2, <1>3
<1>5. ASSUME Sited(B)
      PROVE  Sited(Append(B, x))
  <2>1. \A b \in 1..(Len(B) + 1) : b \in 1..Len(B) \/ b = Len(B) + 1
    BY <1>1
  <2> HIDE DEF Sites
  <2> QED
    BY <1>2, <1>3, <1>5, <2>1 DEF Sited
<1> QED
  BY <1>2, <1>4, <1>5 DEF Keeps

LEMMA PostTargetKeeps ==
  ASSUME NEW B, WfBlocks(B), NEW p \in [Slots -> 0..Len(B)], NEW m, m[1] \in 1..Len(B),
         NEW cf, cf.target \in 0..Len(B)
  PROVE  Keeps(B, PostTarget(B, p, m, cf))
<1> DEFINE t == IF cf.jump \in Slots THEN p[cf.jump] ELSE Null
           b == m[1]
<1>1. Len(B) \in Nat /\ t \in 0..Len(B) /\ {"call_target"} \in SUBSET Flags
  BY DEF WfBlocks, IsSeq, Null, Flags
<1>2. Keeps(B, B)
  BY ExtendsReflexive, SameCfsKeeps DEF SameExtent
<1>3. CASE cf.type \in {"ijump", "icall"}
  BY <1>2, <1>3 DEF PostTarget
<1>4. CASE cf.type \notin {"ijump", "icall"} /\ cf.target # Null
  <2>1. CASE cf.type = "call"
    <3>1. PostTarget(B, p, m, cf) = PutFlag(B, cf.target, {"call_target"})
      BY <1>4, <2>1 DEF PostTarget, PutFlag, Put, WithFlags
    <3>2. cf.target \in 1..Len(B)
      BY <1>1, <1>4 DEF Null
    <3> QED
      BY <1>1, <3>1, <3>2, PutFlagKeeps
  <2>2. CASE cf.type # "call"
    BY <1>2, <1>4, <2>2 DEF PostTarget
  <2> QED
    BY <2>1, <2>2
<1>5. CASE cf.type \notin {"ijump", "icall"} /\ cf.target = Null /\ t # Null
  <2>1. t \in 1..Len(B)
    BY <1>1, <1>5 DEF Null
  <2> DEFINE L == AddEdgeIfAbsent(LinkTo(B, m, t), b, t)
  <2>2. LinkTo(B, m, t) = [B EXCEPT ![m[1]].cfs[m[2]].target = t]
    BY DEF LinkTo, PutCf, Put, WithCfs
  <2>3. PostTarget(B, p, m, cf) = IF cf.type = "call" THEN PutFlag(L, t, {"call_target"}) ELSE L
    BY <1>5, <2>2 DEF PostTarget, PutFlag, Put, WithFlags
  <2>4. Keeps(B, L) /\ WfBlocks(L) /\ Len(L) = Len(B)
    BY <2>1, LinkToKeeps, LinkToGrows DEF Grows
  <2> HIDE DEF L, t
  <2>5. Keeps(L, PutFlag(L, t, {"call_target"}))
    BY <1>1, <2>1, <2>4, PutFlagKeeps
  <2> QED
    BY <2>3, <2>4, <2>5, KeepsTransitive
<1>6. CASE cf.type = "syscall" /\ cf.target = Null /\ t = Null
  <2> DEFINE n == Len(B) + 1
             x == [TrapBlock(0) EXCEPT !.end = 0]
             A == Append(B, x)
             C == LinkTo(A, m, n)
  <2>1. WfBlock(x, n) /\ x.code = {}
    BY <1>1, TrapBlockWf, NAssumption
  <2>2. x.start = 0 /\ x.end = 0 /\ Sites(x.cfs)
    <3>1. x.start = 0 /\ x.end = 0 /\ x.cfs = <<Cf("unreachable", 0, 0, Null)>>
      BY DEF TrapBlock, EmptyBlock
    <3>2. Site(Cf("unreachable", 0, 0, Null))
      BY DEF Site, Cf
    <3> HIDE DEF x, Site
    <3> QED
      BY <3>1, <3>2, SingleIsSeq DEF Sites
  <2>3. Keeps(B, A) /\ WfBlocks(A) /\ Len(A) = n
    <3> HIDE DEF x
    <3> QED
      BY <2>1, <2>2, AppendKeeps DEF Keeps, Grows
  <2>4. n \in 1..n /\ m[1] \in 1..n
    BY <1>1
  <2>5. C = [A EXCEPT ![m[1]].cfs[m[2]].target = n]
    BY DEF LinkTo, PutCf, Put, WithCfs
  <2>6. PostTarget(B, p, m, cf) = AddEdge(C, m[1], n)
    BY <1>6, <2>5 DEF PostTarget
  <2> HIDE DEF A
  <2>7. Keeps(A, AddEdge(C, m[1], n))
    BY <2>3, <2>4, LinkToKeeps
  <2> QED
    BY <2>3, <2>6, <2>7, KeepsTransitive
<1>7. CASE cf.type \notin {"ijump", "icall", "syscall"} /\ cf.target = Null /\ t = Null
  <2> DEFINE k == m[2]
             c == [B[b].cfs[k] EXCEPT !.type = "unreachable", !.cont = Null]
  <2>1. k \in DOMAIN B[b].cfs => WfCf(c, Len(B)) /\ (Site(B[b].cfs[k]) => Site(c))
    <3>1. k \in DOMAIN B[b].cfs => WfCf(B[b].cfs[k], Len(B))
      BY DEF WfBlocks, WfBlock, WfCfs
    <3>2. k \in DOMAIN B[b].cfs => WfCf(c, Len(B))
      BY <1>1, <3>1, CfFieldsWf
    <3>3. k \in DOMAIN B[b].cfs => c.type = "unreachable"
      BY <3>1 DEF WfCf, CfFields
    <3> QED
      BY <3>2, <3>3 DEF Site
  <2>2. PostTarget(B, p, m, cf) = PutCf(B, b, k, c)
    BY <1>7 DEF PostTarget, PutCf, Put, WithCfs
  <2> HIDE DEF c, Site
  <2> QED
    BY <2>1, <2>2, PutCfKeeps
<1> QED
  BY <1>3, <1>4, <1>5, <1>6, <1>7

(* Behind the scan: the blocks keep their extent. *)
LEMMA LatePointers ==
  ASSUME Inv, Pointers, phase \in {"post", "ijumps", "register"}, prog' = prog, pos' = pos,
         NEW B, WfBlocks(B), Len(B) >= 1, B[Dummy].start = 0, Sited(B), Mapped(B, ptr', 0),
         Keeps(B, bbs'), ptr' \in [Slots -> 0..Len(B)],
         \A a \in Slots : ptr[a] # Null => ptr'[a] # Null,
         phase' \in {"post", "ijumps", "register", "split", "done", "crashed"},
         phase' = "split" =>
           req'.addr \in Slots /\ ptr'[req'.addr] = req'.bb /\ bbs'[req'.bb].start # req'.addr
  PROVE  Pointers'
<1>1. /\ WfBlocks(bbs') /\ Extends(B, bbs') /\ Sited(bbs')
      /\ \A b \in (Len(B) + 1)..Len(bbs') : bbs'[b].start = 0 /\ bbs'[b].end = 0
  BY DEF Keeps, Grows
<1>2. Mapped(bbs', ptr', 0)
  <2> HIDE DEF Mapped
  <2> QED
    BY <1>1, SameMapped
<1>3. Mapped(bbs, ptr, 0)'
  BY <1>2 DEF Mapped, OwnCode, IsInstr
<1>4. Sited(bbs)'
  BY <1>1 DEF Sited, Sites, Site
<1>5. OpenBlock' /\ CutsInside'
  BY DEF OpenBlock, CutsInside
<1>6. StartsBehind'
  <2>1. pos = N + 1 /\ N \in Nat /\ \A a \in Slots : a \in 1..N /\ (IsInstr(a)' <=> IsInstr(a))
    BY NAssumption DEF Inv, Control, Lifting, IsInstr, Slots
  <2> HIDE DEF IsInstr
  <2>2. \A a \in Slots : Lifted(a)' => Lifted(a)
    BY <2>1 DEF Lifted
  <2>3. StartsBehind
    BY DEF Pointers
  <2> HIDE DEF Lifted
  <2> QED
    BY <2>2, <2>3, StartsBehindKept
<1>7. bbs'[Dummy].start = 0
  <2>1. Dummy \in 1..Len(B)
    BY DEF Dummy, WfBlocks, IsSeq
  <2> QED
    BY <1>1, <2>1 DEF Extends
<1> QED
  BY <1>3, <1>4, <1>5, <1>6, <1>7 DEF Pointers

LEMMA AppendSited ==
  ASSUME NEW B, WfBlocks(B), Sited(B), NEW x, WfBlock(x, Len(B) + 1), Sites(x.cfs)
  PROVE  /\ Sited(Append(B, x))
         /\ \A b \in 1..Len(B) : Append(B, x)[b] = B[b]
<1>1. IsSeq(B) /\ Len(B) \in Nat
  BY DEF WfBlocks, IsSeq
<1>2. Len(Append(B, x)) = Len(B) + 1
  BY AppendBlockWf
<1>3. /\ \A b \in 1..Len(B) : Append(B, x)[b] = B[b]
      /\ Append(B, x)[Len(B) + 1] = x
  BY <1>1, AppendIsSeq
<1>4. \A b \in 1..(Len(B) + 1) : b \in 1..Len(B) \/ b = Len(B) + 1
  BY <1>1
<1> HIDE DEF Sites
<1> QED
  BY <1>2, <1>3, <1>4 DEF Sited

LEMMA PostPointers ==
  ASSUME Inv, Pointers, Post
  PROVE  Pointers'
<1> DEFINE m  == Least(todo)
           cf == bbs[m[1]].cfs[m[2]]
           a  == cf.instr + 1
<1>1. /\ WfBlocks(bbs) /\ Len(bbs) \in Nat /\ Len(bbs) >= 1 /\ phase = "post" /\ todo # {}
      /\ todo \subseteq (1..Len(bbs)) \X (Nat \ {0})
      /\ \A o \in todo : o[2] \in DOMAIN bbs[o[1]].cfs
      /\ ptr \in [Slots -> 0..Len(bbs)] /\ pos = N + 1 /\ N \in Nat
      /\ Mapped(bbs, ptr, 0) /\ Sited(bbs) /\ StartsBehind /\ bbs[Dummy].start = 0
  BY NAssumption DEF Inv, Typed, Control, Lifting, WfBlocks, IsSeq, Post, Null, Dummy, Pointers
<1>2. m \in todo /\ m[1] \in 1..Len(bbs)
  <2>1. todo \subseteq Nat \X Nat
    BY <1>1
  <2>2. Least(todo) \in todo
    BY <1>1, <2>1, LeastIn
  <2> QED
    BY <1>1, <2>2
<1>3. WfCf(cf, Len(bbs)) /\ Site(cf)
  <2>1. WfBlock(bbs[m[1]], Len(bbs)) /\ m[2] \in DOMAIN bbs[m[1]].cfs
    BY <1>1, <1>2 DEF WfBlocks
  <2> HIDE DEF Site
  <2> QED
    BY <1>1, <1>2, <2>1 DEF WfBlock, WfCfs, Sited, Sites
<1>4. /\ PostPass(m, cf) \/ PostJump(m, cf) \/ PostCall(m, cf) \/ PostCallTrap(m, cf) \/ PostCrash(m, cf)
      /\ UNCHANGED <<prog, pos, cur, cfi, req, needs, entry, found>>
  BY Zenon DEF Post
<1>5. cf.target \in 0..Len(bbs)
  BY <1>3 DEF WfCf
<1> HIDE DEF m, cf, Mapped, Sited, StartsBehind
<1>6. CASE PostPass(m, cf) \/ PostCrash(m, cf)
  <2>1. UNCHANGED <<prog, pos, bbs, ptr>> /\ phase' \in {"post", "crashed"}
    BY <1>4, <1>6 DEF PostPass, PostCrash, PostGoOn
  <2> QED
    BY <1>1, <2>1, SamePointers
<1>7. CASE PostJump(m, cf)
  <2>1. Keeps(bbs, bbs') /\ ptr' = ptr /\ phase' = "post"
    BY <1>1, <1>2, <1>5, <1>7, PostTargetKeeps DEF PostJump, PostGoOn
  <2> QED
    BY <1>1, <1>4, <2>1, LatePointers
<1>8. CASE PostCall(m, cf)
  <2> DEFINE B == WithCont(bbs, m, ptr[a])
  <2>1. a \in Slots /\ ptr[a] \in 1..Len(bbs)
    BY <1>8, BlockAtLifted DEF PostCall
  <2>2. Keeps(bbs, B) /\ Len(B) = Len(bbs) /\ WfBlocks(B)
    BY <1>1, <1>2, <2>1, WithContKeeps DEF Keeps, Grows
  <2>3. bbs' = PostTarget(B, ptr, m, cf) /\ ptr' = ptr /\ phase' = "post"
    BY <1>8 DEF PostCall, PostGoOn
  <2> HIDE DEF B
  <2>4. Keeps(B, bbs')
    BY <1>1, <1>2, <1>5, <2>2, <2>3, PostTargetKeeps
  <2>5. Keeps(bbs, bbs')
    BY <1>1, <2>2, <2>4, KeepsTransitive
  <2> QED
    BY <1>1, <1>4, <2>3, <2>5, LatePointers
<1>9. CASE PostCallTrap(m, cf)
  <2> DEFINE n == Len(bbs) + 1
             x == TrapBlock(a)
             A == Append(bbs, x)
             B == WithCont(A, m, n)
  <2>1. /\ a \in Slots /\ ptr[a] = Null /\ ptr' = [ptr EXCEPT ![a] = n]
        /\ bbs' = PostTarget(B, ptr', m, cf) /\ phase' = "post" /\ cf.type \in {"call", "icall"}
    BY <1>9 DEF PostCallTrap, PostGoOn
  <2>2. ~IsInstr(a)
    <3>1. cf.instr \in Slots /\ prog[cf.instr].kind \in Terminators
      BY <1>3, <2>1 DEF Site
    <3>2. ~Lifted(a)
      <4> HIDE DEF Lifted
      <4> QED
        BY <1>1, <2>1, <3>1 DEF StartsBehind
    <3>3. a < pos
      BY <1>1, <2>1 DEF Slots
    <3> HIDE DEF IsInstr
    <3> QED
      BY <3>2, <3>3 DEF Lifted
  <2>3. WfBlock(x, n) /\ x.code = {} /\ x.start = a /\ Sites(x.cfs) /\ n \in Nat
    <3>1. a \in 0..N /\ n \in Nat
      BY <1>1, <2>1 DEF Slots
    <3>2. x.start = a /\ x.cfs = <<Cf("unreachable", 0, 0, Null)>>
      BY DEF TrapBlock, EmptyBlock
    <3>3. Site(Cf("unreachable", 0, 0, Null))
      BY DEF Site, Cf
    <3>4. WfBlock(x, n) /\ x.code = {}
      BY <3>1, TrapBlockWf
    <3> HIDE DEF x, Site
    <3> QED
      BY <3>1, <3>2, <3>3, <3>4, SingleIsSeq DEF Sites
  <2> HIDE DEF x, IsInstr
  <2>4. WfBlocks(A) /\ Len(A) = n
    BY <1>1, <2>3, AppendBlockWf
  <2>5. Mapped(A, ptr', 0)
    BY <1>1, <2>1, <2>2, <2>3, AppendMapped
  <2>6. Sited(A) /\ A[Dummy].start = 0
    BY <1>1, <2>3, AppendSited DEF Dummy
  <2>7. n \in 1..n /\ m[1] \in 1..n /\ cf.target \in 0..n /\ ptr' \in [Slots -> 0..n] /\ n >= 1
    BY <1>1, <1>2, <1>5, <2>1
  <2>8. \A s \in Slots : ptr[s] # Null => ptr'[s] # Null
    BY <1>1, <2>1 DEF Null
  <2> HIDE DEF n, A
  <2>9. Keeps(A, B) /\ Len(B) = n /\ WfBlocks(B)
    BY <2>4, <2>7, WithContKeeps DEF Keeps, Grows
  <2> HIDE DEF B
  <2>10. Keeps(B, bbs')
    BY <2>1, <2>7, <2>9, PostTargetKeeps
  <2>11. Keeps(A, bbs')
    BY <2>4, <2>9, <2>10, KeepsTransitive
  <2> QED
    BY <1>1, <1>4, <2>1, <2>4, <2>5, <2>6, <2>7, <2>8, <2>11, LatePointers
<1> QED
  BY <1>4, <1>6, <1>7, <1>8, <1>9

-----------------------------------------------------------------------------
(* Lifter::process_ijumps and the entry block.                             *)

LEMMA RegisterPointers ==
  ASSUME Inv, Pointers, NEW a \in 0..(N + 1), RegisterAddr(a)
  PROVE  Pointers'
<1> DEFINE b == IF a = 0 THEN Dummy ELSE BlockAt(a)
<1>1. /\ WfBlocks(bbs) /\ Len(bbs) \in Nat /\ Len(bbs) >= 1 /\ phase = "register"
      /\ ptr \in [Slots -> 0..Len(bbs)]
      /\ Mapped(bbs, ptr, 0) /\ Sited(bbs) /\ bbs[Dummy].start = 0
  BY DEF Inv, Typed, Control, WfBlocks, IsSeq, Dummy, Pointers, RegisterAddr
<1>2. b \in 0..Len(bbs) /\ (a = 0 => b = Dummy)
  BY <1>1, BlockAtLifted DEF Dummy, Null
<1>3. /\ bbs' = (IF b = Null THEN bbs ELSE PutFlag(bbs, b, {"needs_trans_bb"}))
      /\ UNCHANGED <<prog, pos, ptr>>
  BY DEF RegisterAddr, PutFlag, Put, WithFlags
<1>4. \/ phase' = "register"
      \/ /\ b # Null /\ bbs[b].start # a /\ req' = [bb |-> b, addr |-> a, back |-> "register"]
         /\ phase' = "split"
  BY <1>1 DEF RegisterAddr
<1>5. a # 0 /\ b # Null => a \in Slots /\ ptr[a] = b
  BY BlockAtLifted
<1> HIDE DEF b, Mapped, Sited
<1>6. Keeps(bbs, bbs')
  <2>1. Keeps(bbs, bbs)
    BY <1>1, ExtendsReflexive, SameCfsKeeps DEF SameExtent
  <2> QED
    BY <1>1, <1>2, <1>3, <2>1, PutFlagKeeps DEF Null, Flags
<1>7. phase' = "split" => req'.addr \in Slots /\ ptr'[req'.addr] = req'.bb /\ bbs'[req'.bb].start # req'.addr
  <2> SUFFICES ASSUME phase' = "split"
               PROVE  req'.addr \in Slots /\ ptr'[req'.addr] = req'.bb /\ bbs'[req'.bb].start # req'.addr
    OBVIOUS
  <2>1. req'.bb = b /\ req'.addr = a /\ b # Null /\ bbs[b].start # a
    BY <1>4
  <2>2. a # 0
    BY <1>1, <1>2, <2>1
  <2>3. bbs'[b].start = bbs[b].start
    <3>1. b \in 1..Len(bbs)
      BY <1>1, <1>2, <2>1 DEF Null
    <3> QED
      BY <1>6, <3>1 DEF Keeps, Grows, Extends
  <2> QED
    BY <1>3, <1>5, <2>1, <2>2, <2>3
<1> QED
  BY <1>1, <1>3, <1>4, <1>6, <1>7, LatePointers

LEMMA AddEntryPointers ==
  ASSUME Inv, Pointers, AddEntry
  PROVE  Pointers'
<1> DEFINE n == Len(bbs) + 1
           cfs == <<Cf("jump", 0, 0, entry)>>
           x == WithCfs(EmptyBlock(0), cfs)
           A == Append(bbs, x)
<1>1. /\ WfBlocks(bbs) /\ Len(bbs) \in Nat /\ Len(bbs) >= 1 /\ phase = "ijumps"
      /\ ptr \in [Slots -> 0..Len(bbs)] /\ entry \in 1..Len(bbs) /\ N \in Nat
      /\ Mapped(bbs, ptr, 0) /\ Sited(bbs) /\ bbs[Dummy].start = 0
  BY NAssumption DEF Inv, Typed, Control, Lifting, WfBlocks, IsSeq, Dummy, Null, Pointers, AddEntry
<1> HIDE DEF Mapped, Sited
<1>2. n \in Nat /\ n \in 1..n /\ entry \in 1..n /\ entry \in 0..n
  BY <1>1
<1>3. WfCfs(cfs, n) /\ Sites(cfs)
  <2>1. WfCf(Cf("jump", 0, 0, entry), n)
    <3>1. "jump" \in CfType /\ 0 \in 0..N /\ 0 \in 0..(N + 1) /\ "jump" \notin {"ijump", "icall"}
      BY <1>1 DEF CfType
    <3> HIDE DEF n
    <3> QED
      BY <1>2, <3>1, CfWf
  <2>2. Site(Cf("jump", 0, 0, entry))
    BY DEF Site, Cf
  <2> HIDE DEF Site
  <2> QED
    BY <2>1, <2>2, SingleIsSeq DEF WfCfs, Sites
<1>4. WfBlock(EmptyBlock(0), n) /\ EmptyBlock(0).code = {} /\ EmptyBlock(0).start = 0 /\ EmptyBlock(0).end = 0
  BY <1>1, <1>2, EmptyBlockWf DEF EmptyBlock
<1>5. bbs' = AddEdge(A, n, entry) /\ UNCHANGED <<prog, pos, ptr>> /\ phase' = "done"
  BY DEF AddEntry, WithCfs
<1> HIDE DEF cfs, n
<1>6. WfBlock(x, n) /\ x.code = {} /\ x.start = 0 /\ x.end = 0 /\ Sites(x.cfs)
  <2> DEFINE e == EmptyBlock(0)
  <2>1. WfBlock(e, n) /\ e.code = {} /\ e.start = 0 /\ e.end = 0 /\ x = WithCfs(e, cfs)
    BY <1>4
  <2> HIDE DEF e, x, Sites
  <2>2. WfBlock(WithCfs(e, cfs), n)
    BY <1>3, <2>1, FieldsWf
  <2>3. WithCfs(e, cfs).cfs = cfs
    BY <2>1, FieldsSame
  <2>4. WithCfs(e, cfs).code = e.code /\ WithCfs(e, cfs).start = e.start /\ WithCfs(e, cfs).end = e.end
    BY <2>1, FieldsSame
  <2> QED
    BY <1>3, <2>1, <2>2, <2>3, <2>4
<1> HIDE DEF x
<1>7. Keeps(bbs, A) /\ WfBlocks(A) /\ Len(A) = n
  BY <1>1, <1>6, AppendKeeps DEF Keeps, Grows, n
<1> HIDE DEF A
<1>8. Keeps(A, bbs')
  BY <1>2, <1>5, <1>7, AddEdgeSame, SameCfsKeeps
<1>9. Keeps(bbs, bbs')
  BY <1>1, <1>7, <1>8, KeepsTransitive
<1> QED
  BY <1>1, <1>5, <1>9, LatePointers

-----------------------------------------------------------------------------
(* The theorem.                                                            *)

LEMMA InitPointers == Init => Pointers
<1> SUFFICES ASSUME Init
             PROVE  Pointers
  OBVIOUS
<1>1. /\ bbs = <<EmptyBlock(0)>> /\ ptr = [a \in Slots |-> Null] /\ phase = "scan" /\ pos = 1 /\ cur = Null
      /\ Len(bbs) = 1 /\ bbs[1] = EmptyBlock(0)
  BY DEF Init
<1>2. /\ \A b \in 1..Len(bbs) : /\ bbs[b].start = 0 /\ bbs[b].end = 0
                                /\ bbs[b].code = {} /\ bbs[b].cfs = <<>>
      /\ 0 \notin Slots
  BY <1>1 DEF EmptyBlock, Slots
<1>3. \A a \in Slots : ptr[a] = Null
  BY <1>1
<1>4. Mapped(bbs, ptr, 0)
  <2> HIDE DEF IsInstr
  <2> QED
    BY <1>2, <1>3 DEF Mapped, OwnCode, OpenAtStart, FoundInCode, Runs, FoundAtStart
<1>5. OpenBlock /\ CutsInside
  BY <1>1 DEF OpenBlock, CutsInside
<1>6. StartsBehind
  <2>1. \A a \in Slots : ~Lifted(a + 1)
    BY <1>1 DEF Lifted, Slots
  <2> HIDE DEF Lifted
  <2> QED
    BY <2>1 DEF StartsBehind
<1>7. Sited(bbs)
  BY <1>2, EmptyIsSeq DEF Sited, Sites
<1>8. bbs[Dummy].start = 0
  BY <1>1, <1>2 DEF Dummy
<1> QED
  BY <1>4, <1>5, <1>6, <1>7, <1>8 DEF Pointers

(* Every step of the lifter keeps the pointers and the blocks together. *)
LEMMA NextPointers ==
  ASSUME Inv, CodePartition, AllYield => Pointers, [Next]_vars
  PROVE  (AllYield => Pointers)'
<1>1. Disjoint(bbs)
  <2>1. IsSeq(bbs) /\ \A b \in 1..Len(bbs) : bbs[b].code \subseteq Slots
    BY DEF Inv, Typed, WfBlocks, WfBlock
  <2> HIDE DEF CodePartition, Disjoint
  <2> QED
    BY <2>1, PartitionDisjoint
<1> HIDE DEF Disjoint, Inv, Pointers
<1>16. prog' = prog
  BY Zenon DEF Next, vars, Scan, ScanData, ScanInvalid, ScanInstr, FinishScan, Resolve, ResolveReturn,
     ResolveUnknown, ResolveLink, ResolveSplit, Split, SplitCrash, Post, FinishPost, Backtrace,
     FinishRegister, RegisterAddr, AddEntry, Halt
<1>17. AllYield' <=> AllYield
  BY <1>16 DEF AllYield, IsInstr, Yields
<1> SUFFICES ASSUME AllYield
             PROVE  Pointers'
  BY <1>17
<1>18. Pointers
  OBVIOUS
<1> HIDE DEF AllYield
<1>2. CASE ScanData
  BY <1>1, <1>2, ScanDataPointers
<1>3. CASE ScanInvalid
  BY <1>1, <1>3, ScanInvalidPointers
<1>4. CASE ScanInstr
  BY <1>1, <1>4, ScanInstrPointers
<1>5. CASE FinishScan
  BY <1>5, SamePointers DEF FinishScan
<1>6. CASE Resolve
  BY <1>6, ResolvePointers
<1>7. CASE Split
  BY <1>1, <1>7, SplitPointers
<1>8. CASE SplitCrash
  BY <1>8, SamePointers DEF SplitCrash
<1>9. CASE Post
  BY <1>9, PostPointers
<1>10. CASE FinishPost
  BY <1>10, SamePointers DEF FinishPost
<1>11. CASE Backtrace
  BY <1>11, SamePointers DEF Backtrace
<1>12. CASE FinishRegister
  BY <1>12, SamePointers DEF FinishRegister
<1>13. CASE \E a \in 0..(N + 1) : RegisterAddr(a)
  BY <1>13, RegisterPointers
<1>14. CASE AddEntry
  BY <1>14, AddEntryPointers
<1>15. CASE UNCHANGED vars
  BY <1>15, SamePointers DEF vars
<1> QED
  BY <1>2, <1>3, <1>4, <1>5, <1>6, <1>7, <1>8, <1>9, <1>10, <1>11, <1>12, <1>13, <1>14, <1>15, Zenon
  DEF Next, Scan, Halt

(* For every program whose instructions, in front of another one, all      *)
(* declare a variable: get_bb returns for an instruction the block that    *)
(* holds it, and a block with an end is found at every instruction it      *)
(* holds, however often blocks are split.                                  *)
THEOREM PointersAgree == Spec => [](AllYield => PtrCoherent)
<1>1. Init => Inv /\ CodePartition /\ (AllYield => Pointers)
  <2> SUFFICES ASSUME Init
               PROVE  CodePartition
    BY InitInv, InitPointers
  <2>1. \A b \in BlockIds : bbs[b].code = {}
    BY DEF Init, BlockIds, EmptyBlock
  <2>2. \A i \in Slots : ~Lifted(i)
    BY DEF Init, Lifted, Slots
  <2> QED
    BY <2>1, <2>2 DEF CodePartition
<1>2. /\ Inv /\ CodePartition /\ (AllYield => Pointers)
      /\ [Next]_vars
      => (Inv /\ CodePartition /\ (AllYield => Pointers))'
  BY NextInv, NextPointers
<1>3. Inv /\ Pointers => PtrCoherent
  <2> SUFFICES ASSUME Inv, Pointers
               PROVE  PtrCoherent
    OBVIOUS
  <2>1. BlockIds = 1..Len(bbs) /\ OwnCode(bbs, ptr, 0) /\ FoundInCode(bbs, ptr)
    BY DEF Inv, Typed, WfBlocks, IsSeq, BlockIds, Pointers, Mapped
  <2>2. \A a \in Slots : a \in Slots \ {0}
    BY DEF Slots
  <2> HIDE DEF IsInstr
  <2>3. \A a \in Slots : ptr[a] # Null /\ IsInstr(a) => a \in bbs[ptr[a]].code
    BY <2>1, <2>2 DEF OwnCode
  <2>4. \A b \in BlockIds : bbs[b].end # 0 => \A a \in bbs[b].code : ptr[a] = b
    BY <2>1 DEF FoundInCode
  <2> QED
    BY <2>3, <2>4 DEF PtrCoherent
<1>4. Inv /\ (AllYield => Pointers) => (AllYield => PtrCoherent)
  BY <1>3
<1> QED
  BY <1>1, <1>2, <1>4, PTL DEF Spec

-----------------------------------------------------------------------------
(* Second part: direct jumps.  The inductive invariant.                    *)

(* The slots of the open block behind its first one: virt_bb_ptrs does not *)
(* say yet that they are taken.                                            *)
Inside == IF phase = "scan" /\ cur # Null THEN (bbs[cur].start + 1)..(pos - 1) ELSE {}

(* An address where a block starts, and one where a block can still start: *)
(* the scan has passed it without a block, or will open one there.         *)
Starts  == {j \in Slots : ptr[j] # Null /\ bbs[ptr[j]].start = j}
Awaited == {j \in Slots : ptr[j] = Null /\ (j >= pos => j \in needs)} \ Inside
Places  == Starts \cup Awaited

(* The operation jumps to one of the places T, and its target starts there. *)
Good(cf, B, T) ==
  Direct(cf) =>
    /\ cf.jump \in Slots => cf.jump \in T
    /\ cf.target # Null /\ cf.jump # 0 => B[cf.target].start \in {0, cf.jump}

(* The operations the loop of lift() has not finished with.                *)
Waiting(b, k) == Lifting /\ phase # "scan" /\ b = cur /\ k >= cfi

AllGood ==
  \A b \in 1..Len(bbs) : \A k \in DOMAIN bbs[b].cfs : Waiting(b, k) \/ Good(bbs[b].cfs[k], bbs, Places)

(* They are still as parse_instruction appended them. *)
Issued == CfsOf(prog[pos], pos)

Untouched(k) == bbs[cur].cfs[k] = Issued[k]

(* cur is a predecessor of no block. *)
NoEdges == \A b \in 1..Len(bbs) : cur \notin DOMAIN bbs[b].preds

Unlinked == phase = "scan" /\ cur # Null => NoEdges

Resolving ==
  phase = "cf" =>
    /\ Len(bbs[cur].cfs) = Len(Issued)
    /\ cfi \in 1..Len(Issued)
    /\ \A k \in cfi..Len(Issued) : Untouched(k)
    /\ NoEdges \/ \A k \in cfi..Len(Issued) : Issued[k].jump = pos + 1

Linking ==
  phase = "split" /\ req.back = "cf" =>
    /\ Len(bbs[cur].cfs) = Len(Issued)
    /\ cfi \in 1..Len(Issued)
    /\ \A k \in (cfi + 1)..Len(Issued) : Untouched(k) /\ Issued[k].jump = pos + 1
    /\ bbs[cur].cfs[cfi] = [Issued[cfi] EXCEPT !.target = req.bb]
    /\ Issued[cfi].jump = req.addr
    /\ Direct(Issued[cfi])
    /\ bbs[req.bb].preds[cur] = 1 /\ cur \in DOMAIN bbs[req.bb].preds

Jumps ==
  phase # "crashed" =>
    /\ AllGood
    /\ Unlinked
    /\ Resolving
    /\ Linking

-----------------------------------------------------------------------------
(* The operations of an instruction, and the places of a state.            *)

(* Of the two operations of a branch one goes to the next slot; only an    *)
(* operation with a known address has a jump.                              *)
LEMMA IssuedShape ==
  ASSUME NEW ins \in Instr, NEW i \in Slots, NEW I, I = CfsOf(ins, i)
  PROVE  /\ IsSeq(I) /\ Len(I) \in 0..2
         /\ ins.kind \in Terminators => 1 <= Len(I)
         /\ \A k \in 1..Len(I) : /\ WfCf(I[k], 0)
                                 /\ I[k].target = Null
                                 /\ Direct(I[k]) \/ I[k].jump = 0
                                 /\ I[k].type = "ret" => ~Direct(I[k])
                                 /\ ins.kind = "table" => ~Direct(I[k])
         /\ \A k, l \in 1..Len(I) : k # l => I[k].jump = i + 1 \/ I[l].jump = i + 1
<1>1. N \in Nat /\ i \in 1..N /\ 0 \in Nat
  BY NAssumption DEF Slots
<1>2. WfCfs(I, 0)
  BY <1>1, CfsOfWf
<1>3. IsSeq(I) /\ DOMAIN I = 1..Len(I)
  BY <1>2 DEF WfCfs, IsSeq
<1>4. \A k \in 1..Len(I) : WfCf(I[k], 0)
  BY <1>2, <1>3 DEF WfCfs
<1>5. ASSUME ins.kind \in {"beq", "bne"}
      PROVE  /\ Len(I) = 2 /\ \A k \in 1..2 : I[k].target = Null /\ Direct(I[k]) /\ I[k].type # "ret"
             /\ I[1].jump = i + 1 \/ I[2].jump = i + 1
  BY <1>5 DEF CfsOf, Cf, Direct, Null
<1>6. ASSUME ins.kind \notin {"beq", "bne"}
      PROVE  /\ Len(I) \in 0..1
             /\ ins.kind \in Terminators => Len(I) = 1
             /\ Len(I) = 1 => /\ I[1].target = Null
                              /\ Direct(I[1]) \/ I[1].jump = 0
                              /\ I[1].type = "ret" => ~Direct(I[1])
                              /\ ins.kind = "table" => ~Direct(I[1])
  BY <1>6 DEF CfsOf, Cf, Direct, Null, Terminators
<1>7. CASE ins.kind \in {"beq", "bne"}
  <2>1. \A k, l \in 1..2 : k # l => {k, l} = {1, 2}
    OBVIOUS
  <2> QED
    BY <1>3, <1>4, <1>5, <1>7, <2>1
<1>8. CASE ins.kind \notin {"beq", "bne"}
  <2>1. \A n \in 0..1 : \A k \in 1..n : k = 1 /\ n = 1
    OBVIOUS
  <2>2. \A k \in 1..Len(I) : k = 1 /\ Len(I) = 1
    BY <1>6, <1>8, <2>1
  <2> QED
    BY <1>3, <1>4, <1>6, <1>8, <2>2
<1> QED
  BY <1>7, <1>8

LEMMA GoodGrows ==
  ASSUME NEW B, NEW C, \A b \in 1..Len(B) : C[b].start = B[b].start, Len(B) \in Nat,
         NEW T, NEW U, T \subseteq U,
         NEW cf, cf.target \in 0..Len(B), Good(cf, B, T)
  PROVE  Good(cf, C, U)
<1>1. cf.target # Null => cf.target \in 1..Len(B)
  BY DEF Null
<1> QED
  BY <1>1 DEF Good

(* A block that starts at an address is found there (FoundAtStart), so     *)
(* only the addresses that are awaited can be lost.                        *)
LEMMA PlacesGrow ==
  ASSUME Inv, Inv', Pointers', Len(bbs) <= Len(bbs'),
         \A b \in 1..Len(bbs) : bbs'[b].start = bbs[b].start,
         \A j \in Awaited : IF ptr'[j] = Null THEN (j >= pos' => j \in needs') /\ j \notin Inside'
                                              ELSE bbs'[ptr'[j]].start = j
  PROVE  Places \subseteq Places'
<1>1. /\ Len(bbs) \in Nat /\ Len(bbs') \in Nat /\ ptr \in [Slots -> 0..Len(bbs)]
      /\ \A b \in 1..Len(bbs) : b \in 1..Len(bbs') /\ b # Null
  BY DEF Inv, Typed, WfBlocks, IsSeq, Null
<1>2. \A b \in 1..Len(bbs') : bbs'[b].start \in Slots => ptr'[bbs'[b].start] = b
  BY DEF Pointers, Mapped, FoundAtStart
<1>3. ASSUME NEW j \in Starts
      PROVE  j \in Places'
  <2>1. j \in Slots /\ ptr[j] \in 1..Len(bbs) /\ bbs[ptr[j]].start = j
    BY <1>1 DEF Starts, Null
  <2>2. ptr'[j] = ptr[j]
    BY <1>1, <1>2, <2>1
  <2> QED
    BY <1>1, <2>1, <2>2 DEF Places, Starts
<1>4. ASSUME NEW j \in Awaited
      PROVE  j \in Places'
  <2>1. j \in Slots
    BY DEF Awaited
  <2> HIDE DEF Inside
  <2>2. CASE ptr'[j] = Null
    BY <2>1, <2>2 DEF Places, Awaited
  <2>3. CASE ptr'[j] # Null
    BY <2>1, <2>3 DEF Places, Starts
  <2> QED
    BY <2>2, <2>3
<1> QED
  BY <1>3, <1>4 DEF Places

-----------------------------------------------------------------------------
(* Steps that leave the operations alone.                                  *)

(* Every operation is one from before, waiting before only if it is still  *)
(* waiting, or a good one.                                                 *)
LEMMA AllGoodKept ==
  ASSUME Inv, AllGood, Places \subseteq Places', Len(bbs) <= Len(bbs'),
         \A b \in 1..Len(bbs) : bbs'[b].start = bbs[b].start,
         \A b \in 1..Len(bbs') : \A k \in DOMAIN bbs'[b].cfs :
           \/ /\ b \in 1..Len(bbs) /\ k \in DOMAIN bbs[b].cfs /\ bbs'[b].cfs[k] = bbs[b].cfs[k]
              /\ Waiting(b, k) => Waiting(b, k)'
           \/ Waiting(b, k)'
           \/ Good(bbs'[b].cfs[k], bbs', Places')
  PROVE  AllGood'
<1>1. /\ Len(bbs) \in Nat
      /\ \A b \in 1..Len(bbs) : \A k \in DOMAIN bbs[b].cfs : bbs[b].cfs[k].target \in 0..Len(bbs)
  BY DEF Inv, Typed, WfBlocks, WfBlock, WfCfs, WfCf, IsSeq
<1>2. ASSUME NEW b \in 1..Len(bbs'), NEW k \in DOMAIN bbs'[b].cfs
      PROVE  Waiting(b, k)' \/ Good(bbs'[b].cfs[k], bbs', Places')
  <2> HIDE DEF Waiting, Good, Places
  <2>1. CASE /\ b \in 1..Len(bbs) /\ k \in DOMAIN bbs[b].cfs /\ bbs'[b].cfs[k] = bbs[b].cfs[k]
             /\ Waiting(b, k) => Waiting(b, k)'
    <3>1. CASE ~Waiting(b, k)
      <4>1. Good(bbs[b].cfs[k], bbs, Places)
        BY <2>1, <3>1 DEF AllGood
      <4>2. Good(bbs[b].cfs[k], bbs', Places')
        BY <1>1, <2>1, <4>1, GoodGrows
      <4> QED
        BY <2>1, <4>2
    <3> QED
      BY <2>1, <3>1
  <2> QED
    BY <2>1
<1> HIDE DEF Waiting, Good, Places
<1> QED
  BY <1>2 DEF AllGood

(* The blocks and the pointers stay, and the loop is not under way. *)
LEMMA SameJumps ==
  ASSUME Inv, Inv', Pointers', Jumps, UNCHANGED <<prog, bbs, ptr>>,
         \/ phase' = "crashed"
         \/ /\ phase = "scan" /\ pos > N /\ phase' = "post"
         \/ /\ phase \in {"post", "ijumps", "register"}
            /\ phase' \in {"post", "ijumps", "register"}
         \/ UNCHANGED vars
  PROVE  Jumps'
<1>1. CASE phase' = "crashed"
  BY <1>1 DEF Jumps
<1>2. CASE UNCHANGED vars
  <2> SUFFICES ASSUME phase' # "crashed"
               PROVE  AllGood' /\ Unlinked' /\ Resolving' /\ Linking'
    BY DEF Jumps
  <2>1. AllGood /\ Unlinked /\ Resolving /\ Linking
    BY <1>2 DEF Jumps, vars
  <2>2. Places' = Places
    BY <1>2 DEF Places, Starts, Awaited, Inside, vars
  <2>3. AllGood'
    BY <1>2, <2>1, <2>2 DEF AllGood, Waiting, Lifting, vars
  <2> QED
    BY <1>2, <2>1, <2>3 DEF Unlinked, Resolving, Linking, NoEdges, Untouched, Issued, vars
<1>3. CASE phase \in {"scan", "post", "ijumps", "register"} /\ phase' \in {"post", "ijumps", "register", "done"}
  <2>1. pos' = N + 1 /\ N \in Nat /\ \A j \in Slots : ~(j >= pos')
    BY <1>3, NAssumption DEF Inv, Control, Lifting, Slots
  <2>2. Inside' = {}
    BY <1>3 DEF Inside
  <2>3. Places \subseteq Places'
    <3> HIDE DEF Inside
    <3>1. Starts \subseteq Starts'
      BY DEF Starts
    <3>2. Awaited \subseteq Awaited'
      BY <2>1, <2>2 DEF Awaited
    <3> QED
      BY <3>1, <3>2 DEF Places
  <2>4. \A b, k : ~Waiting(b, k)
    BY <1>3 DEF Waiting, Lifting
  <2>5. AllGood /\ Len(bbs) \in Nat
    BY <1>3 DEF Jumps, Inv, Typed, WfBlocks, IsSeq
  <2> HIDE DEF Waiting, Places
  <2>6. AllGood'
    BY <2>3, <2>4, <2>5, AllGoodKept
  <2> QED
    BY <1>3, <2>6 DEF Jumps, Unlinked, Resolving, Linking
<1> QED
  BY <1>1, <1>2, <1>3

-----------------------------------------------------------------------------
(* Lifter::postprocess, process_ijumps and the entry block.                *)

OpsGood(B, T) == \A b \in 1..Len(B) : \A k \in DOMAIN B[b].cfs : Good(B[b].cfs[k], B, T)

LEMMA OpsTyped ==
  ASSUME NEW B, WfBlocks(B)
  PROVE  /\ Len(B) \in Nat
         /\ \A b \in 1..Len(B) : IsSeq(B[b].cfs)
         /\ \A b \in 1..Len(B) : \A k \in DOMAIN B[b].cfs : B[b].cfs[k].target \in 0..Len(B)
<1>1. \A b \in 1..Len(B) : WfCfs(B[b].cfs, Len(B))
  BY DEF WfBlocks, WfBlock
<1>2. \A b \in 1..Len(B) : \A k \in DOMAIN B[b].cfs : WfCf(B[b].cfs[k], Len(B))
  BY <1>1 DEF WfCfs
<1> QED
  BY <1>1, <1>2 DEF WfBlocks, WfCfs, WfCf, IsSeq

LEMMA OpGrows ==
  ASSUME NEW B, WfBlocks(B), NEW C, \A b \in 1..Len(B) : C[b].start = B[b].start,
         NEW T, NEW U, T \subseteq U, OpsGood(B, T)
  PROVE  \A b \in 1..Len(B) : \A k \in DOMAIN B[b].cfs : Good(B[b].cfs[k], C, U)
<1> TAKE b \in 1..Len(B)
<1> TAKE k \in DOMAIN B[b].cfs
<1>1. Good(B[b].cfs[k], B, T)
  BY DEF OpsGood
<1>2. Len(B) \in Nat /\ B[b].cfs[k].target \in 0..Len(B)
  BY OpsTyped
<1> HIDE DEF Good
<1> QED
  BY <1>1, <1>2, GoodGrows

(* C is B with more blocks, edges and flags, and its operations are good   *)
(* wherever those of B are.                                                *)
StaysGood(B, C, T) ==
  /\ WfBlocks(C)
  /\ Len(B) <= Len(C)
  /\ \A b \in 1..Len(B) : C[b].start = B[b].start
  /\ OpsGood(B, T) => OpsGood(C, T)

LEMMA StaysGoodTransitive ==
  ASSUME NEW B, NEW C, NEW D, NEW T, WfBlocks(B), StaysGood(B, C, T), StaysGood(C, D, T)
  PROVE  StaysGood(B, D, T)
<1>1. Len(B) \in Nat /\ Len(C) \in Nat /\ Len(D) \in Nat
  BY DEF StaysGood, WfBlocks, IsSeq
<1>2. \A b \in 1..Len(B) : b \in 1..Len(C)
  BY <1>1 DEF StaysGood
<1> HIDE DEF OpsGood
<1> QED
  BY <1>1, <1>2 DEF StaysGood

LEMMA SameOpsGood ==
  ASSUME NEW B, NEW C, NEW T, WfBlocks(B), SameExtent(B, C), \A c \in 1..Len(B) : C[c].cfs = B[c].cfs
  PROVE  StaysGood(B, C, T)
<1>1. /\ Len(B) \in Nat /\ Len(C) = Len(B) /\ WfBlocks(C)
      /\ \A b \in 1..Len(B) : C[b].start = B[b].start
  BY OpsTyped DEF SameExtent, Extends
<1>2. OpsGood(B, T) => \A b \in 1..Len(B) : \A k \in DOMAIN B[b].cfs : Good(B[b].cfs[k], C, T)
  BY <1>1, OpGrows
<1> HIDE DEF Good
<1> QED
  BY <1>1, <1>2 DEF StaysGood, OpsGood

LEMMA PutFlagGood ==
  ASSUME NEW B, WfBlocks(B), NEW b \in 1..Len(B), NEW F \in SUBSET Flags, NEW T
  PROVE  StaysGood(B, PutFlag(B, b, F), T)
<1> DEFINE x == WithFlags(B[b], B[b].flags \cup F)
<1>1. WfBlock(B[b], Len(B))
  BY DEF WfBlocks
<1>2. B[b].flags \cup F \in SUBSET Flags
  BY <1>1 DEF WfBlock
<1>3. WfBlock(x, Len(B)) /\ x.cfs = B[b].cfs
      /\ x.start = B[b].start /\ x.end = B[b].end /\ x.code = B[b].code
  BY <1>1, <1>2, FieldsWf, FieldsSame
<1>4. PutFlag(B, b, F) = Put(B, b, x)
  BY DEF PutFlag
<1> HIDE DEF x
<1>5. SameExtent(B, Put(B, b, x))
  BY <1>3, PutSame
<1>6. \A c \in 1..Len(B) : Put(B, b, x)[c].cfs = B[c].cfs
  BY <1>3, PutWf
<1> QED
  BY <1>4, <1>5, <1>6, SameOpsGood

(* An operation that is good afterwards if it was good before. *)
LEMMA PutCfGood ==
  ASSUME NEW B, WfBlocks(B), NEW T, NEW b \in 1..Len(B), NEW k, NEW cf,
         k \in DOMAIN B[b].cfs => WfCf(cf, Len(B)) /\ (Good(B[b].cfs[k], B, T) => Good(cf, B, T))
  PROVE  StaysGood(B, PutCf(B, b, k, cf), T) /\ Len(PutCf(B, b, k, cf)) = Len(B)
<1> DEFINE C == PutCf(B, b, k, cf)
<1> HIDE DEF Good, WfCf
<1>1. SameExtent(B, C) /\ \A c \in 1..Len(B) : C[c].cfs = CfsBut(B, b, k, cf, c)
  BY PutCfSame, PutCfCfs
<1> HIDE DEF C
<1>2. /\ Len(C) = Len(B) /\ Len(B) \in Nat /\ WfBlocks(C)
      /\ \A c \in 1..Len(B) : C[c].start = B[c].start
  BY <1>1 DEF SameExtent, Extends, WfBlocks, IsSeq
<1>3. ASSUME OpsGood(B, T), NEW c \in 1..Len(B), NEW l \in DOMAIN C[c].cfs
      PROVE  Good(C[c].cfs[l], C, T)
  <2>1. l \in DOMAIN B[c].cfs /\ C[c].cfs[l] = IF c = b /\ l = k THEN cf ELSE B[c].cfs[l]
    BY <1>1, <1>3 DEF CfsBut
  <2>2. Good(B[c].cfs[l], B, T) /\ WfCf(B[c].cfs[l], Len(B))
    BY <1>3, <2>1 DEF OpsGood, WfBlocks, WfBlock, WfCfs
  <2>3. Good(C[c].cfs[l], B, T) /\ WfCf(C[c].cfs[l], Len(B))
    BY <2>1, <2>2
  <2>4. C[c].cfs[l].target \in 0..Len(B)
    BY <2>3 DEF WfCf
  <2> QED
    BY <1>2, <2>3, <2>4, GoodGrows
<1>4. StaysGood(B, C, T)
  BY <1>2, <1>3 DEF StaysGood, OpsGood
<1> QED
  BY <1>2, <1>4 DEF C

LEMMA AppendGood ==
  ASSUME NEW B, WfBlocks(B), NEW T, NEW x, WfBlock(x, Len(B) + 1),
         \A k \in DOMAIN x.cfs : Good(x.cfs[k], Append(B, x), T)
  PROVE  StaysGood(B, Append(B, x), T) /\ Len(Append(B, x)) = Len(B) + 1
<1> DEFINE C == Append(B, x)
<1>1. IsSeq(B) /\ Len(B) \in Nat /\ WfBlocks(C) /\ Len(C) = Len(B) + 1
  BY AppendBlockWf DEF WfBlocks, IsSeq
<1>2. /\ \A b \in 1..Len(B) : C[b] = B[b]
      /\ C[Len(B) + 1] = x
      /\ \A b \in 1..(Len(B) + 1) : b \in 1..Len(B) \/ b = Len(B) + 1
  BY <1>1, AppendIsSeq
<1> HIDE DEF C, Good
<1>3. OpsGood(B, T) => \A b \in 1..Len(B) : \A k \in DOMAIN B[b].cfs : Good(B[b].cfs[k], C, T)
  BY <1>2, OpGrows
<1>4. \A k \in DOMAIN x.cfs : Good(x.cfs[k], C, T)
  BY DEF C
<1>5. OpsGood(B, T) => OpsGood(C, T)
  BY <1>1, <1>2, <1>3, <1>4 DEF OpsGood
<1>6. StaysGood(B, C, T)
  BY <1>1, <1>2, <1>5 DEF StaysGood
<1> QED
  BY <1>1, <1>6 DEF C

LEMMA WithContGood ==
  ASSUME NEW B, WfBlocks(B), NEW T, NEW m, m[1] \in 1..Len(B), NEW c \in 1..Len(B)
  PROVE  /\ StaysGood(B, WithCont(B, m, c), T)
         /\ Len(WithCont(B, m, c)) = Len(B)
         /\ m[2] \in DOMAIN B[m[1]].cfs =>
              /\ m[2] \in DOMAIN WithCont(B, m, c)[m[1]].cfs
              /\ WithCont(B, m, c)[m[1]].cfs[m[2]].type = B[m[1]].cfs[m[2]].type
              /\ WithCont(B, m, c)[m[1]].cfs[m[2]].jump = B[m[1]].cfs[m[2]].jump
<1> DEFINE b == m[1]
           cf == [B[b].cfs[m[2]] EXCEPT !.cont = c]
           C == PutCf(B, b, m[2], cf)
           D == AddEdgeIfAbsent(C, b, c)
           E == PutFlag(D, c, {"call_cont_block"})
<1>1. Len(B) \in Nat /\ c \in 0..Len(B) /\ b \in 1..Len(B)
  BY DEF WfBlocks, IsSeq
<1>2. m[2] \in DOMAIN B[b].cfs =>
        /\ WfCf(cf, Len(B)) /\ (Good(B[b].cfs[m[2]], B, T) => Good(cf, B, T))
        /\ cf.type = B[b].cfs[m[2]].type /\ cf.jump = B[b].cfs[m[2]].jump
  <2>1. m[2] \in DOMAIN B[b].cfs => WfCf(B[b].cfs[m[2]], Len(B))
    BY <1>1 DEF WfBlocks, WfBlock, WfCfs
  <2>2. m[2] \in DOMAIN B[b].cfs => WfCf(cf, Len(B))
    BY <1>1, <2>1, CfFieldsWf
  <2>3. m[2] \in DOMAIN B[b].cfs =>
          /\ cf.type = B[b].cfs[m[2]].type /\ cf.jump = B[b].cfs[m[2]].jump
          /\ cf.target = B[b].cfs[m[2]].target
    BY <2>1 DEF WfCf, CfFields
  <2> QED
    BY <2>2, <2>3 DEF Good, Direct
<1>3. C = [B EXCEPT ![m[1]].cfs[m[2]].cont = c]
  BY DEF PutCf, Put, WithCfs
<1> HIDE DEF cf, Good
<1>4. /\ StaysGood(B, C, T) /\ WfBlocks(C) /\ Len(C) = Len(B)
      /\ \A d \in 1..Len(B) : C[d].cfs = CfsBut(B, b, m[2], cf, d)
  BY <1>1, <1>2, PutCfGood, PutCfSame, PutCfCfs DEF SameExtent
<1>5. WithCont(B, m, c) = E
  <2>1. WithCont(B, m, c) = [D EXCEPT ![c].flags = @ \cup {"call_cont_block"}]
    BY <1>3 DEF WithCont
  <2> QED
    BY <2>1 DEF PutFlag, Put, WithFlags
<1> HIDE DEF C
<1>6. /\ StaysGood(C, D, T) /\ WfBlocks(D) /\ Len(D) = Len(C)
      /\ \A d \in 1..Len(B) : D[d].cfs = C[d].cfs
  BY <1>1, <1>4, AddEdgeIfAbsentSame, SameOpsGood DEF SameExtent
<1> HIDE DEF D
<1>7. StaysGood(D, E, T) /\ Len(E) = Len(D)
  BY <1>1, <1>4, <1>6, PutFlagGood, PutFlagGrows DEF Flags
<1>8. \A d \in 1..Len(B) : E[d].cfs = D[d].cfs
  <2>1. \A d \in 1..Len(D) : E[d] = IF d = c THEN WithFlags(D[c], D[c].flags \cup {"call_cont_block"}) ELSE D[d]
    <3>1. WfBlock(D[c], Len(D)) /\ c \in 1..Len(D)
      BY <1>4, <1>6 DEF WfBlocks
    <3>2. D[c].flags \cup {"call_cont_block"} \in SUBSET Flags
      BY <3>1 DEF WfBlock, Flags
    <3>3. WfBlock(WithFlags(D[c], D[c].flags \cup {"call_cont_block"}), Len(D))
      BY <3>1, <3>2, FieldsWf
    <3> QED
      BY <1>6, <3>3, PutWf DEF PutFlag
  <2>2. WithFlags(D[c], D[c].flags \cup {"call_cont_block"}).cfs = D[c].cfs
    <3>1. WfBlock(D[c], Len(D))
      BY <1>4, <1>6 DEF WfBlocks
    <3> QED
      BY <3>1, FieldsSame
  <2> QED
    BY <1>4, <1>6, <2>1, <2>2
<1>9. m[2] \in DOMAIN B[b].cfs => m[2] \in DOMAIN C[b].cfs /\ C[b].cfs[m[2]] = cf
  BY <1>1, <1>4 DEF CfsBut
<1>10. /\ m[2] \in DOMAIN B[b].cfs => m[2] \in DOMAIN E[b].cfs /\ E[b].cfs[m[2]] = cf
       /\ Len(E) = Len(B)
  BY <1>1, <1>4, <1>6, <1>7, <1>8, <1>9
<1> HIDE DEF E
<1>11. StaysGood(B, E, T)
  BY <1>4, <1>6, <1>7, StaysGoodTransitive
<1> QED
  BY <1>2, <1>5, <1>10, <1>11

(* The target of an operation is set, to a block that starts at its jump. *)
LEMMA LinkToGood ==
  ASSUME NEW B, WfBlocks(B), NEW T, NEW m, m[1] \in 1..Len(B), NEW t \in 1..Len(B),
         m[2] \in DOMAIN B[m[1]].cfs => B[t].start \in {0, B[m[1]].cfs[m[2]].jump}
  PROVE  /\ StaysGood(B, AddEdge(LinkTo(B, m, t), m[1], t), T)
         /\ StaysGood(B, AddEdgeIfAbsent(LinkTo(B, m, t), m[1], t), T)
<1> DEFINE cf == [B[m[1]].cfs[m[2]] EXCEPT !.target = t]
<1>1. Len(B) \in Nat /\ t \in 0..Len(B)
  BY DEF WfBlocks, IsSeq
<1>2. m[2] \in DOMAIN B[m[1]].cfs =>
        WfCf(cf, Len(B)) /\ (Good(B[m[1]].cfs[m[2]], B, T) => Good(cf, B, T))
  <2>1. m[2] \in DOMAIN B[m[1]].cfs => WfCf(B[m[1]].cfs[m[2]], Len(B))
    BY DEF WfBlocks, WfBlock, WfCfs
  <2>2. m[2] \in DOMAIN B[m[1]].cfs => WfCf(cf, Len(B))
    BY <1>1, <2>1, CfFieldsWf
  <2>3. m[2] \in DOMAIN B[m[1]].cfs =>
          /\ cf.type = B[m[1]].cfs[m[2]].type /\ cf.jump = B[m[1]].cfs[m[2]].jump
          /\ cf.target = t
    BY <2>1 DEF WfCf, CfFields
  <2> QED
    BY <2>2, <2>3 DEF Good, Direct
<1>3. LinkTo(B, m, t) = PutCf(B, m[1], m[2], cf)
  BY DEF LinkTo
<1> HIDE DEF cf, Good
<1>4. StaysGood(B, LinkTo(B, m, t), T) /\ WfBlocks(LinkTo(B, m, t)) /\ Len(LinkTo(B, m, t)) = Len(B)
  BY <1>2, <1>3, PutCfGood, PutCfSame DEF SameExtent
<1>5. \A C : WfBlocks(C) /\ Len(C) = Len(B) =>
             StaysGood(C, AddEdge(C, m[1], t), T) /\ StaysGood(C, AddEdgeIfAbsent(C, m[1], t), T)
  BY AddEdgeSame, AddEdgeIfAbsentSame, SameOpsGood
<1> QED
  BY <1>4, <1>5, StaysGoodTransitive

(* cf is what postprocess read of the operation before it set the          *)
(* continuation; T are places of the pointers p.                           *)
LEMMA PostTargetGood ==
  ASSUME NEW B, WfBlocks(B), NEW T, NEW p \in [Slots -> 0..Len(B)], NEW m, m[1] \in 1..Len(B),
         m[2] \in DOMAIN B[m[1]].cfs,
         NEW cf, cf.target \in 0..Len(B),
         cf.type = B[m[1]].cfs[m[2]].type, cf.jump = B[m[1]].cfs[m[2]].jump,
         cf.type \notin {"ret", "unreachable"}, OpsGood(B, T),
         \A j \in T : p[j] # Null => B[p[j]].start = j
  PROVE  StaysGood(B, PostTarget(B, p, m, cf), T)
<1> DEFINE t == IF cf.jump \in Slots THEN p[cf.jump] ELSE Null
           b == m[1]
<1>0. WfCf(B[b].cfs[m[2]], Len(B))
  <2>1. WfBlock(B[b], Len(B))
    BY DEF WfBlocks
  <2> QED
    BY <2>1 DEF WfBlock, WfCfs
<1>1. Len(B) \in Nat /\ t \in 0..Len(B) /\ {"call_target"} \in SUBSET Flags /\ WfCf(B[b].cfs[m[2]], Len(B))
  BY <1>0 DEF WfBlocks, IsSeq, Null, Flags
<1>2. StaysGood(B, B, T)
  BY ExtendsReflexive, SameOpsGood DEF SameExtent
<1>3. CASE cf.type \in {"ijump", "icall"}
  BY <1>2, <1>3 DEF PostTarget
<1>4. CASE cf.type \notin {"ijump", "icall"} /\ cf.target # Null
  <2>1. CASE cf.type = "call"
    <3>1. PostTarget(B, p, m, cf) = PutFlag(B, cf.target, {"call_target"})
      BY <1>4, <2>1 DEF PostTarget, PutFlag, Put, WithFlags
    <3>2. cf.target \in 1..Len(B)
      BY <1>1, <1>4 DEF Null
    <3> QED
      BY <1>1, <3>1, <3>2, PutFlagGood
  <2>2. CASE cf.type # "call"
    BY <1>2, <1>4, <2>2 DEF PostTarget
  <2> QED
    BY <2>1, <2>2
<1>5. CASE cf.type \notin {"ijump", "icall"} /\ cf.target = Null /\ t # Null
  <2>1. t \in 1..Len(B) /\ cf.jump \in Slots
    <3>1. t \in 0..Len(B) /\ t # 0 /\ Len(B) \in Nat
      BY <1>1, <1>5 DEF Null
    <3>2. cf.jump \in Slots
      BY <1>5
    <3> HIDE DEF t
    <3> QED
      BY <3>1, <3>2
  <2> DEFINE L == AddEdgeIfAbsent(LinkTo(B, m, t), b, t)
  <2>2. LinkTo(B, m, t) = [B EXCEPT ![m[1]].cfs[m[2]].target = t]
    BY DEF LinkTo, PutCf, Put, WithCfs
  <2>3. PostTarget(B, p, m, cf) = IF cf.type = "call" THEN PutFlag(L, t, {"call_target"}) ELSE L
    <3> HIDE DEF t
    <3>1. L = AddEdgeIfAbsent([B EXCEPT ![m[1]].cfs[m[2]].target = t], m[1], t)
      BY <2>2
    <3> HIDE DEF L
    <3>2. PutFlag(L, t, {"call_target"}) = [L EXCEPT ![t].flags = @ \cup {"call_target"}]
      BY DEF PutFlag, Put, WithFlags
    <3> QED
      BY <1>5, <3>1, <3>2 DEF PostTarget, t
  <2>4. B[t].start = B[b].cfs[m[2]].jump
    <3>1. Good(B[b].cfs[m[2]], B, T)
      BY DEF OpsGood
    <3>2. Direct(B[b].cfs[m[2]])
      BY <1>1, <1>5 DEF WfCf, CfType, Direct
    <3>3. cf.jump \in T
      BY <2>1, <3>1, <3>2 DEF Good
    <3> QED
      BY <1>5, <2>1, <3>3
  <2>5. StaysGood(B, L, T) /\ WfBlocks(L) /\ Len(L) = Len(B)
    <3>1. StaysGood(B, L, T)
      <4>1. m[2] \in DOMAIN B[m[1]].cfs => B[t].start \in {0, B[m[1]].cfs[m[2]].jump}
        BY <2>4
      <4> HIDE DEF t
      <4> QED
        BY <2>1, <4>1, LinkToGood
    <3>2. Len(L) = Len(B)
      BY <2>1, LinkToGrows
    <3> QED
      BY <3>1, <3>2 DEF StaysGood
  <2> HIDE DEF L, t
  <2>6. StaysGood(L, PutFlag(L, t, {"call_target"}), T)
    BY <1>1, <2>1, <2>5, PutFlagGood
  <2>7. StaysGood(B, PutFlag(L, t, {"call_target"}), T)
    BY <2>5, <2>6, StaysGoodTransitive
  <2> QED
    BY <2>3, <2>5, <2>7
<1>6. CASE cf.type = "syscall" /\ cf.target = Null /\ t = Null
  <2> DEFINE n == Len(B) + 1
             x == [TrapBlock(0) EXCEPT !.end = 0]
             A == Append(B, x)
             C == LinkTo(A, m, n)
  <2>1. WfBlock(x, n) /\ x.code = {}
    <3>1. n \in Nat /\ 0 \in 0..N
      BY <1>1, NAssumption
    <3> HIDE DEF n
    <3> QED
      BY <3>1, TrapBlockWf
  <2>2. x.start = 0 /\ \A k \in DOMAIN x.cfs : Good(x.cfs[k], A, T)
    <3>1. x.start = 0 /\ x.cfs = <<Cf("unreachable", 0, 0, Null)>>
      BY DEF TrapBlock, EmptyBlock
    <3>2. Good(Cf("unreachable", 0, 0, Null), A, T)
      BY DEF Good, Direct, Cf
    <3> HIDE DEF x, A, Good
    <3> QED
      BY <3>1, <3>2, SingleIsSeq
  <2>3. StaysGood(B, A, T) /\ WfBlocks(A) /\ Len(A) = n
    <3> HIDE DEF x
    <3> QED
      BY <2>1, <2>2, AppendGood DEF StaysGood
  <2>4. n \in 1..n /\ m[1] \in 1..n
    BY <1>1
  <2>5. C = [A EXCEPT ![m[1]].cfs[m[2]].target = n]
    BY DEF LinkTo, PutCf, Put, WithCfs
  <2>6. PostTarget(B, p, m, cf) = AddEdge(C, m[1], n)
    BY <1>6, <2>5 DEF PostTarget
  <2>7. A[n].start = 0
    <3> HIDE DEF x
    <3>1. IsSeq(B)
      BY DEF WfBlocks
    <3> QED
      BY <2>2, <3>1, AppendIsSeq
  <2> HIDE DEF A, n
  <2>8. StaysGood(A, AddEdge(C, m[1], n), T)
    BY <2>3, <2>4, <2>7, LinkToGood
  <2> QED
    BY <2>3, <2>6, <2>8, StaysGoodTransitive
<1>7. CASE cf.type \notin {"ijump", "icall", "syscall"} /\ cf.target = Null /\ t = Null
  <2> DEFINE k == m[2]
             c == [B[b].cfs[k] EXCEPT !.type = "unreachable", !.cont = Null]
  <2>1. WfCf(c, Len(B)) /\ Good(c, B, T)
    <3>1. WfCf(c, Len(B))
      BY <1>1, CfFieldsWf
    <3>2. c.type = "unreachable"
      BY <1>1 DEF WfCf, CfFields
    <3> QED
      BY <3>1, <3>2 DEF Good, Direct
  <2>2. PostTarget(B, p, m, cf) = PutCf(B, b, k, c)
    BY <1>7 DEF PostTarget, PutCf, Put, WithCfs
  <2> HIDE DEF c, Good
  <2> QED
    BY <2>1, <2>2, PutCfGood
<1> QED
  BY <1>3, <1>4, <1>5, <1>6, <1>7

Late == phase \in {"post", "ijumps", "register"}

LEMMA LateGood ==
  ASSUME Inv, Jumps, Late
  PROVE  /\ OpsGood(bbs, Places)
         /\ \A j \in Places : ptr[j] # Null => bbs[ptr[j]].start = j
<1>1. AllGood /\ \A b, k : ~Waiting(b, k)
  BY DEF Jumps, Late, Waiting, Lifting
<1> HIDE DEF Waiting, Good
<1>2. OpsGood(bbs, Places)
  BY <1>1 DEF AllGood, OpsGood
<1> QED
  BY <1>2 DEF Places, Starts, Awaited

LEMMA LateJumps ==
  ASSUME Inv, Inv', Pointers', Jumps, Late, pos' = pos, StaysGood(bbs, bbs', Places),
         phase' \in {"post", "ijumps", "register", "split", "done"},
         phase' = "split" => req'.back = "register",
         \A j \in Slots : ptr[j] = Null /\ ptr'[j] # Null => bbs'[ptr'[j]].start = j
  PROVE  Jumps'
<1>1. pos' = N + 1 /\ N \in Nat /\ \A j \in Slots : ~(j >= pos')
  BY NAssumption DEF Inv, Control, Lifting, Slots, Late
<1>2. Inside' = {}
  BY DEF Inside
<1>3. Places \subseteq Places'
  <2> HIDE DEF Inside
  <2>1. \A j \in Awaited : j \in Slots /\ ptr[j] = Null
    BY DEF Awaited
  <2>2. \A j \in Awaited : IF ptr'[j] = Null THEN (j >= pos' => j \in needs') /\ j \notin Inside'
                                             ELSE bbs'[ptr'[j]].start = j
    BY <1>1, <1>2, <2>1
  <2> HIDE DEF Awaited
  <2> QED
    BY <2>2, PlacesGrow DEF StaysGood
<1>4. OpsGood(bbs', Places)
  BY LateGood DEF StaysGood
<1>5. ASSUME NEW b \in 1..Len(bbs'), NEW k \in DOMAIN bbs'[b].cfs
      PROVE  Good(bbs'[b].cfs[k], bbs', Places')
  <2>1. Good(bbs'[b].cfs[k], bbs', Places)
    BY <1>4, <1>5 DEF OpsGood
  <2> HIDE DEF Places
  <2> QED
    BY <1>3, <2>1 DEF Good
<1>6. AllGood'
  <2> HIDE DEF Good, Places, Waiting
  <2> QED
    BY <1>5 DEF AllGood
<1>7. Unlinked' /\ Resolving' /\ Linking'
  BY DEF Unlinked, Resolving, Linking
<1> QED
  BY <1>6, <1>7 DEF Jumps

LEMMA PostJumps ==
  ASSUME Inv, Inv', Pointers', Jumps, Post
  PROVE  Jumps'
<1> DEFINE m  == Least(todo)
           cf == bbs[m[1]].cfs[m[2]]
           a  == cf.instr + 1
           T  == Places
<1>1. /\ WfBlocks(bbs) /\ Len(bbs) \in Nat /\ Len(bbs) >= 1 /\ phase = "post" /\ todo # {}
      /\ todo \subseteq (1..Len(bbs)) \X (Nat \ {0})
      /\ \A o \in todo : o[2] \in DOMAIN bbs[o[1]].cfs
      /\ ptr \in [Slots -> 0..Len(bbs)] /\ N \in Nat /\ Late
  BY NAssumption DEF Inv, Typed, Control, WfBlocks, IsSeq, Post, Null, Dummy, Late
<1>2. m \in todo /\ m[1] \in 1..Len(bbs) /\ m[2] \in DOMAIN bbs[m[1]].cfs
  <2>1. todo \subseteq Nat \X Nat
    BY <1>1
  <2>2. Least(todo) \in todo
    BY <1>1, <2>1, LeastIn
  <2> QED
    BY <1>1, <2>2
<1>3. /\ PostPass(m, cf) \/ PostJump(m, cf) \/ PostCall(m, cf) \/ PostCallTrap(m, cf) \/ PostCrash(m, cf)
      /\ UNCHANGED <<prog, pos, cur, cfi, req, needs, entry, found>>
  BY Zenon DEF Post
<1>4. cf.target \in 0..Len(bbs)
  <2>1. WfBlock(bbs[m[1]], Len(bbs))
    BY <1>1, <1>2 DEF WfBlocks
  <2> QED
    BY <1>2, <2>1 DEF WfBlock, WfCfs, WfCf
<1>5. OpsGood(bbs, T) /\ \A j \in T : j \in Slots /\ (ptr[j] # Null => bbs[ptr[j]].start = j)
  BY <1>1, LateGood DEF Places, Starts, Awaited
<1>6. cf.type = bbs[m[1]].cfs[m[2]].type /\ cf.jump = bbs[m[1]].cfs[m[2]].jump
  OBVIOUS
<1> HIDE DEF m, cf, T, Late
<1>7. CASE PostPass(m, cf) \/ PostCrash(m, cf)
  <2>1. UNCHANGED <<prog, bbs, ptr>> /\ phase' \in {"post", "crashed"}
    BY <1>3, <1>7 DEF PostPass, PostCrash, PostGoOn
  <2> QED
    BY <1>1, <2>1, SameJumps
<1>8. CASE PostJump(m, cf)
  <2>1. bbs' = PostTarget(bbs, ptr, m, cf) /\ ptr' = ptr /\ phase' = "post"
        /\ cf.type \notin {"ret", "unreachable"}
    BY <1>8 DEF PostJump, PostGoOn
  <2>2. StaysGood(bbs, bbs', T)
    BY <1>1, <1>2, <1>4, <1>5, <1>6, <2>1, PostTargetGood
  <2> QED
    BY <1>1, <1>3, <2>1, <2>2, LateJumps DEF T
<1>9. CASE PostCall(m, cf)
  <2> DEFINE B == WithCont(bbs, m, ptr[a])
  <2>1. a \in Slots /\ ptr[a] \in 1..Len(bbs)
    BY <1>9, BlockAtLifted DEF PostCall
  <2>2. bbs' = PostTarget(B, ptr, m, cf) /\ ptr' = ptr /\ phase' = "post"
        /\ cf.type \notin {"ret", "unreachable"}
    BY <1>9 DEF PostCall, PostGoOn
  <2>3. /\ StaysGood(bbs, B, T) /\ Len(B) = Len(bbs) /\ WfBlocks(B)
        /\ m[2] \in DOMAIN B[m[1]].cfs
        /\ cf.type = B[m[1]].cfs[m[2]].type /\ cf.jump = B[m[1]].cfs[m[2]].jump
    <3>1. WfBlocks(bbs)
      BY <1>1
    <3>2. PICK c : c = ptr[a]
      OBVIOUS
    <3>3. B = WithCont(bbs, m, c) /\ c \in 1..Len(bbs)
      BY <2>1, <3>2
    <3> HIDE DEF B, a
    <3>4. StaysGood(bbs, B, T) /\ Len(B) = Len(bbs)
      BY <1>2, <3>1, <3>3, WithContGood
    <3>5. /\ m[2] \in DOMAIN B[m[1]].cfs
          /\ B[m[1]].cfs[m[2]].type = bbs[m[1]].cfs[m[2]].type
          /\ B[m[1]].cfs[m[2]].jump = bbs[m[1]].cfs[m[2]].jump
      BY <1>2, <3>1, <3>3, WithContGood
    <3> QED
      BY <1>6, <3>4, <3>5 DEF StaysGood
  <2> HIDE DEF B, a
  <2>4. OpsGood(B, T) /\ \A j \in T : ptr[j] # Null => B[ptr[j]].start = j
    <3>1. \A j \in T : ptr[j] # Null => ptr[j] \in 1..Len(bbs)
      BY <1>1, <1>5 DEF Null
    <3> QED
      BY <1>5, <2>3, <3>1 DEF StaysGood
  <2>5. StaysGood(B, bbs', T)
    BY <1>1, <1>2, <1>4, <2>2, <2>3, <2>4, PostTargetGood
  <2>6. StaysGood(bbs, bbs', T)
    BY <1>1, <2>3, <2>5, StaysGoodTransitive
  <2> QED
    BY <1>1, <1>3, <2>2, <2>6, LateJumps DEF T
<1>10. CASE PostCallTrap(m, cf)
  <2> DEFINE n == Len(bbs) + 1
             x == TrapBlock(a)
             A == Append(bbs, x)
             B == WithCont(A, m, n)
  <2>1. /\ a \in Slots /\ ptr[a] = Null /\ ptr' = [ptr EXCEPT ![a] = n]
        /\ bbs' = PostTarget(B, ptr', m, cf) /\ phase' = "post"
        /\ cf.type \notin {"ret", "unreachable"}
    BY <1>10 DEF PostCallTrap, PostGoOn
  <2>2. WfBlock(x, n) /\ x.start = a /\ n \in Nat /\ \A k \in DOMAIN x.cfs : Good(x.cfs[k], A, T)
    <3>1. a \in 0..N /\ n \in Nat
      BY <1>1, <2>1 DEF Slots
    <3>2. x.start = a /\ x.cfs = <<Cf("unreachable", 0, 0, Null)>>
      BY DEF TrapBlock, EmptyBlock
    <3>3. Good(Cf("unreachable", 0, 0, Null), A, T)
      BY DEF Good, Direct, Cf
    <3>4. WfBlock(x, n)
      BY <3>1, TrapBlockWf
    <3> HIDE DEF x, A, Good
    <3> QED
      BY <3>1, <3>2, <3>3, <3>4, SingleIsSeq
  <2> HIDE DEF x, Good
  <2>3. StaysGood(bbs, A, T) /\ Len(A) = n /\ WfBlocks(A)
    BY <1>1, <2>2, AppendGood DEF StaysGood
  <2>4. /\ A[n] = x /\ \A b \in 1..Len(bbs) : A[b] = bbs[b]
    BY <1>1, AppendIsSeq DEF WfBlocks
  <2>5. n \in 1..n /\ m[1] \in 1..n /\ cf.target \in 0..n /\ ptr' \in [Slots -> 0..n]
    BY <1>1, <1>2, <1>4, <2>1
  <2>6. \A j \in Slots : ptr'[j] = IF j = a THEN n ELSE ptr[j]
    BY <1>1, <2>1
  <2>7. m[2] \in DOMAIN A[m[1]].cfs /\ A[m[1]].cfs[m[2]] = bbs[m[1]].cfs[m[2]]
    BY <1>2, <2>4
  <2> HIDE DEF A
  <2>8. /\ StaysGood(A, B, T) /\ Len(B) = n /\ WfBlocks(B)
        /\ m[2] \in DOMAIN B[m[1]].cfs
        /\ cf.type = B[m[1]].cfs[m[2]].type /\ cf.jump = B[m[1]].cfs[m[2]].jump
    <3>1. m[1] \in 1..Len(A) /\ n \in 1..Len(A)
      BY <2>3, <2>5
    <3> HIDE DEF n
    <3>2. /\ StaysGood(A, B, T) /\ Len(B) = Len(A)
          /\ m[2] \in DOMAIN A[m[1]].cfs =>
               /\ m[2] \in DOMAIN B[m[1]].cfs
               /\ B[m[1]].cfs[m[2]].type = A[m[1]].cfs[m[2]].type
               /\ B[m[1]].cfs[m[2]].jump = A[m[1]].cfs[m[2]].jump
      BY <2>3, <3>1, WithContGood
    <3> HIDE DEF B
    <3> QED
      BY <1>6, <2>3, <2>7, <3>2 DEF StaysGood
  <2>9. OpsGood(B, T) /\ \A j \in T : ptr'[j] # Null => B[ptr'[j]].start = j
    <3>1. \A j \in T : ptr'[j] # Null => j = a \/ ptr[j] \in 1..Len(bbs)
      BY <1>1, <1>5, <2>6 DEF Null
    <3>2. B[n].start = a /\ \A b \in 1..Len(bbs) : B[b].start = bbs[b].start
      <4>1. \A b \in 1..Len(bbs) : b \in 1..n
        BY <1>1
      <4> HIDE DEF n, B, a
      <4> QED
        BY <2>2, <2>3, <2>4, <2>5, <2>8, <4>1 DEF StaysGood
    <3>3. OpsGood(B, T)
      BY <1>5, <2>3, <2>8 DEF StaysGood
    <3> HIDE DEF B, n, a
    <3>4. ASSUME NEW j \in T, ptr'[j] # Null
          PROVE  B[ptr'[j]].start = j
      <4>1. j \in Slots
        BY <1>5
      <4>2. CASE j = a
        BY <2>6, <3>2, <4>1, <4>2
      <4>3. CASE j # a
        <5>1. ptr'[j] = ptr[j] /\ ptr[j] \in 1..Len(bbs) /\ ptr[j] # Null
          BY <2>6, <3>1, <3>4, <4>1, <4>3
        <5>2. bbs[ptr[j]].start = j
          BY <1>5, <5>1
        <5> QED
          BY <3>2, <5>1, <5>2
      <4> QED
        BY <4>2, <4>3
    <3> QED
      BY <3>3, <3>4
  <2> HIDE DEF B, n, a
  <2>10. StaysGood(B, bbs', T)
    BY <1>2, <2>1, <2>5, <2>8, <2>9, PostTargetGood
  <2>11. StaysGood(bbs, bbs', T)
    BY <1>1, <2>3, <2>8, <2>10, StaysGoodTransitive
  <2>12. \A j \in Slots : ptr[j] = Null /\ ptr'[j] # Null => bbs'[ptr'[j]].start = j
    <3>1. \A j \in Slots : ptr[j] = Null /\ ptr'[j] # Null => j = a
      BY <2>6
    <3>2. bbs'[n].start = a
      BY <2>2, <2>3, <2>4, <2>5, <2>8, <2>10 DEF StaysGood
    <3> QED
      BY <2>6, <3>1, <3>2
  <2> QED
    BY <1>1, <1>3, <2>1, <2>11, <2>12, LateJumps DEF T
<1> QED
  BY <1>3, <1>7, <1>8, <1>9, <1>10

LEMMA RegisterJumps ==
  ASSUME Inv, Inv', Pointers', Jumps, NEW a \in 0..(N + 1), RegisterAddr(a)
  PROVE  Jumps'
<1> DEFINE b == IF a = 0 THEN Dummy ELSE BlockAt(a)
<1>1. WfBlocks(bbs) /\ Len(bbs) \in Nat /\ Len(bbs) >= 1 /\ phase = "register" /\ Late
  BY DEF Inv, Typed, Control, WfBlocks, IsSeq, Dummy, RegisterAddr, Late
<1>2. b \in 0..Len(bbs)
  BY <1>1, BlockAtLifted DEF Dummy, Null
<1>3. /\ bbs' = (IF b = Null THEN bbs ELSE PutFlag(bbs, b, {"needs_trans_bb"}))
      /\ UNCHANGED <<prog, pos, ptr>>
  BY DEF RegisterAddr, PutFlag, Put, WithFlags
<1>4. phase' = "register" \/ (phase' = "split" /\ req'.back = "register")
  BY <1>1 DEF RegisterAddr
<1> HIDE DEF b, Late, Places
<1>5. StaysGood(bbs, bbs', Places)
  <2>1. StaysGood(bbs, bbs, Places)
    BY <1>1, ExtendsReflexive, SameOpsGood DEF SameExtent
  <2> QED
    BY <1>1, <1>2, <1>3, <2>1, PutFlagGood DEF Null, Flags
<1> QED
  BY <1>1, <1>3, <1>4, <1>5, LateJumps

LEMMA AddEntryJumps ==
  ASSUME Inv, Inv', Pointers', Jumps, AddEntry
  PROVE  Jumps'
<1> DEFINE n == Len(bbs) + 1
           cfs == <<Cf("jump", 0, 0, entry)>>
           x == WithCfs(EmptyBlock(0), cfs)
           A == Append(bbs, x)
<1>1. /\ WfBlocks(bbs) /\ Len(bbs) \in Nat /\ Len(bbs) >= 1 /\ phase = "ijumps" /\ Late
      /\ entry \in 1..Len(bbs) /\ N \in Nat
  BY NAssumption DEF Inv, Typed, Control, Lifting, WfBlocks, IsSeq, Dummy, Null, AddEntry, Late
<1>2. n \in Nat /\ n \in 1..n /\ entry \in 1..n /\ entry \in 0..n
  BY <1>1
<1>3. WfCfs(cfs, n) /\ \A k \in DOMAIN cfs : Good(cfs[k], A, Places)
  <2>1. WfCf(Cf("jump", 0, 0, entry), n)
    <3>1. "jump" \in CfType /\ 0 \in 0..N /\ 0 \in 0..(N + 1) /\ "jump" \notin {"ijump", "icall"}
      BY <1>1 DEF CfType
    <3> HIDE DEF n
    <3> QED
      BY <1>2, <3>1, CfWf
  <2>2. Good(Cf("jump", 0, 0, entry), A, Places)
    BY DEF Good, Cf, Slots
  <2> HIDE DEF Good, A
  <2> QED
    BY <2>1, <2>2, SingleIsSeq DEF WfCfs
<1>4. WfBlock(EmptyBlock(0), n)
  BY <1>1, <1>2, EmptyBlockWf
<1>5. bbs' = AddEdge(A, n, entry) /\ UNCHANGED <<prog, pos, ptr>> /\ phase' = "done"
  BY DEF AddEntry, WithCfs
<1> HIDE DEF cfs, n, Good, Places, Late
<1>6. WfBlock(x, n) /\ x.cfs = cfs
  <2> DEFINE e == EmptyBlock(0)
  <2>1. WfBlock(e, n) /\ x = WithCfs(e, cfs)
    BY <1>4
  <2> HIDE DEF e, x
  <2> QED
    BY <1>3, <2>1, FieldsWf, FieldsSame
<1> HIDE DEF x
<1>7. StaysGood(bbs, A, Places) /\ WfBlocks(A) /\ Len(A) = n
  BY <1>1, <1>3, <1>6, AppendGood DEF StaysGood, n
<1> HIDE DEF A
<1>8. StaysGood(A, bbs', Places)
  BY <1>2, <1>5, <1>7, AddEdgeSame, SameOpsGood
<1>9. StaysGood(bbs, bbs', Places)
  BY <1>1, <1>7, <1>8, StaysGoodTransitive
<1> QED
  BY <1>1, <1>5, <1>9, LateJumps

-----------------------------------------------------------------------------
(* Predecessors.                                                           *)

PredsWith(B, b, t, c) == IF c = t THEN BagAdd(B[c].preds, b) ELSE B[c].preds

LEMMA AddEdgePreds ==
  ASSUME NEW B, WfBlocks(B), NEW b \in 1..Len(B), NEW t \in 1..Len(B)
  PROVE  \A c \in 1..Len(B) : AddEdge(B, b, t)[c].preds = PredsWith(B, b, t, c)
<1> DEFINE C == [B EXCEPT ![b].succs = BagAdd(@, t)]
<1>1. DOMAIN B = 1..Len(B) /\ \A c \in 1..Len(B) : DOMAIN B[c] = BlockFields
  BY DEF WfBlocks, WfBlock, IsSeq
<1>2. DOMAIN C = DOMAIN B
  OBVIOUS
<1>3. \A c \in 1..Len(B) : DOMAIN C[c] = BlockFields /\ C[c].preds = B[c].preds
  BY <1>1 DEF BlockFields
<1>4. AddEdge(B, b, t) = [C EXCEPT ![t].preds = BagAdd(@, b)]
  BY DEF AddEdge
<1> HIDE DEF C
<1>5. \A c \in 1..Len(B) : AddEdge(B, b, t)[c].preds = IF c = t THEN BagAdd(C[c].preds, b) ELSE C[c].preds
  BY <1>1, <1>2, <1>3, <1>4 DEF BlockFields
<1> QED
  BY <1>3, <1>5 DEF PredsWith

(* A new block is a predecessor of none, the one before it only of the new one. *)
LEMMA OpenPreds ==
  ASSUME Inv, phase = "scan", pos <= N
  PROVE  \A c \in 1..(Len(bbs) + 1) : Len(bbs) + 1 \notin DOMAIN OpenBlocks[c].preds
<1> DEFINE n == Len(bbs) + 1
           B == Append(bbs, EmptyBlock(pos))
           C == [B EXCEPT ![cur].cfs = Append(@, Cf("jump", pos - 1, pos, n)), ![cur].end = pos - 1]
<1>1. /\ WfBlocks(bbs) /\ IsSeq(bbs) /\ Len(bbs) \in Nat
      /\ pos \in 0..N /\ pos - 1 \in 0..N /\ pos \in 0..(N + 1) /\ cur \in 0..Len(bbs)
      /\ n \in Nat /\ n \in 0..n /\ n \in 1..n
  BY NAssumption DEF Inv, Typed, WfBlocks, IsSeq
<1>2. WfBlocks(B) /\ Len(B) = n
  <2>1. WfBlock(EmptyBlock(pos), n)
    BY <1>1, EmptyBlockWf
  <2> QED
    BY <1>1, <2>1, AppendBlockWf
<1>3. /\ \A b \in 1..Len(bbs) : B[b] = bbs[b]
      /\ B[n] = EmptyBlock(pos)
      /\ \A b \in 1..n : b \in 1..Len(bbs) \/ b = n
  BY <1>1, AppendIsSeq
<1>4. B[n].preds = EmptyBag
  BY <1>3 DEF EmptyBlock
<1>5. \A c \in 1..n : n \notin DOMAIN B[c].preds
  <2>1. \A c \in 1..Len(bbs) : DOMAIN bbs[c].preds \subseteq 1..Len(bbs)
    BY <1>1 DEF WfBlocks, WfBlock
  <2>2. n \notin 1..Len(bbs)
    BY <1>1
  <2> HIDE DEF B, n
  <2> QED
    BY <1>3, <1>4, <2>1, <2>2, BagDomains
<1>6. CASE cur = Null
  <2>1. OpenBlocks = B
    BY <1>6 DEF OpenBlocks
  <2> HIDE DEF B
  <2> QED
    BY <1>5, <2>1
<1>7. CASE cur # Null
  <2>1. cur \in 1..Len(bbs) /\ cur \in 1..n /\ cur # n
    BY <1>1, <1>7 DEF Null
  <2>2. OpenBlocks = AddEdge(C, cur, n)
    BY <1>7 DEF OpenBlocks
  <2>3. \A c \in 1..n : C[c].preds = B[c].preds
    <3>1. DOMAIN B = 1..n /\ \A c \in 1..n : DOMAIN B[c] = BlockFields
      BY <1>2 DEF WfBlocks, WfBlock, IsSeq
    <3> HIDE DEF B, n
    <3> QED
      BY <2>1, <3>1 DEF BlockFields
  <2>4. WfBlocks(C) /\ Len(C) = n
    <3> DEFINE cfs == Append(B[cur].cfs, Cf("jump", pos - 1, pos, n))
               x == WithCfs(B[cur], cfs)
               y == WithEnd(x, pos - 1)
    <3>1. WfBlock(B[cur], n)
      BY <1>2, <2>1 DEF WfBlocks
    <3>2. C = Put(B, cur, y)
      BY <1>2, <2>1, <3>1 DEF Put, WithCfs, WithEnd, WfBlocks, IsSeq, WfBlock, BlockFields
    <3>3. WfCf(Cf("jump", pos - 1, pos, n), n) /\ WfCfs(B[cur].cfs, n)
      BY <1>1, <3>1, CfWf DEF CfType, WfBlock
    <3> HIDE DEF C, B, n
    <3>4. WfCfs(cfs, n)
      BY <1>1, <3>3, AppendCfWf
    <3> HIDE DEF cfs
    <3>5. WfBlock(x, n)
      BY <3>1, <3>4, FieldsWf
    <3> HIDE DEF x
    <3>6. WfBlock(y, n)
      BY <1>1, <3>5, FieldsWf
    <3> HIDE DEF y
    <3> QED
      BY <1>2, <3>2, <3>6, PutWf
  <2> HIDE DEF B, C
  <2>5. \A c \in 1..n : OpenBlocks[c].preds = PredsWith(C, cur, n, c)
    BY <1>1, <2>1, <2>2, <2>4, AddEdgePreds
  <2>6. \A c \in 1..n : DOMAIN OpenBlocks[c].preds \subseteq DOMAIN C[c].preds \cup {cur}
    <3> TAKE c \in 1..n
    <3>1. OpenBlocks[c].preds \in {BagAdd(C[c].preds, cur), C[c].preds}
      BY <2>5 DEF PredsWith
    <3>2. DOMAIN BagAdd(C[c].preds, cur) = DOMAIN C[c].preds \cup {cur}
      BY BagDomains
    <3> QED
      BY <3>1, <3>2
  <2> HIDE DEF n
  <2> QED
    BY <1>5, <2>1, <2>3, <2>6 DEF n
<1> QED
  BY <1>6, <1>7

(* The block the instruction goes into is a predecessor of none. *)
LEMMA ScanInstrNoEdges ==
  ASSUME Inv, Inv', Jumps, ScanInstr
  PROVE  NoEdges'
<1> DEFINE opens == cur = Null \/ pos \in needs
<1>1. PICK b : b = IF opens THEN Len(bbs) + 1 ELSE cur
  OBVIOUS
<1>2. PICK B : B = IF opens THEN OpenBlocks ELSE bbs
  OBVIOUS
<1>3. PICK p : p = IF opens THEN OpenPtr ELSE ptr
  OBVIOUS
<1>4. phase = "scan" /\ pos <= N /\ WfBlocks(bbs) /\ Len(bbs) \in Nat
  BY DEF ScanInstr, Inv, Typed, WfBlocks, IsSeq
<1>5. WfBlocks(B) /\ Len(B) \in Nat /\ b \in 1..Len(B)
  BY <1>1, <1>2, <1>3, <1>4, TargetBlock
<1>6. /\ cur' = b /\ Len(bbs') = Len(B)
      /\ \/ bbs' = [[B EXCEPT ![b].code = @ \cup {pos}, ![b].cfs = CfsOf(prog[pos], pos)] EXCEPT ![b].end = pos]
         \/ bbs' = [B EXCEPT ![b].code = @ \cup {pos}, ![b].cfs = CfsOf(prog[pos], pos)]
  <2>1. /\ b = (IF cur = Null \/ pos \in needs THEN Len(bbs) + 1 ELSE cur)
        /\ B = (IF cur = Null \/ pos \in needs THEN OpenBlocks ELSE bbs)
        /\ p = (IF cur = Null \/ pos \in needs THEN OpenPtr ELSE ptr)
    BY <1>1, <1>2, <1>3
  <2>2. Len(bbs') = Len(B)
    BY <1>1, <1>2, <1>3, ScanInstrFields
  <2>3. \/ bbs' = [[B EXCEPT ![b].code = @ \cup {pos}, ![b].cfs = CfsOf(prog[pos], pos)] EXCEPT ![b].end = pos]
        \/ bbs' = [B EXCEPT ![b].code = @ \cup {pos}, ![b].cfs = CfsOf(prog[pos], pos)]
    BY <2>1, ScanInstrSteps
  <2>4. cur' = b
    BY <2>1, ScanInstrSteps
  <2> QED
    BY <2>2, <2>3, <2>4
<1>7. \A c \in 1..Len(B) : bbs'[c].preds = B[c].preds
  <2>1. DOMAIN B = 1..Len(B) /\ \A c \in 1..Len(B) : DOMAIN B[c] = BlockFields
    BY <1>5 DEF WfBlocks, WfBlock, IsSeq
  <2>2. PICK code, cfs : code = B[b].code \cup {pos} /\ cfs = CfsOf(prog[pos], pos)
    OBVIOUS
  <2>3. \/ bbs' = [[B EXCEPT ![b].code = code, ![b].cfs = cfs] EXCEPT ![b].end = pos]
        \/ bbs' = [B EXCEPT ![b].code = code, ![b].cfs = cfs]
    BY <1>6, <2>2
  <2> QED
    BY <1>5, <2>1, <2>3 DEF BlockFields
<1>8. \A c \in 1..Len(B) : b \notin DOMAIN B[c].preds
  <2>1. CASE opens
    <3>1. B = OpenBlocks /\ b = Len(bbs) + 1 /\ Len(B) = Len(bbs) + 1
      BY <1>1, <1>2, <1>4, <2>1, OpenWf
    <3> QED
      BY <1>4, <3>1, OpenPreds
  <2>2. CASE ~opens
    BY <1>1, <1>2, <1>4, <2>2 DEF Jumps, Unlinked, NoEdges
  <2> QED
    BY <2>1, <2>2
<1> QED
  BY <1>6, <1>7, <1>8 DEF NoEdges

-----------------------------------------------------------------------------
(* The scan.                                                               *)

LEMMA UnreachableGood ==
  ASSUME NEW B, WfBlocks(B), NEW b \in 1..Len(B), NEW i \in 0..N, NEW T
  PROVE  StaysGood(B, Unreachable(B, b, i), T)
<1> DEFINE C == Unreachable(B, b, i)
           u == Cf("unreachable", i, 0, Null)
<1>1. /\ SameExtent(B, C)
      /\ \A c \in 1..Len(B) : C[c].cfs = IF c = b THEN Append(B[b].cfs, u) ELSE B[c].cfs
  BY UnreachableSame
<1>2. Good(u, C, T)
  BY DEF Good, Direct, Cf
<1>3. /\ Len(B) \in Nat /\ Len(C) = Len(B) /\ WfBlocks(C)
      /\ \A c \in 1..Len(B) : C[c].start = B[c].start
      /\ \A c \in 1..Len(B) : IsSeq(B[c].cfs)
  BY <1>1, OpsTyped DEF SameExtent, Extends
<1> HIDE DEF C, u, Good
<1>4. OpsGood(B, T) => \A c \in 1..Len(B) : \A k \in DOMAIN B[c].cfs : Good(B[c].cfs[k], C, T)
  BY <1>3, OpGrows
<1>5. ASSUME OpsGood(B, T), NEW c \in 1..Len(B), NEW k \in DOMAIN C[c].cfs
      PROVE  Good(C[c].cfs[k], C, T)
  <2>1. CASE c # b
    BY <1>1, <1>4, <1>5, <2>1
  <2>2. CASE c = b
    <3>1. C[c].cfs = Append(B[b].cfs, u)
      BY <1>1, <2>2
    <3>2. IsSeq(B[b].cfs) /\ DOMAIN B[b].cfs = 1..Len(B[b].cfs)
      BY <1>3 DEF IsSeq
    <3>3. \/ k \in DOMAIN B[b].cfs /\ C[c].cfs[k] = B[b].cfs[k]
          \/ C[c].cfs[k] = u
      BY <3>1, <3>2, <1>5, AppendIsSeq DEF IsSeq
    <3> QED
      BY <1>2, <1>4, <1>5, <2>2, <3>3
  <2> QED
    BY <2>1, <2>2
<1>6. StaysGood(B, C, T)
  BY <1>3, <1>5 DEF StaysGood, OpsGood
<1> QED
  BY <1>6 DEF C

(* The block before a new one jumps to its start. *)
LEMMA OpenGood ==
  ASSUME Inv, phase = "scan", pos <= N, NEW T, pos \in T
  PROVE  StaysGood(bbs, OpenBlocks, T)
<1> DEFINE n == Len(bbs) + 1
           C == OpenBlocks
           u == Cf("jump", pos - 1, pos, n)
<1>1. /\ WfBlocks(C) /\ Len(C) = n
      /\ \A c \in 1..Len(bbs) : C[c].start = bbs[c].start
      /\ \A c \in 1..Len(bbs) : C[c].cfs = IF c = cur THEN Append(bbs[c].cfs, u) ELSE bbs[c].cfs
      /\ C[n].start = pos /\ C[n].cfs = <<>>
  BY OpenWf
<1>2. Good(u, C, T)
  BY <1>1 DEF Good, Cf
<1>3. /\ WfBlocks(bbs) /\ Len(bbs) \in Nat
      /\ \A c \in 1..Len(bbs) : IsSeq(bbs[c].cfs)
      /\ \A c \in 1..n : c \in 1..Len(bbs) \/ c = n
  <2>1. WfBlocks(bbs)
    BY DEF Inv, Typed
  <2>2. Len(bbs) \in Nat /\ \A c \in 1..Len(bbs) : IsSeq(bbs[c].cfs)
    BY <2>1, OpsTyped
  <2>3. \A c \in 1..n : c \in 1..Len(bbs) \/ c = n
    BY <2>2
  <2> QED
    BY <2>1, <2>2, <2>3
<1> HIDE DEF C, u, Good
<1>4. OpsGood(bbs, T) => \A c \in 1..Len(bbs) : \A k \in DOMAIN bbs[c].cfs : Good(bbs[c].cfs[k], C, T)
  BY <1>1, <1>3, OpGrows
<1>5. ASSUME OpsGood(bbs, T), NEW c \in 1..n, NEW k \in DOMAIN C[c].cfs
      PROVE  Good(C[c].cfs[k], C, T)
  <2>1. CASE c \in 1..Len(bbs) /\ c # cur
    BY <1>1, <1>4, <1>5, <2>1
  <2>2. CASE c \in 1..Len(bbs) /\ c = cur
    <3>1. C[c].cfs = Append(bbs[c].cfs, u)
      BY <1>1, <2>2
    <3>2. IsSeq(bbs[c].cfs) /\ DOMAIN bbs[c].cfs = 1..Len(bbs[c].cfs)
      BY <1>3, <2>2 DEF IsSeq
    <3>3. \/ k \in DOMAIN bbs[c].cfs /\ C[c].cfs[k] = bbs[c].cfs[k]
          \/ C[c].cfs[k] = u
      BY <3>1, <3>2, <1>5, AppendIsSeq DEF IsSeq
    <3> QED
      BY <1>2, <1>4, <1>5, <2>2, <3>3
  <2>3. CASE c = n
    BY <1>1, <1>5, <2>3, EmptyIsSeq DEF IsSeq
  <2> QED
    BY <1>3, <2>1, <2>2, <2>3
<1>6. StaysGood(bbs, C, T)
  BY <1>1, <1>3, <1>5 DEF StaysGood, OpsGood
<1> QED
  BY <1>6 DEF C

(* Before a scan step every operation is good, for the places behind it. *)
LEMMA ScanGood ==
  ASSUME Inv, Jumps, phase = "scan", Places \subseteq Places'
  PROVE  OpsGood(bbs, Places')
<1>1. AllGood /\ \A b, k : ~Waiting(b, k)
  BY DEF Jumps, Waiting, Lifting
<1> HIDE DEF Waiting, Good, Places
<1>2. OpsGood(bbs, Places)
  BY <1>1 DEF AllGood, OpsGood
<1>3. WfBlocks(bbs)
  BY DEF Inv, Typed
<1>4. \A b \in 1..Len(bbs) : \A k \in DOMAIN bbs[b].cfs : Good(bbs[b].cfs[k], bbs, Places')
  BY <1>2, <1>3, OpGrows
<1> QED
  BY <1>4 DEF OpsGood

(* A block that is opened or closed takes none of the awaited slots but    *)
(* the one it starts at.                                                   *)
LEMMA AwaitedFree ==
  ASSUME Inv, Pointers, phase = "scan", pos <= N, NEW j \in Awaited
  PROVE  /\ j \in Slots /\ ptr[j] = Null
         /\ cur # Null => j \notin bbs[cur].start..(pos - 1)
         /\ OpenPtr[j] = IF j = pos THEN Len(bbs) + 1 ELSE Null
<1>1. /\ j \in Slots /\ ptr[j] = Null /\ j \notin Inside
      /\ Len(bbs) \in Nat /\ cur \in 0..Len(bbs) /\ ptr \in [Slots -> 0..Len(bbs)] /\ pos \in 1..N
      /\ N \in Nat
  BY NAssumption DEF Awaited, Inv, Typed, WfBlocks, IsSeq
<1>2. ASSUME cur # Null
      PROVE  bbs[cur].start \in 1..(pos - 1) /\ j \notin bbs[cur].start..(pos - 1)
  <2>1. bbs[cur].start \in 1..(pos - 1)
    BY <1>2 DEF Pointers, OpenBlock
  <2>2. j # bbs[cur].start
    <3>1. bbs[cur].start \in Slots /\ cur \in 1..Len(bbs)
      BY <1>1, <1>2, <2>1 DEF Slots, Null
    <3>2. ptr[bbs[cur].start] = cur
      BY <3>1 DEF Pointers, Mapped, FoundAtStart
    <3> QED
      BY <1>1, <1>2, <3>2
  <2>3. j \notin (bbs[cur].start + 1)..(pos - 1)
    BY <1>1, <1>2 DEF Inside
  <2>4. j \in Int /\ bbs[cur].start \in Int /\ pos \in Int
    BY <1>1, <2>1 DEF Slots
  <2> QED
    BY <2>1, <2>2, <2>3, <2>4
<1>3. OpenPtr[j] = IF j = pos THEN Len(bbs) + 1 ELSE Null
  <2> DEFINE p == [ptr EXCEPT ![pos] = Len(bbs) + 1]
  <2>1. p[j] = IF j = pos THEN Len(bbs) + 1 ELSE Null
    BY <1>1
  <2>2. CASE cur = Null
    BY <2>1, <2>2 DEF OpenPtr
  <2>3. CASE cur # Null
    <3>1. OpenPtr = SetEnd(p, cur, bbs[cur].start, pos - 1)
      BY <2>3 DEF OpenPtr
    <3>2. ~(bbs[cur].start <= j /\ j <= pos - 1)
      <4>1. j \in Int /\ bbs[cur].start \in Int /\ pos \in Int
        BY <1>1, <1>2, <2>3 DEF Slots
      <4> QED
        BY <1>2, <2>3, <4>1
    <3> HIDE DEF p
    <3> QED
      BY <1>1, <2>1, <3>1, <3>2 DEF SetEnd
  <2> QED
    BY <2>2, <2>3
<1> QED
  BY <1>1, <1>2, <1>3

LEMMA ScanDataJumps ==
  ASSUME Inv, Inv', Pointers, Pointers', Jumps, ScanData
  PROVE  Jumps'
<1>1. /\ phase = "scan" /\ pos <= N /\ cur' = Null /\ pos' = pos + 1 /\ ptr' = ptr /\ needs' = needs
      /\ phase' = "scan" /\ bbs' = IF cur = Null THEN bbs ELSE Unreachable(bbs, cur, pos)
  BY DEF ScanData
<1>2. /\ WfBlocks(bbs) /\ Len(bbs) \in Nat /\ cur \in 0..Len(bbs) /\ pos \in 0..N /\ pos \in 1..N
      /\ N \in Nat
  BY <1>1, NAssumption DEF Inv, Typed, WfBlocks, IsSeq
<1>3. ASSUME NEW T
      PROVE  StaysGood(bbs, bbs', T)
  <2>1. StaysGood(bbs, bbs, T)
    BY <1>2, ExtendsReflexive, SameOpsGood DEF SameExtent
  <2> QED
    BY <1>1, <1>2, <2>1, UnreachableGood DEF Null
<1>4. Places \subseteq Places'
  <2>1. Inside' = {}
    BY <1>1 DEF Inside
  <2> HIDE DEF Inside
  <2>2. ASSUME NEW j \in Awaited
        PROVE  ptr'[j] = Null /\ (j >= pos' => j \in needs') /\ j \notin Inside'
    BY <1>1, <1>2, <2>1 DEF Awaited, Slots
  <2>3. Len(bbs) <= Len(bbs') /\ \A b \in 1..Len(bbs) : bbs'[b].start = bbs[b].start
    BY <1>3 DEF StaysGood
  <2> HIDE DEF Awaited
  <2> QED
    BY <2>2, <2>3, PlacesGrow
<1> HIDE DEF Places
<1>5. OpsGood(bbs', Places')
  BY <1>1, <1>3, <1>4, ScanGood DEF StaysGood
<1>6. AllGood'
  <2> HIDE DEF Waiting, Good
  <2> QED
    BY <1>5 DEF AllGood, OpsGood
<1> QED
  BY <1>1, <1>6 DEF Jumps, Unlinked, Resolving, Linking

LEMMA ScanInvalidJumps ==
  ASSUME Inv, Inv', Pointers, Pointers', Jumps, ScanInvalid
  PROVE  Jumps'
<1> DEFINE opens == cur # Null /\ pos \in needs
           n == Len(bbs) + 1
<1>1. /\ phase = "scan" /\ pos <= N /\ cur' = Null /\ pos' = pos + 1 /\ needs' = needs /\ phase' = "scan"
      /\ opens => bbs' = Unreachable(OpenBlocks, n, pos) /\ ptr' = OpenPtr
      /\ ~opens => ptr' = ptr /\ bbs' = IF cur = Null THEN bbs ELSE Unreachable(bbs, cur, pos)
  BY DEF ScanInvalid
<1>2. /\ WfBlocks(bbs) /\ Len(bbs) \in Nat /\ cur \in 0..Len(bbs) /\ pos \in 0..N /\ pos \in 1..N
      /\ N \in Nat /\ pos \in Slots /\ n \in 1..n
  <2>1. WfBlocks(bbs) /\ cur \in 0..Len(bbs) /\ pos \in 1..(N + 1)
    BY DEF Inv, Typed
  <2>2. Len(bbs) \in Nat
    BY <2>1 DEF WfBlocks, IsSeq
  <2>3. N \in Nat /\ pos \in 0..N /\ pos \in 1..N
    BY <1>1, <2>1, NAssumption
  <2> QED
    BY <2>1, <2>2, <2>3 DEF Slots
<1>3. /\ WfBlocks(OpenBlocks) /\ Len(OpenBlocks) = n /\ OpenBlocks[n].start = pos
      /\ \A b \in 1..Len(bbs) : OpenBlocks[b].start = bbs[b].start
  BY <1>1, OpenWf
<1> HIDE DEF n
<1>4. ASSUME NEW T, opens => pos \in T
      PROVE  StaysGood(bbs, bbs', T)
  <2>1. StaysGood(bbs, bbs, T)
    BY <1>2, ExtendsReflexive, SameOpsGood DEF SameExtent
  <2>2. CASE ~opens
    BY <1>1, <1>2, <2>1, <2>2, UnreachableGood DEF Null
  <2>3. CASE opens
    <3>1. StaysGood(bbs, OpenBlocks, T)
      BY <1>1, <1>4, <2>3, OpenGood
    <3>2. StaysGood(OpenBlocks, bbs', T)
      BY <1>1, <1>2, <1>3, <2>3, UnreachableGood
    <3> QED
      BY <1>2, <3>1, <3>2, StaysGoodTransitive
  <2> QED
    BY <2>2, <2>3
<1>5. opens => bbs'[n].start = pos /\ ptr'[pos] = n
  <2> SUFFICES ASSUME opens
               PROVE  bbs'[n].start = pos /\ ptr'[pos] = n
    OBVIOUS
  <2>1. StaysGood(OpenBlocks, bbs', {})
    BY <1>1, <1>2, <1>3, UnreachableGood
  <2>2. ptr'[pos] = n
    BY <1>1, OpenPtrKeeps DEF n
  <2> QED
    BY <1>2, <1>3, <2>1, <2>2 DEF StaysGood
<1>6. Len(bbs) <= Len(bbs') /\ \A b \in 1..Len(bbs) : bbs'[b].start = bbs[b].start
  <2>1. opens => pos \in {pos}
    OBVIOUS
  <2> QED
    BY <1>4, <2>1 DEF StaysGood
<1>7. Places \subseteq Places'
  <2>1. Inside' = {}
    BY <1>1 DEF Inside
  <2>2. ASSUME NEW j \in Awaited
        PROVE  IF ptr'[j] = Null THEN (j >= pos' => j \in needs') /\ j \notin Inside'
                                 ELSE bbs'[ptr'[j]].start = j
    <3> HIDE DEF Inside
    <3>1. j \in Int /\ ptr[j] = Null /\ (j >= pos' => j \in needs')
      BY <1>1, <1>2 DEF Awaited, Slots
    <3>2. OpenPtr[j] = IF j = pos THEN n ELSE Null
      BY <1>1, AwaitedFree DEF n
    <3> HIDE DEF Awaited
    <3>3. CASE ~opens
      BY <1>1, <2>1, <3>1, <3>3
    <3>4. CASE opens
      BY <1>1, <1>5, <2>1, <3>1, <3>2, <3>4
    <3> QED
      BY <3>3, <3>4
  <2> HIDE DEF Awaited, Inside
  <2> QED
    BY <1>6, <2>2, PlacesGrow
<1>8. opens => pos \in Places'
  <2>1. n # Null
    BY <1>2 DEF n, Null
  <2> QED
    BY <1>2, <1>5, <2>1 DEF Places, Starts
<1> HIDE DEF Places
<1>9. OpsGood(bbs', Places')
  BY <1>1, <1>4, <1>7, <1>8, ScanGood DEF StaysGood
<1>10. AllGood'
  <2> HIDE DEF Waiting, Good
  <2> QED
    BY <1>9 DEF AllGood, OpsGood
<1> QED
  BY <1>1, <1>10 DEF Jumps, Unlinked, Resolving, Linking

LEMMA ScanInstrJumps ==
  ASSUME Inv, Inv', Pointers, Pointers', Disjoint(bbs), Jumps, ScanInstr
  PROVE  Jumps'
<1> DEFINE ins == prog[pos]
<1>0. PICK opens : opens <=> cur = Null \/ pos \in needs
  OBVIOUS
<1>1. PICK b : b = IF opens THEN Len(bbs) + 1 ELSE cur
  OBVIOUS
<1>2. PICK B : B = IF opens THEN OpenBlocks ELSE bbs
  OBVIOUS
<1>3. PICK p : p = IF opens THEN OpenPtr ELSE ptr
  OBVIOUS
<1>4. /\ phase = "scan" /\ pos <= N /\ WfBlocks(bbs) /\ Len(bbs) \in Nat /\ pos \in 1..N /\ pos \in Slots
      /\ ins \in Instr /\ cur \in 0..Len(bbs) /\ N \in Nat /\ IsInstr(pos)
  BY NAssumption, InstrAssumption DEF ScanInstr, Inv, Typed, WfBlocks, IsSeq, Slots, IsInstr
<1>5. WfBlocks(B) /\ Len(B) \in Nat /\ b \in 1..Len(B)
  BY <1>0, <1>1, <1>2, <1>3, <1>4, TargetBlock
<1>6. B[b].start \in 1..pos /\ p[pos] \in {Null, b} /\ (opens => B[b].start = pos)
  <2>1. B[b].start \in 1..pos /\ p[pos] \in {Null, b}
    BY <1>0, <1>1, <1>2, <1>3, <1>4, TargetOpen
  <2>2. opens => B[b].start = pos
    BY <1>0, <1>1, <1>2, <1>4, OpenWf
  <2> QED
    BY <2>1, <2>2
<1>7. /\ Len(bbs') = Len(B)
      /\ \A c \in 1..Len(B) : bbs'[c].start = B[c].start /\ (c # b => bbs'[c].cfs = B[c].cfs)
      /\ bbs'[b].cfs = CfsOf(ins, pos)
      /\ cur' = b
      /\ \/ /\ ins.kind \in Terminators
            /\ ptr' = SetEnd(p, b, B[b].start, pos)
            /\ phase' = "cf" /\ pos' = pos
         \/ /\ ins.kind \notin Terminators
            /\ ptr' = p
            /\ phase' = "scan" /\ pos' = pos + 1
  <2>1. /\ Len(bbs') = Len(B)
        /\ \A c \in 1..Len(B) :
             /\ bbs'[c].start = B[c].start
             /\ bbs'[c].code = CodeWith(B, b, pos, c)
             /\ c # b => bbs'[c].cfs = B[c].cfs /\ bbs'[c].end = B[c].end
        /\ bbs'[b].cfs = CfsOf(prog[pos], pos)
        /\ cur' = b /\ prog' = prog
        /\ \/ /\ prog[pos].kind \in Terminators
              /\ bbs'[b].end = pos
              /\ ptr' = SetEnd(p, b, B[b].start, pos)
              /\ phase' = "cf" /\ pos' = pos
           \/ /\ prog[pos].kind \notin Terminators
              /\ bbs'[b].end = B[b].end
              /\ ptr' = p
              /\ phase' = "scan" /\ pos' = pos + 1
    BY <1>0, <1>1, <1>2, <1>3, ScanInstrFields
  <2> QED
    BY <2>1
<1>8. UNCHANGED <<prog, needs>> /\ (phase' = "cf" => cfi' = 1)
  BY <1>7 DEF ScanInstr
<1>9. Len(bbs) <= Len(bbs') /\ \A c \in 1..Len(bbs) : bbs'[c].start = bbs[c].start
  <2>1. Len(bbs) <= Len(B) /\ \A c \in 1..Len(bbs) : c \in 1..Len(B) /\ B[c].start = bbs[c].start
    BY <1>0, <1>2, <1>4, OpenWf
  <2> QED
    BY <1>7, <2>1
<1> HIDE DEF ins, IsInstr
<1>10. Places \subseteq Places'
  <2>1. ASSUME NEW j \in Awaited
        PROVE  IF ptr'[j] = Null THEN (j >= pos' => j \in needs') /\ j \notin Inside'
                                 ELSE bbs'[ptr'[j]].start = j
    <3>1. /\ j \in Slots /\ j \in Int /\ ptr[j] = Null
          /\ cur # Null => j \notin bbs[cur].start..(pos - 1)
          /\ OpenPtr[j] = IF j = pos THEN Len(bbs) + 1 ELSE Null
      BY <1>4, AwaitedFree DEF Slots
    <3>2. j >= pos => j \in needs
      BY DEF Awaited
    <3>3. p[j] = IF j = pos /\ opens THEN b ELSE Null
      BY <1>0, <1>1, <1>3, <3>1
    <3>4. ~opens => j # pos
      BY <1>0, <1>4, <3>1, <3>2
    <3>5. ~opens => j \notin B[b].start..pos
      BY <1>0, <1>1, <1>2, <1>4, <1>6, <3>1, <3>4
    <3>6. opens /\ j # pos => j \notin B[b].start..pos
      BY <1>6, <3>1
    <3>7. j = pos => bbs'[b].start = j /\ b # Null
      BY <1>5, <1>6, <1>7, <3>4 DEF Null
    <3>8. ptr'[j] = IF j = pos THEN b ELSE Null
      <4>1. CASE ptr' = p
        BY <3>3, <3>4, <4>1
      <4>2. CASE ptr' = SetEnd(p, b, B[b].start, pos)
        <5>1. ptr'[j] = IF B[b].start <= j /\ j <= pos THEN b ELSE p[j]
          BY <3>1, <4>2 DEF SetEnd
        <5>2. j # pos => ~(B[b].start <= j /\ j <= pos)
          BY <1>4, <1>6, <3>1, <3>5, <3>6
        <5> QED
          BY <1>4, <1>6, <3>3, <3>4, <5>1, <5>2
      <4> QED
        BY <1>7, <4>1, <4>2
    <3>9. j # pos => (j >= pos' => j \in needs') /\ j \notin Inside'
      <4>1. j # pos => (j >= pos' => j \in needs')
        BY <1>4, <1>7, <1>8, <3>1, <3>2
      <4>2. Inside' \subseteq (B[b].start + 1)..pos
        <5>1. phase' = "cf" => Inside' = {}
          BY DEF Inside
        <5>2. phase' = "scan" => Inside' = {} \/ Inside' = (B[b].start + 1)..(pos' - 1)
          BY <1>5, <1>7 DEF Inside
        <5>3. phase' = "scan" => pos' - 1 = pos
          BY <1>4, <1>7
        <5> HIDE DEF Inside
        <5> QED
          BY <1>7, <5>1, <5>2, <5>3
      <4>3. j \in (B[b].start + 1)..pos => j \in B[b].start..pos
        BY <1>4, <1>6, <3>1
      <4> HIDE DEF Inside
      <4> QED
        BY <3>5, <3>6, <4>1, <4>2, <4>3
    <3> HIDE DEF Inside, Awaited
    <3> QED
      BY <3>7, <3>8, <3>9
  <2> HIDE DEF Awaited, Inside
  <2> QED
    BY <1>9, <2>1, PlacesGrow
<1>11. OpsGood(B, Places')
  <2>1. OpsGood(bbs, Places')
    BY <1>4, <1>10, ScanGood
  <2>2. CASE ~opens
    BY <1>0, <1>2, <2>1, <2>2
  <2>3. CASE opens
    <3>1. ptr'[pos] = b
      <4>1. p[pos] = b
        BY <1>0, <1>1, <1>3, <1>4, <2>3, OpenPtrKeeps
      <4> QED
        BY <1>4, <1>6, <1>7, <4>1 DEF SetEnd
    <3>2. bbs'[b].start = pos /\ b # Null
      BY <1>5, <1>6, <1>7, <2>3 DEF Null
    <3>3. pos \in Places'
      BY <1>4, <3>1, <3>2 DEF Places, Starts
    <3> HIDE DEF Places
    <3>4. StaysGood(bbs, OpenBlocks, Places')
      BY <1>4, <3>3, OpenGood
    <3> QED
      BY <1>0, <1>2, <2>1, <2>3, <3>4 DEF StaysGood
  <2> QED
    BY <2>2, <2>3
<1> HIDE DEF Places, Good
<1>12. PICK I : I = CfsOf(ins, pos)
  OBVIOUS
<1>13. /\ IsSeq(I) /\ Len(I) \in Nat /\ DOMAIN I = 1..Len(I)
       /\ ins.kind \in Terminators => 1 <= Len(I)
       /\ ins.kind \notin Terminators => I = <<>>
  <2>1. /\ IsSeq(I) /\ Len(I) \in 0..2 /\ (ins.kind \in Terminators => 1 <= Len(I))
    BY <1>4, <1>12, IssuedShape
  <2>2. ins.kind \notin Terminators => I = <<>>
    BY <1>4, <1>12, CfsOfSites
  <2> QED
    BY <2>1, <2>2 DEF IsSeq
<1>14. AllGood'
  <2>1. ASSUME NEW c \in 1..Len(bbs'), NEW k \in DOMAIN bbs'[c].cfs
        PROVE  Waiting(c, k)' \/ Good(bbs'[c].cfs[k], bbs', Places')
    <3>1. CASE c # b
      <4>1. \A d \in 1..Len(B) : \A l \in DOMAIN B[d].cfs : Good(B[d].cfs[l], bbs', Places')
        BY <1>5, <1>7, <1>11, OpGrows
      <4> QED
        BY <1>7, <2>1, <3>1, <4>1
    <3>2. CASE c = b
      <4>1. bbs'[c].cfs = I
        BY <1>7, <1>12, <3>2
      <4>2. k \in 1..Len(I)
        BY <1>13, <2>1, <4>1
      <4>3. ins.kind \in Terminators
        BY <1>13, <4>2, EmptyIsSeq
      <4>4. phase' = "cf" /\ cfi' = 1 /\ cur' = c /\ k >= 1
        BY <1>7, <1>8, <1>13, <3>2, <4>2, <4>3
      <4> QED
        BY <4>4 DEF Waiting, Lifting
    <3> QED
      BY <3>1, <3>2
  <2> HIDE DEF Waiting
  <2> QED
    BY <2>1 DEF AllGood
<1>15. NoEdges'
  BY ScanInstrNoEdges
<1>16. Resolving'
  <2> SUFFICES ASSUME phase' = "cf"
               PROVE  Resolving'
    BY DEF Resolving
  <2>1. Issued' = I /\ bbs'[cur'].cfs = I
    BY <1>7, <1>8, <1>12 DEF Issued, ins
  <2>2. cfi' = 1 /\ 1 \in 1..Len(I)
    BY <1>7, <1>8, <1>13
  <2> HIDE DEF NoEdges
  <2> QED
    BY <1>15, <2>1, <2>2 DEF Resolving, Untouched
<1>17. Unlinked' /\ Linking'
  BY <1>7, <1>15 DEF Unlinked, Linking
<1> QED
  BY <1>14, <1>16, <1>17 DEF Jumps

-----------------------------------------------------------------------------
(* The loop over the operations.                                           *)

(* The operation the loop looks at is as the instruction issued it. *)
LEMMA CurrentIssued ==
  ASSUME Inv, Jumps, phase = "cf", NEW I, I = Issued
  PROVE  /\ WfBlocks(bbs) /\ Len(bbs) \in Nat /\ cur \in 1..Len(bbs) /\ cur # Null
         /\ pos \in Slots /\ pos \in Int /\ Horizon = pos /\ N \in Nat
         /\ IsSeq(bbs[cur].cfs) /\ Len(bbs[cur].cfs) = Len(I) /\ Len(I) \in Nat
         /\ DOMAIN bbs[cur].cfs = 1..Len(I)
         /\ cfi \in 1..Len(I)
         /\ \A k \in cfi..Len(I) : bbs[cur].cfs[k] = I[k]
         /\ CurCf = I[cfi]
         /\ \A k \in 1..Len(I) : /\ WfCf(I[k], 0)
                                 /\ I[k].target = Null
                                 /\ Direct(I[k]) \/ I[k].jump = 0
                                 /\ I[k].type = "ret" => ~Direct(I[k])
                                 /\ prog[pos].kind = "table" => ~Direct(I[k])
         /\ \A k, l \in 1..Len(I) : k # l => I[k].jump = pos + 1 \/ I[l].jump = pos + 1
<1>1. /\ WfBlocks(bbs) /\ Len(bbs) \in Nat /\ cur \in 1..Len(bbs) /\ cur # Null
      /\ pos \in Slots /\ pos \in Int /\ Horizon = pos /\ N \in Nat
      /\ prog[pos] \in Instr
  BY NAssumption, InstrAssumption DEF Inv, Typed, Control, Lifting, WfBlocks, IsSeq, Null, Slots, Horizon
<1>2. IsSeq(bbs[cur].cfs)
  BY <1>1, OpsTyped
<1>3. I = CfsOf(prog[pos], pos)
  BY DEF Issued
<1>4. /\ IsSeq(I) /\ Len(I) \in 0..2
      /\ \A k \in 1..Len(I) : /\ WfCf(I[k], 0)
                              /\ I[k].target = Null
                              /\ Direct(I[k]) \/ I[k].jump = 0
                              /\ I[k].type = "ret" => ~Direct(I[k])
                              /\ prog[pos].kind = "table" => ~Direct(I[k])
      /\ \A k, l \in 1..Len(I) : k # l => I[k].jump = pos + 1 \/ I[l].jump = pos + 1
  BY <1>1, <1>3, IssuedShape
<1>5. /\ Len(bbs[cur].cfs) = Len(I) /\ cfi \in 1..Len(I)
      /\ \A k \in cfi..Len(I) : bbs[cur].cfs[k] = I[k]
  BY DEF Jumps, Resolving, Untouched
<1>6. DOMAIN bbs[cur].cfs = 1..Len(I)
  BY <1>2, <1>5 DEF IsSeq
<1>7. CurCf = I[cfi]
  <2>1. cfi \in cfi..Len(I)
    BY <1>5
  <2> QED
    BY <1>5, <2>1 DEF CurCf
<1> QED
  BY <1>1, <1>2, <1>4, <1>5, <1>6, <1>7

(* No place is lost, and what becomes needed is one. *)
LEMMA ResolvedPlaces ==
  ASSUME Inv, Inv', Pointers', phase = "cf", SameExtent(bbs, bbs'), ptr' = ptr, needs \subseteq needs',
         NextCf(cur) \/ (phase' = "split" /\ pos' = pos)
  PROVE  /\ Places \subseteq Places'
         /\ \A j \in needs' : ptr[j] = Null => j \in Places'
<1>1. Inside' = {} /\ pos' \in {pos, pos + 1} /\ pos \in Int
  BY DEF Inside, NextCf, Inv, Typed
<1>2. Len(bbs) <= Len(bbs') /\ \A b \in 1..Len(bbs) : bbs'[b].start = bbs[b].start
  BY DEF SameExtent, Extends
<1>3. \A j \in Slots : j \in Int
  BY DEF Slots
<1> HIDE DEF Inside
<1>4. ASSUME NEW j \in Awaited
      PROVE  ptr'[j] = Null /\ (j >= pos' => j \in needs') /\ j \notin Inside'
  BY <1>1, <1>3 DEF Awaited
<1>5. Places \subseteq Places'
  <2> HIDE DEF Awaited
  <2> QED
    BY <1>2, <1>4, PlacesGrow
<1>6. \A j \in needs' : j \in Slots
  BY DEF Inv, Typed
<1>7. \A j \in needs' : ptr[j] = Null => j \in Places'
  BY <1>1, <1>6 DEF Places, Awaited
<1> QED
  BY <1>5, <1>7

(* One operation of cur is resolved to cf, or waits for the split. *)
LEMMA ResolvedJumps ==
  ASSUME Inv, Inv', Pointers', Jumps, phase = "cf", SameExtent(bbs, bbs'), UNCHANGED <<prog, ptr>>,
         needs \subseteq needs',
         NEW cf, \A c \in 1..Len(bbs) : bbs'[c].cfs = CfsBut(bbs, cur, cfi, cf, c),
         \/ NextCf(cur) /\ Good(cf, bbs', Places')
         \/ phase' = "split" /\ req'.back = "cf" /\ UNCHANGED <<pos, cur, cfi>> /\ Linking',
         \/ \A b \in 1..Len(bbs) : cur \notin DOMAIN bbs'[b].preds
         \/ \A k \in (cfi + 1)..Len(Issued) : Issued[k].jump = pos + 1
  PROVE  Jumps'
<1> DEFINE I == Issued
<1>1. /\ WfBlocks(bbs) /\ Len(bbs) \in Nat /\ cur \in 1..Len(bbs) /\ cur # Null
      /\ IsSeq(bbs[cur].cfs) /\ Len(bbs[cur].cfs) = Len(I) /\ Len(I) \in Nat
      /\ DOMAIN bbs[cur].cfs = 1..Len(I)
      /\ cfi \in 1..Len(I)
      /\ \A k \in cfi..Len(I) : bbs[cur].cfs[k] = I[k]
  BY CurrentIssued
<1>2. Places \subseteq Places' /\ Len(bbs') = Len(bbs) /\ Len(bbs) <= Len(bbs')
      /\ \A b \in 1..Len(bbs) : bbs'[b].start = bbs[b].start
  <2>1. Places \subseteq Places'
    <3>1. NextCf(cur) \/ (phase' = "split" /\ pos' = pos)
      OBVIOUS
    <3> HIDE DEF Places, NextCf, Pointers, Good, Linking, Inv, Jumps, SameExtent
    <3> QED
      BY <3>1, ResolvedPlaces
  <2> QED
    BY <1>1, <2>1 DEF SameExtent, Extends
<1>3. \/ phase' = "cf" /\ cfi' = cfi + 1 /\ cfi < Len(I) /\ cur' = cur /\ pos' = pos
         /\ Good(cf, bbs', Places')
      \/ phase' = "scan" /\ cfi = Len(I) /\ cur' = Null /\ Good(cf, bbs', Places')
      \/ phase' = "split" /\ req'.back = "cf" /\ UNCHANGED <<pos, cur, cfi>> /\ Linking'
  BY <1>1 DEF NextCf
<1>4. /\ \A b \in 1..Len(bbs) : DOMAIN bbs'[b].cfs = DOMAIN bbs[b].cfs
      /\ \A b \in 1..Len(bbs) : \A k \in DOMAIN bbs[b].cfs :
           bbs'[b].cfs[k] = IF b = cur /\ k = cfi THEN cf ELSE bbs[b].cfs[k]
  BY DEF CfsBut
<1> HIDE DEF I, Places, Good, Linking
<1>5. AllGood'
  <2>1. ASSUME NEW b \in 1..Len(bbs'), NEW k \in DOMAIN bbs'[b].cfs
        PROVE  \/ /\ b \in 1..Len(bbs) /\ k \in DOMAIN bbs[b].cfs /\ bbs'[b].cfs[k] = bbs[b].cfs[k]
                  /\ Waiting(b, k) => Waiting(b, k)'
               \/ Waiting(b, k)'
               \/ Good(bbs'[b].cfs[k], bbs', Places')
    <3>1. b \in 1..Len(bbs) /\ k \in DOMAIN bbs[b].cfs
      BY <1>2, <1>4, <2>1
    <3>2. CASE b = cur /\ k = cfi
      <4>1. bbs'[b].cfs[k] = cf
        BY <1>4, <3>1, <3>2
      <4>2. phase' = "split" /\ req'.back = "cf" /\ UNCHANGED <<cur, cfi>> => Waiting(b, k)'
        BY <1>1, <3>2 DEF Waiting, Lifting
      <4> HIDE DEF Waiting
      <4> QED
        BY <1>3, <4>1, <4>2
    <3>3. CASE ~(b = cur /\ k = cfi)
      <4>1. bbs'[b].cfs[k] = bbs[b].cfs[k]
        BY <1>4, <3>1, <3>3
      <4>2. Waiting(b, k) => b = cur /\ k \in 1..Len(I) /\ k > cfi
        BY <1>1, <3>1, <3>3 DEF Waiting
      <4>3. Waiting(b, k) => Waiting(b, k)'
        BY <1>1, <1>3, <4>2 DEF Waiting, Lifting
      <4> QED
        BY <3>1, <4>1, <4>3
    <3> QED
      BY <3>2, <3>3
  <2>2. AllGood
    BY DEF Jumps
  <2> HIDE DEF Waiting, AllGood
  <2> QED
    BY <1>2, <2>1, <2>2, AllGoodKept
<1>6. Resolving'
  <2> SUFFICES ASSUME phase' = "cf"
               PROVE  Resolving'
    BY DEF Resolving
  <2>1. cfi' = cfi + 1 /\ cfi < Len(I) /\ cur' = cur /\ pos' = pos
    BY <1>3
  <2>2. Issued' = I
    BY <2>1 DEF Issued, I
  <2>3. Len(bbs'[cur].cfs) = Len(I)
    <3>1. bbs'[cur].cfs = [bbs[cur].cfs EXCEPT ![cfi] = cf]
      BY <1>1 DEF CfsBut
    <3> QED
      BY <1>1, <3>1, ExceptIsSeq
  <2>4. \A k \in (cfi + 1)..Len(I) : bbs'[cur].cfs[k] = I[k]
    <3> TAKE k \in (cfi + 1)..Len(I)
    <3>1. k \in cfi..Len(I) /\ k \in 1..Len(I) /\ k # cfi
      BY <1>1
    <3> QED
      BY <1>1, <1>4, <3>1
  <2>5. NoEdges' \/ \A k \in (cfi + 1)..Len(I) : I[k].jump = pos + 1
    BY <1>2, <2>1 DEF NoEdges, I
  <2>6. cfi' \in 1..Len(I)
    BY <1>1, <2>1
  <2> QED
    BY <2>1, <2>2, <2>3, <2>4, <2>5, <2>6 DEF Resolving, Untouched
<1>7. Unlinked'
  BY <1>3 DEF Unlinked
<1>8. Linking'
  BY <1>3 DEF Linking
<1> QED
  BY <1>5, <1>6, <1>7, <1>8 DEF Jumps

(* Operations and edges after the loop has linked two blocks. *)
LEMMA LinkedPreds ==
  ASSUME Inv, phase = "cf", BlockAt(CurCf.jump) # Null
  PROVE  \A c \in 1..Len(bbs) : Linked[c].preds = PredsWith(bbs, cur, BlockAt(CurCf.jump), c)
<1> DEFINE t == BlockAt(CurCf.jump)
           cf == [bbs[cur].cfs[cfi] EXCEPT !.target = t]
           B == PutCf(bbs, cur, cfi, cf)
<1>1. /\ WfBlocks(bbs) /\ Len(bbs) \in Nat /\ cur \in 1..Len(bbs)
      /\ DOMAIN bbs = 1..Len(bbs) /\ \A c \in 1..Len(bbs) : DOMAIN bbs[c] = BlockFields
      /\ t \in 1..Len(bbs) /\ t \in 0..Len(bbs)
  <2>1. /\ WfBlocks(bbs) /\ Len(bbs) \in Nat /\ cur \in 1..Len(bbs) /\ DOMAIN bbs = 1..Len(bbs)
    BY DEF Inv, Typed, Control, Lifting, WfBlocks, IsSeq, Null
  <2>2. \A c \in 1..Len(bbs) : DOMAIN bbs[c] = BlockFields
    BY <2>1 DEF WfBlocks, WfBlock
  <2>3. t \in 1..Len(bbs) /\ t \in 0..Len(bbs)
    BY BlockAtLifted
  <2> QED
    BY <2>1, <2>2, <2>3
<1>2. cfi \in DOMAIN bbs[cur].cfs => WfCf(bbs[cur].cfs[cfi], Len(bbs))
  BY <1>1 DEF WfBlocks, WfBlock, WfCfs
<1> HIDE DEF t
<1>3. cfi \in DOMAIN bbs[cur].cfs => WfCf(cf, Len(bbs))
  BY <1>1, <1>2, CfFieldsWf
<1>4. Linked = AddEdge(B, cur, t)
  <2>1. [bbs EXCEPT ![cur].cfs[cfi].target = t] = B
    BY DEF PutCf, Put, WithCfs
  <2> HIDE DEF B
  <2> QED
    BY <2>1 DEF Linked, t
<1> HIDE DEF cf
<1>5. WfBlocks(B) /\ Len(B) = Len(bbs)
  BY <1>1, <1>3, PutCfSame DEF SameExtent
<1>6. \A c \in 1..Len(bbs) : B[c].preds = bbs[c].preds
  BY <1>1 DEF PutCf, Put, WithCfs, BlockFields
<1> HIDE DEF B
<1>7. \A c \in 1..Len(bbs) : Linked[c].preds = PredsWith(B, cur, t, c)
  BY <1>1, <1>4, <1>5, AddEdgePreds
<1>8. \A c \in 1..Len(bbs) : PredsWith(B, cur, t, c) = PredsWith(bbs, cur, t, c)
  BY <1>6 DEF PredsWith
<1> QED
  BY <1>7, <1>8 DEF t

LEMMA NewPred ==
  ASSUME NEW P, NEW b, b \notin DOMAIN P
  PROVE  b \in DOMAIN BagAdd(P, b) /\ BagAdd(P, b)[b] = 1
BY DEF BagAdd

(* An operation replaced by itself. *)
LEMMA CfsButSame ==
  ASSUME NEW B, WfBlocks(B), NEW b, NEW k, NEW cf, cf = B[b].cfs[k]
  PROVE  \A c \in 1..Len(B) : B[c].cfs = CfsBut(B, b, k, cf, c)
<1>1. \A c \in 1..Len(B) : IsSeq(B[c].cfs)
  BY OpsTyped
<1> QED
  BY <1>1 DEF CfsBut, IsSeq

LEMMA ResolveReturnJumps ==
  ASSUME Inv, Inv', Pointers', Jumps, ResolveReturn
  PROVE  Jumps'
<1>1. /\ phase = "cf" /\ CurCf.type = "ret" /\ NextCf(cur) /\ UNCHANGED <<prog, ptr>>
      /\ bbs' = bbs /\ needs \subseteq needs'
  BY DEF ResolveReturn
<1>2. WfBlocks(bbs) /\ ~Direct(CurCf)
  BY <1>1, CurrentIssued
<1>3. Good(CurCf, bbs', Places')
  BY <1>2 DEF Good
<1>4. SameExtent(bbs, bbs')
  BY <1>1, <1>2, ExtendsReflexive DEF SameExtent
<1>5. \A c \in 1..Len(bbs) : bbs'[c].cfs = CfsBut(bbs, cur, cfi, CurCf, c)
  BY <1>1, <1>2, CfsButSame DEF CurCf
<1>6. \/ \A b \in 1..Len(bbs) : cur \notin DOMAIN bbs'[b].preds
      \/ \A k \in (cfi + 1)..Len(Issued) : Issued[k].jump = pos + 1
  <2>1. cfi \in Int
    BY DEF Inv, Typed
  <2> QED
    BY <1>1, <2>1 DEF Jumps, Resolving, NoEdges
<1> HIDE DEF Good, Places, NextCf, CurCf, Jumps, Inv, Pointers
<1> QED
  BY <1>1, <1>3, <1>4, <1>5, <1>6, ResolvedJumps

LEMMA ResolveUnknownJumps ==
  ASSUME Inv, Inv', Pointers', Jumps, ResolveUnknown
  PROVE  Jumps'
<1>1. /\ phase = "cf" /\ BlockAt(CurCf.jump) = Null /\ NextCf(cur) /\ UNCHANGED <<prog, ptr>>
      /\ needs \subseteq needs' /\ {CurCf.jump} \cap Slots \subseteq needs'
      /\ bbs' = IF TableEntries = {} THEN bbs
                ELSE [bbs EXCEPT ![cur].cfs[cfi] = [@ EXCEPT !.addrs = TableEntries, !.jump = prog[pos].t]]
  BY DEF ResolveUnknown
<1>2. PICK I : I = Issued
  OBVIOUS
<1>3. /\ WfBlocks(bbs) /\ Len(bbs) \in Nat /\ cur \in 1..Len(bbs) /\ pos \in Slots
      /\ CurCf = I[cfi] /\ cfi \in 1..Len(I) /\ WfCf(CurCf, 0) /\ CurCf.target = Null
      /\ prog[pos].kind = "table" => ~Direct(CurCf)
      /\ DOMAIN bbs[cur].cfs = 1..Len(I)
  BY <1>1, <1>2, CurrentIssued
<1>4. PICK cf : cf = IF TableEntries = {} THEN CurCf
                     ELSE [CurCf EXCEPT !.addrs = TableEntries, !.jump = prog[pos].t]
  OBVIOUS
<1>5. TableEntries # {} => ~Direct(cf)
  <2>1. TableEntries # {} => ~Direct(CurCf)
    BY <1>3 DEF TableEntries
  <2> QED
    BY <1>3, <1>4, <2>1 DEF Direct, WfCf, CfFields
<1>6. /\ SameExtent(bbs, bbs')
      /\ \A c \in 1..Len(bbs) : bbs'[c].cfs = CfsBut(bbs, cur, cfi, cf, c)
      /\ \A c \in 1..Len(bbs) : bbs'[c].preds = bbs[c].preds
  <2>1. CASE TableEntries = {}
    <3>1. SameExtent(bbs, bbs')
      BY <1>1, <1>3, <2>1, ExtendsReflexive DEF SameExtent
    <3>2. \A c \in 1..Len(bbs) : bbs'[c].cfs = CfsBut(bbs, cur, cfi, cf, c)
      BY <1>1, <1>3, <1>4, <2>1, CfsButSame DEF CurCf
    <3> QED
      BY <1>1, <2>1, <3>1, <3>2
  <2>2. CASE TableEntries # {}
    <3>1. prog[pos].t \in 0..(N + 1) /\ TableEntries \in SUBSET Slots
      <4>1. prog[pos] \in Instr
        BY <1>3, InstrAssumption DEF Inv, Typed
      <4> QED
        BY <4>1, NAssumption DEF Instr, Targets, TableEntries
    <3>2. WfCf(CurCf, Len(bbs))
      BY <1>3, WfGrows
    <3>3. WfCf(cf, Len(bbs))
      <4> HIDE DEF WfCf, CurCf
      <4> QED
        BY <1>3, <1>4, <2>2, <3>1, <3>2, CfFieldsWf
    <3>4. bbs' = PutCf(bbs, cur, cfi, cf)
      BY <1>1, <1>4, <2>2 DEF PutCf, Put, WithCfs, CurCf
    <3>5. SameExtent(bbs, bbs') /\ \A c \in 1..Len(bbs) : bbs'[c].cfs = CfsBut(bbs, cur, cfi, cf, c)
      BY <1>3, <3>3, <3>4, PutCfSame, PutCfCfs
    <3>6. DOMAIN bbs = 1..Len(bbs) /\ \A c \in 1..Len(bbs) : DOMAIN bbs[c] = BlockFields
      BY <1>3 DEF WfBlocks, WfBlock, IsSeq
    <3>7. \A c \in 1..Len(bbs) : bbs'[c].preds = bbs[c].preds
      BY <1>3, <3>4, <3>6 DEF PutCf, Put, WithCfs, BlockFields
    <3> QED
      BY <3>5, <3>7
  <2> QED
    BY <2>1, <2>2
<1>7. \A j \in needs' : ptr[j] = Null => j \in Places'
  <2>1. NextCf(cur) \/ (phase' = "split" /\ pos' = pos)
    BY <1>1
  <2> HIDE DEF Places, NextCf, Inv, Pointers, Jumps, SameExtent
  <2> QED
    BY <1>1, <1>6, <2>1, ResolvedPlaces
<1>8. Good(cf, bbs', Places')
  <2>1. CASE TableEntries # {}
    BY <1>5, <2>1 DEF Good
  <2>2. CASE TableEntries = {}
    <3>1. cf = CurCf
      BY <1>4, <2>2
    <3>2. CurCf.jump \in Slots => ptr[CurCf.jump] = Null /\ CurCf.jump \in needs'
      BY <1>1 DEF BlockAt
    <3> HIDE DEF Places, CurCf, Direct
    <3> QED
      BY <1>3, <1>7, <3>1, <3>2 DEF Good
  <2> QED
    BY <2>1, <2>2
<1>9. \/ \A b \in 1..Len(bbs) : cur \notin DOMAIN bbs'[b].preds
      \/ \A k \in (cfi + 1)..Len(Issued) : Issued[k].jump = pos + 1
  <2>1. cfi \in Int
    BY DEF Inv, Typed
  <2> QED
    BY <1>1, <1>6, <2>1 DEF Jumps, Resolving, NoEdges
<1> HIDE DEF Good, Places, NextCf, CurCf, Jumps, Inv, Pointers
<1> QED
  BY <1>1, <1>6, <1>8, <1>9, ResolvedJumps

(* The target of a linked operation is lifted, so it is not the next slot: *)
(* the operations behind it in the loop go there.                          *)
LEMMA LinkedJumps ==
  ASSUME Inv, Inv', Pointers', Jumps, ResolveLink \/ ResolveSplit
  PROVE  Jumps'
<1> DEFINE t == BlockAt(CurCf.jump)
<1>1. /\ phase = "cf" /\ t # Null /\ UNCHANGED <<prog, ptr>>
      /\ needs \subseteq needs' /\ bbs' = Linked
      /\ \/ NextCf(cur) /\ bbs[t].start = CurCf.jump
         \/ /\ phase' = "split" /\ req' = [bb |-> t, addr |-> CurCf.jump, back |-> "cf"]
            /\ UNCHANGED <<pos, cur, cfi>>
  BY DEF ResolveLink, ResolveSplit
<1>2. PICK I : I = Issued
  OBVIOUS
<1>3. /\ WfBlocks(bbs) /\ Len(bbs) \in Nat /\ cur \in 1..Len(bbs) /\ pos \in Int /\ Horizon = pos
      /\ CurCf = I[cfi] /\ cfi \in 1..Len(I) /\ Len(I) \in Nat /\ WfCf(CurCf, 0)
      /\ Direct(CurCf) \/ CurCf.jump = 0
      /\ DOMAIN bbs[cur].cfs = 1..Len(I) /\ IsSeq(bbs[cur].cfs) /\ Len(bbs[cur].cfs) = Len(I)
      /\ \A k \in cfi..Len(I) : bbs[cur].cfs[k] = I[k]
      /\ \A k, l \in 1..Len(I) : k # l => I[k].jump = pos + 1 \/ I[l].jump = pos + 1
  BY <1>1, <1>2, CurrentIssued
<1>4. CurCf.jump \in Slots /\ ptr[CurCf.jump] = t /\ t \in 1..Len(bbs) /\ CurCf.jump <= pos
      /\ CurCf.jump # pos + 1 /\ Direct(CurCf)
  <2>1. CurCf.jump \in Slots /\ ptr[CurCf.jump] = t /\ t \in 1..Len(bbs) /\ CurCf.jump <= pos
    BY <1>1, <1>3, BlockAtLifted
  <2> HIDE DEF t, CurCf, Direct
  <2> QED
    BY <1>3, <2>1 DEF Slots
<1>5. PICK cf : cf = [CurCf EXCEPT !.target = t]
  OBVIOUS
<1>6. /\ SameExtent(bbs, bbs')
      /\ \A c \in 1..Len(bbs) : bbs'[c].cfs = CfsBut(bbs, cur, cfi, cf, c)
      /\ \A c \in 1..Len(bbs) : bbs'[c].preds = PredsWith(bbs, cur, t, c)
      /\ Len(bbs') = Len(bbs) /\ \A c \in 1..Len(bbs) : bbs'[c].start = bbs[c].start
  <2> HIDE DEF t
  <2>1. /\ SameExtent(bbs, bbs')
        /\ \A c \in 1..Len(bbs) : bbs'[c].cfs = CfsBut(bbs, cur, cfi, cf, c)
        /\ \A c \in 1..Len(bbs) : bbs'[c].preds = PredsWith(bbs, cur, t, c)
    BY <1>1, <1>5, LinkedSame, LinkedPreds DEF t
  <2> QED
    BY <2>1 DEF SameExtent, Extends
<1>7. \A k \in (cfi + 1)..Len(I) : I[k].jump = pos + 1
  <2> TAKE k \in (cfi + 1)..Len(I)
  <2>1. k \in 1..Len(I) /\ k # cfi
    BY <1>3
  <2> HIDE DEF CurCf
  <2> QED
    BY <1>3, <1>4, <2>1
<1>8. Places \subseteq Places'
  <2>1. NextCf(cur) \/ (phase' = "split" /\ pos' = pos)
    BY <1>1
  <2> HIDE DEF Places, NextCf, Pointers, Inv, Jumps, SameExtent
  <2> QED
    BY <1>1, <1>6, <2>1, ResolvedPlaces
<1>9. bbs[t].start = CurCf.jump => Good(cf, bbs', Places')
  <2> SUFFICES ASSUME bbs[t].start = CurCf.jump
               PROVE  Good(cf, bbs', Places')
    OBVIOUS
  <2>1. CurCf.jump \in Starts
    BY <1>1, <1>4 DEF Starts
  <2>2. CurCf.jump \in Places'
    BY <1>8, <2>1 DEF Places
  <2>3. cf.jump = CurCf.jump /\ cf.target = t
    BY <1>3, <1>5 DEF WfCf, CfFields
  <2> HIDE DEF Places, CurCf, t
  <2> QED
    BY <1>4, <1>6, <2>2, <2>3 DEF Good
<1>10. ASSUME phase' = "split" /\ req' = [bb |-> t, addr |-> CurCf.jump, back |-> "cf"]
             /\ UNCHANGED <<pos, cur, cfi>>
       PROVE  Linking'
  <2>1. req'.bb = t /\ req'.addr = CurCf.jump
    BY <1>10
  <2>2. Issued' = I
    BY <1>1, <1>2, <1>10 DEF Issued
  <2>3. bbs'[cur].cfs = [bbs[cur].cfs EXCEPT ![cfi] = cf]
    BY <1>3, <1>6 DEF CfsBut
  <2>4. Len(bbs'[cur].cfs) = Len(I)
    BY <1>3, <2>3, ExceptIsSeq
  <2>5. bbs'[cur].cfs[cfi] = [I[cfi] EXCEPT !.target = t]
    BY <1>3, <1>5, <2>3
  <2>6. \A k \in (cfi + 1)..Len(I) : bbs'[cur].cfs[k] = I[k] /\ I[k].jump = pos + 1
    <3> TAKE k \in (cfi + 1)..Len(I)
    <3>1. k \in cfi..Len(I) /\ k \in 1..Len(I) /\ k # cfi
      BY <1>3
    <3> HIDE DEF CurCf, t
    <3> QED
      BY <1>3, <1>7, <2>3, <3>1
  <2>7. bbs'[t].preds[cur] = 1 /\ cur \in DOMAIN bbs'[t].preds
    <3>1. NoEdges
      <4>1. NoEdges \/ \A k \in cfi..Len(I) : I[k].jump = pos + 1
        BY <1>1, <1>2 DEF Jumps, Resolving
      <4>2. cfi \in cfi..Len(I)
        BY <1>3
      <4> HIDE DEF CurCf, NoEdges
      <4> QED
        BY <1>3, <1>4, <4>1, <4>2
    <3>2. cur \notin DOMAIN bbs[t].preds
      BY <1>4, <3>1 DEF NoEdges
    <3>3. bbs'[t].preds = BagAdd(bbs[t].preds, cur)
      BY <1>4, <1>6 DEF PredsWith
    <3> HIDE DEF t
    <3> QED
      BY <3>2, <3>3, NewPred
  <2>8. Direct(I[cfi]) /\ I[cfi].jump = CurCf.jump
    <3> HIDE DEF CurCf, Direct
    <3> QED
      BY <1>3, <1>4
  <2> HIDE DEF CurCf, t, Direct
  <2> QED
    BY <1>3, <1>10, <2>1, <2>2, <2>4, <2>5, <2>6, <2>7, <2>8 DEF Linking, Untouched
<1>11. \/ NextCf(cur) /\ Good(cf, bbs', Places')
       \/ phase' = "split" /\ req'.back = "cf" /\ UNCHANGED <<pos, cur, cfi>> /\ Linking'
  <2> HIDE DEF Linking, Good, Places, CurCf, t, NextCf
  <2> QED
    BY <1>1, <1>9, <1>10
<1> HIDE DEF Good, Places, NextCf, CurCf, Jumps, Inv, Pointers, Linking, t
<1> QED
  BY <1>1, <1>2, <1>6, <1>7, <1>11, ResolvedJumps

-----------------------------------------------------------------------------
(* Lifter::split_basic_block.                                              *)

(* Of the operations that may not stay, only the one that asked for the    *)
(* split jumps into the second half: that half starts nowhere but at the   *)
(* address of the split.                                                   *)
LEMMA IntoSecondAsked ==
  ASSUME AllYield, Inv, Disjoint(bbs), Pointers, Jumps, phase = "split",
         NEW t \in 1..Len(bbs), NEW k \in DOMAIN bbs[t].cfs
  PROVE  /\ ~Waiting(t, k) => Good(bbs[t].cfs[k], bbs, Places)
         /\ Waiting(t, k) /\ k # cfi => /\ k \in (cfi + 1)..Len(Issued)
                                        /\ bbs[t].cfs[k] = Issued[k]
         /\ IntoSecond(bbs[t].cfs[k]) => Lifting /\ t = cur /\ k = cfi
<1> DEFINE b == req.bb
           s == bbs[b].start
           e == bbs[b].end
           a == req.addr
           cf == bbs[t].cfs[k]
<1>1. /\ b \in 1..Len(bbs) /\ b # Null /\ N \in Nat /\ pos \in Int /\ e <= pos /\ Len(bbs) \in Nat
      /\ WfBlocks(bbs)
  <2>1. /\ b \in 1..Len(bbs) /\ N \in Nat /\ pos \in Int /\ Horizon = pos /\ Len(bbs) \in Nat
        /\ WfBlocks(bbs)
    BY SplitFacts
  <2> QED
    BY <2>1 DEF Null, Inv, Behind
<1>2. bbs[b].code = s..e /\ s \in 1..(a - 1) /\ a \in 1..e /\ e \in Slots
  BY SplitRun
<1>3. WfCf(cf, Len(bbs)) /\ DOMAIN bbs[t].cfs = 1..Len(bbs[t].cfs) /\ Len(bbs[t].cfs) \in Nat
  <2>1. WfBlock(bbs[t], Len(bbs))
    BY <1>1 DEF WfBlocks
  <2> QED
    BY <2>1 DEF WfBlock, WfCfs, IsSeq
<1>4. ~Waiting(t, k) => Good(cf, bbs, Places)
  <2>1. AllGood
    BY DEF Jumps
  <2> HIDE DEF Waiting, Good, Places
  <2> QED
    BY <2>1 DEF AllGood
<1>5. ASSUME Waiting(t, k), k # cfi
      PROVE  k \in (cfi + 1)..Len(Issued) /\ cf = Issued[k] /\ cf.jump = pos + 1
  <2>1. /\ t = cur /\ k >= cfi /\ req.back = "cf" /\ cfi \in Nat /\ k \in 1..Len(bbs[t].cfs)
    BY <1>3, <1>5 DEF Waiting, Lifting, Inv, Typed
  <2>2. /\ Len(bbs[cur].cfs) = Len(Issued)
        /\ \A l \in (cfi + 1)..Len(Issued) : Untouched(l) /\ Issued[l].jump = pos + 1
    BY <2>1 DEF Jumps, Linking
  <2>3. k \in (cfi + 1)..Len(Issued)
    BY <1>3, <1>5, <2>1, <2>2
  <2> QED
    BY <2>1, <2>2, <2>3 DEF Untouched
<1>6. ASSUME Good(cf, bbs, Places)
      PROVE  ~IntoSecond(cf)
  <2> SUFFICES ASSUME Direct(cf), a <= cf.jump, cf.jump <= e
               PROVE  FALSE
    BY DEF IntoSecond
  <2>1. cf.jump \in s..e /\ cf.jump \in Slots /\ cf.jump # s
    <3>1. cf.jump \in 0..(N + 1)
      BY <1>3 DEF WfCf
    <3>2. s \in 1..(a - 1) /\ a \in 1..e /\ e \in 1..N /\ N \in Nat
      BY <1>1, <1>2 DEF Slots
    <3>3. PICK j : j = cf.jump
      OBVIOUS
    <3> HIDE DEF cf, s, e, a, Direct
    <3>4. j \in 0..(N + 1) /\ a <= j /\ j <= e
      BY <3>1, <3>3
    <3>5. j \in s..e /\ j \in 1..N /\ j # s
      BY <3>2, <3>4
    <3> QED
      BY <3>3, <3>5 DEF Slots
  <2>2. ptr[cf.jump] = b
    <3>1. FoundInCode(bbs, ptr) /\ bbs[b].end # 0
      BY <1>1, <1>2 DEF Pointers, Mapped, Slots
    <3> HIDE DEF cf, b
    <3> QED
      BY <1>1, <1>2, <2>1, <3>1 DEF FoundInCode, b
  <2>3. cf.jump \in Starts \cup Awaited
    BY <1>6, <2>1 DEF Good, Places
  <2> QED
    BY <1>1, <2>1, <2>2, <2>3 DEF Starts, Awaited
<1>7. IntoSecond(cf) => Lifting /\ t = cur /\ k = cfi
  <2> SUFFICES ASSUME IntoSecond(cf)
               PROVE  Lifting /\ t = cur /\ k = cfi
    OBVIOUS
  <2>1. Waiting(t, k)
    BY <1>4, <1>6
  <2>2. k = cfi
    <3>1. cf.jump <= e
      BY DEF IntoSecond
    <3>2. ~(pos + 1 <= e)
      BY <1>1, <1>2 DEF Slots
    <3> HIDE DEF cf, e, Waiting
    <3> QED
      BY <1>5, <2>1, <3>1, <3>2
  <2> QED
    BY <2>1, <2>2 DEF Waiting
<1> HIDE DEF Waiting, Good, Places, IntoSecond
<1> QED
  BY <1>4, <1>5, <1>7

(* The operation that asked for it targets the block that is split. *)
LEMMA AskedOperation ==
  ASSUME AllYield, Inv, Disjoint(bbs), Pointers, Jumps, phase = "split", Lifting
  PROVE  LET cf == bbs[cur].cfs[cfi]
         IN  /\ cur \in 1..Len(bbs) /\ cfi \in DOMAIN bbs[cur].cfs
             /\ IntoSecond(cf) /\ ~IntoFirst(cf)
             /\ cf.jump = req.addr /\ cf.target = req.bb /\ cf.cont = Null
             /\ Direct(cf) /\ DOMAIN cf = CfFields
             /\ cur \in DOMAIN bbs[req.bb].preds /\ bbs[req.bb].preds[cur] = 1
<1> DEFINE cf == bbs[cur].cfs[cfi]
           b == req.bb
           e == bbs[b].end
           a == req.addr
<1>1. a \in 1..e /\ e \in Slots /\ FirstEnd = a - 1
  BY SplitRun
<1>2. PICK I : I = Issued
  OBVIOUS
<1>3. /\ req.back = "cf" /\ cur # Null /\ pos \in Slots /\ prog[pos] \in Instr
      /\ cur \in 1..Len(bbs) /\ WfBlocks(bbs)
  BY NAssumption, InstrAssumption DEF Lifting, Inv, Typed, Control, Null, Slots, WfBlocks, IsSeq
<1>4. /\ Len(bbs[cur].cfs) = Len(I) /\ cfi \in 1..Len(I)
      /\ cf = [I[cfi] EXCEPT !.target = b]
      /\ I[cfi].jump = a /\ Direct(I[cfi])
      /\ bbs[b].preds[cur] = 1 /\ cur \in DOMAIN bbs[b].preds
  BY <1>2, <1>3 DEF Jumps, Linking
<1>5. WfCf(I[cfi], 0)
  BY <1>2, <1>3, <1>4, IssuedShape DEF Issued
<1>6. cfi \in DOMAIN bbs[cur].cfs
  <2>1. IsSeq(bbs[cur].cfs)
    BY <1>3, OpsTyped
  <2> QED
    BY <1>4, <2>1 DEF IsSeq
<1> HIDE DEF cf
<1>7. cf.jump = a /\ cf.target = b /\ cf.cont = Null /\ Direct(cf) /\ DOMAIN cf = CfFields
  BY <1>4, <1>5 DEF WfCf, CfFields, Direct, Null
<1>8. IntoSecond(cf) /\ ~IntoFirst(cf)
  <2>1. a \in Int /\ e \in Int /\ a <= e /\ ~(a <= a - 1)
    BY <1>1 DEF Slots
  <2> QED
    BY <1>1, <1>7, <2>1 DEF IntoSecond, IntoFirst
<1> QED
  BY <1>3, <1>4, <1>6, <1>7, <1>8 DEF cf

LEMMA MovesOne ==
  ASSUME AllYield, Inv, Disjoint(bbs), Pointers, Jumps, phase = "split"
  PROVE  Movers \subseteq {<<cur, cfi>>} /\ (Movers # {} => Lifting)
<1> SUFFICES ASSUME NEW m \in Movers
             PROVE  m = <<cur, cfi>> /\ Lifting
  OBVIOUS
<1>1. PICK p \in BagToSet(bbs[req.bb].preds) \ {req.bb} : m \in {p} \X DOMAIN bbs[p].cfs
  BY DEF Movers
<1>2. IntoSecond(bbs[m[1]].cfs[m[2]])
  BY DEF Movers
<1>3. p \in 1..Len(bbs)
  <2>1. req.bb \in 1..Len(bbs) /\ WfBlocks(bbs)
    BY SplitFacts
  <2>2. DOMAIN bbs[req.bb].preds \subseteq 1..Len(bbs)
    BY <2>1 DEF WfBlocks, WfBlock
  <2> QED
    BY <1>1, <2>2 DEF BagToSet
<1>4. m[1] = p /\ m[2] \in DOMAIN bbs[p].cfs /\ m = <<m[1], m[2]>>
  BY <1>1
<1> HIDE DEF IntoSecond, Movers
<1> QED
  BY <1>2, <1>3, <1>4, IntoSecondAsked

(* An operation after the split. *)
Kept(cf, n) == IF IntoSecond(cf) THEN [cf EXCEPT !.target = n] ELSE cf

LEMMA SplitKept ==
  ASSUME AllYield, Inv, Disjoint(bbs), Pointers, Jumps, phase = "split", NEW n, n = Len(bbs) + 1
  PROVE  /\ DOMAIN SecondCfs(n) = DOMAIN bbs[req.bb].cfs
         /\ \A k \in DOMAIN bbs[req.bb].cfs : SecondCfs(n)[k] = Kept(bbs[req.bb].cfs[k], n)
         /\ \A t \in 1..Len(bbs) :
              /\ DOMAIN MovedCfs(t, n) = DOMAIN bbs[t].cfs
              /\ t # req.bb => \A k \in DOMAIN bbs[t].cfs : MovedCfs(t, n)[k] = Kept(bbs[t].cfs[k], n)
<1>1. req.bb \in 1..Len(bbs) /\ req.bb # Null
  BY SplitFacts DEF Null
<1>2. ASSUME NEW k \in DOMAIN bbs[req.bb].cfs
      PROVE  SecondCfs(n)[k] = Kept(bbs[req.bb].cfs[k], n)
  <2>1. IntoSecond(bbs[req.bb].cfs[k]) => ~IntoFirst(bbs[req.bb].cfs[k])
    <3> HIDE DEF IntoSecond, IntoFirst
    <3> QED
      BY <1>1, IntoSecondAsked, AskedOperation
  <2> HIDE DEF IntoSecond, IntoFirst
  <2> QED
    BY <2>1 DEF SecondCfs, Kept
<1>3. ASSUME NEW t \in 1..Len(bbs), t # req.bb, NEW k \in DOMAIN bbs[t].cfs
      PROVE  MovedCfs(t, n)[k] = Kept(bbs[t].cfs[k], n)
  <2> DEFINE cf == bbs[t].cfs[k]
  <2>1. CASE IntoSecond(cf)
    <3>1. Lifting /\ t = cur /\ k = cfi
      BY <2>1, IntoSecondAsked
    <3>2. cf.cont # req.bb /\ t \in DOMAIN bbs[req.bb].preds
      BY <1>1, <3>1, AskedOperation
    <3>3. <<t, k>> \in Movers
      <4>1. t \in BagToSet(bbs[req.bb].preds) \ {req.bb}
        BY <1>3, <3>2 DEF BagToSet
      <4>2. <<t, k>> \in {t} \X DOMAIN bbs[t].cfs /\ <<t, k>>[1] = t /\ <<t, k>>[2] = k
        BY <1>3
      <4> HIDE DEF IntoSecond
      <4> QED
        BY <2>1, <4>1, <4>2 DEF Movers
    <3>4. Retarget(cf, n) = [cf EXCEPT !.target = n]
      BY <3>2 DEF Retarget
    <3> HIDE DEF Movers, IntoSecond
    <3> QED
      BY <1>3, <2>1, <3>3, <3>4 DEF MovedCfs, Kept
  <2>2. CASE ~IntoSecond(cf)
    <3>1. <<t, k>> \notin Movers
      <4>1. <<t, k>>[1] = t /\ <<t, k>>[2] = k
        OBVIOUS
      <4> HIDE DEF IntoSecond
      <4> QED
        BY <2>2, <4>1 DEF Movers
    <3> HIDE DEF Movers, IntoSecond
    <3> QED
      BY <1>3, <2>2, <3>1 DEF MovedCfs, Kept
  <2> QED
    BY <2>1, <2>2
<1>4. /\ DOMAIN SecondCfs(n) = DOMAIN bbs[req.bb].cfs
      /\ \A t \in 1..Len(bbs) : DOMAIN MovedCfs(t, n) = DOMAIN bbs[t].cfs
  BY DEF SecondCfs, MovedCfs
<1> HIDE DEF Kept
<1> QED
  BY <1>2, <1>3, <1>4

(* The address of the split becomes a place, and no place is lost. *)
LEMMA SplitPlaces ==
  ASSUME AllYield, Inv, Inv', Disjoint(bbs), Pointers, Pointers', Split, NEW n, n = Len(bbs) + 1
  PROVE  /\ Places \subseteq Places' /\ req.addr \in Places' /\ bbs'[n].start = req.addr
         /\ Len(bbs') = n /\ \A c \in 1..Len(bbs) : bbs'[c].start = bbs[c].start
<1> DEFINE b == req.bb
           s == bbs[b].start
           e == bbs[b].end
           a == req.addr
<1>1. /\ Len(bbs') = n /\ Cut(bbs, bbs', ptr, ptr', b, n, s, e, a)
      /\ Len(bbs) \in Nat /\ b \in 1..Len(bbs) /\ phase = "split" /\ pos \in Int /\ N \in Nat
  BY SplitCut, SplitFacts DEF Split
<1>2. /\ \A c \in 1..Len(bbs) : bbs'[c].start = bbs[c].start
      /\ bbs'[n].start = a /\ a \in a..e /\ a \in Slots /\ n # Null /\ b # Null
      /\ \A x \in Slots : x \in a..e => ptr'[x] = n
      /\ \A x \in Slots : x \notin s..e => ptr'[x] = ptr[x]
      /\ \A x \in s..e : x \in bbs[b].code
      /\ e # 0
  <2>1. PICK u, v, w, t : u = a /\ v = s /\ w = e /\ t = b
    OBVIOUS
  <2>2. Cut(bbs, bbs', ptr, ptr', t, n, v, w, u)
    BY <1>1, <2>1
  <2> HIDE DEF a, b, s, e
  <2>3. /\ t \in 1..Len(bbs) /\ n = Len(bbs) + 1 /\ v = bbs[t].start /\ bbs[t].code = v..w
        /\ w \in Slots /\ u \in 1..w
        /\ bbs'[t].start = v /\ bbs'[n].start = u
        /\ \A c \in 1..Len(bbs) : c # t => bbs'[c].start = bbs[c].start
        /\ \A x \in Slots : (x \in u..w => ptr'[x] = n) /\ (x \notin v..w => ptr'[x] = ptr[x])
    BY <2>2 DEF Cut
  <2>4. u \in u..w /\ u \in Slots /\ w # 0 /\ n # Null /\ t # Null
    BY <1>1, <2>3 DEF Slots, Null
  <2> QED
    BY <2>1, <2>3, <2>4
<1>3. needs' = needs /\ pos' \in {pos, pos + 1} /\ Inside' = {}
  <2>1. (phase' = "scan" => cur' = Null) /\ pos' \in {pos, pos + 1} /\ needs' = needs
    <3>1. req.back \in {"cf", "register"}
      BY DEF Inv, Typed
    <3> QED
      BY <3>1 DEF Split, NextCf
  <2> QED
    BY <2>1 DEF Inside
<1> HIDE DEF Inside, b, s, e, a
<1>4. ASSUME NEW j \in Awaited
      PROVE  ptr'[j] = Null /\ (j >= pos' => j \in needs') /\ j \notin Inside'
  <2>1. j \in Slots /\ ptr[j] = Null /\ (j >= pos => j \in needs) /\ j \in Int
    BY DEF Awaited, Slots
  <2>2. j \notin s..e
    <3>1. FoundInCode(bbs, ptr) /\ bbs[b].end # 0
      BY <1>2 DEF Pointers, Mapped, e
    <3>2. \A x \in bbs[b].code : ptr[x] = b
      BY <1>1, <3>1 DEF FoundInCode
    <3> QED
      BY <1>2, <2>1, <3>2
  <2> QED
    BY <1>1, <1>2, <1>3, <2>1, <2>2
<1>5. Places \subseteq Places'
  <2>1. Len(bbs) <= Len(bbs')
    BY <1>1
  <2> HIDE DEF Awaited
  <2> QED
    BY <1>2, <1>4, <2>1, PlacesGrow
<1>6. a \in Places'
  <2>1. ptr'[a] = n
    BY <1>2
  <2> QED
    BY <1>2, <2>1 DEF Places, Starts
<1> QED
  BY <1>1, <1>2, <1>5, <1>6 DEF a

LEMMA SplitJumps ==
  ASSUME AllYield, Inv, Inv', Disjoint(bbs), Pointers, Pointers', Jumps, Split
  PROVE  Jumps'
<1>1. PICK n : n = Len(bbs) + 1
  OBVIOUS
<1>2. PICK next : next = IF req.bb = cur THEN n ELSE cur
  OBVIOUS
<1>3. /\ phase = "split" /\ req.bb \in 1..Len(bbs) /\ WfBlocks(bbs) /\ Len(bbs) \in Nat
      /\ n \in Nat /\ n # Null /\ n \notin 1..Len(bbs)
      /\ \A t \in 1..n : t = n \/ (t = req.bb /\ t # n) \/ (t \in 1..Len(bbs) /\ t # req.bb /\ t # n)
      /\ \A t \in 1..Len(bbs) : WfCfs(bbs[t].cfs, n)
  <2>1. phase = "split"
    BY DEF Split
  <2> QED
    BY <1>1, <2>1, SplitFacts DEF Null
<1>4. /\ Places \subseteq Places' /\ req.addr \in Places' /\ bbs'[n].start = req.addr
      /\ Len(bbs') = n /\ \A c \in 1..Len(bbs) : bbs'[c].start = bbs[c].start
  BY <1>1, SplitPlaces
<1> HIDE DEF Places
<1>5. /\ bbs'[n].cfs = SecondCfs(n)
      /\ bbs'[req.bb].cfs = <<Cf("jump", FirstEnd, req.addr, n)>>
      /\ \A t \in 1..Len(bbs) : t # req.bb => bbs'[t].cfs = MovedCfs(t, n)
  <2>1. /\ bbs'[n] = Second(n) /\ bbs'[req.bb] = First(n)
        /\ \A t \in 1..Len(bbs) : t # req.bb => bbs'[t] = Other(t, n)
    BY <1>1, SplitCut
  <2> QED
    BY <1>1, <1>3, <2>1, FirstWf, SecondWf, OtherWf
<1>6. /\ DOMAIN SecondCfs(n) = DOMAIN bbs[req.bb].cfs
      /\ \A k \in DOMAIN bbs[req.bb].cfs : SecondCfs(n)[k] = Kept(bbs[req.bb].cfs[k], n)
      /\ \A t \in 1..Len(bbs) :
           /\ DOMAIN MovedCfs(t, n) = DOMAIN bbs[t].cfs
           /\ t # req.bb => \A k \in DOMAIN bbs[t].cfs : MovedCfs(t, n)[k] = Kept(bbs[t].cfs[k], n)
  BY <1>1, <1>3, SplitKept
<1>7. /\ prog' = prog
      /\ Lifting => /\ phase' \in {"scan", "cf"}
                    /\ phase' = "cf" => /\ cfi < Len(bbs[cur].cfs) /\ cfi' = cfi + 1
                                        /\ cur' = next /\ pos' = pos
                    /\ phase' = "scan" => cfi >= Len(bbs[cur].cfs) /\ cur' = Null
      /\ ~Lifting => phase' = "register"
  <2>1. req.back \in {"cf", "register"} /\ (Lifting <=> req.back = "cf")
    BY <1>3 DEF Inv, Typed, Lifting
  <2>2. cfi \in Nat /\ \A t \in 1..Len(bbs) : Len(bbs[t].cfs) \in Nat
    BY <1>3 DEF Inv, Typed, WfCfs, IsSeq
  <2>3. Lifting => cur \in 1..Len(bbs)
    BY <1>3 DEF Inv, Typed, Control, Null
  <2>4. req.back = "cf" => NextCf(next)
    BY <1>1, <1>2 DEF Split
  <2>5. req.back # "cf" => phase' = req.back
    BY DEF Split
  <2>6. prog' = prog
    BY DEF Split
  <2> QED
    BY <2>1, <2>2, <2>3, <2>4, <2>5, <2>6 DEF NextCf
<1>8. ASSUME NEW t \in 1..Len(bbs), NEW k \in DOMAIN bbs[t].cfs
      PROVE  \/ Waiting(t, k) /\ k # cfi
             \/ Good(Kept(bbs[t].cfs[k], n), bbs', Places')
  <2> DEFINE cf == bbs[t].cfs[k]
  <2>1. /\ ~Waiting(t, k) => Good(cf, bbs, Places)
        /\ IntoSecond(cf) => Lifting /\ t = cur /\ k = cfi
    BY <1>3, IntoSecondAsked
  <2>2. CASE ~IntoSecond(cf)
    <3>1. Kept(cf, n) = cf
      BY <2>2 DEF Kept
    <3>2. CASE Waiting(t, k)
      <4>1. k # cfi
        <5>1. Lifting /\ t = cur
          BY <3>2 DEF Waiting
        <5> HIDE DEF IntoSecond
        <5> QED
          BY <1>3, <2>2, <5>1, AskedOperation
      <4> QED
        BY <3>2, <4>1
    <3>3. CASE ~Waiting(t, k)
      <4>1. cf.target \in 0..Len(bbs)
        BY <1>3, OpsTyped
      <4> HIDE DEF Good, cf, Waiting, IntoSecond
      <4>2. Good(cf, bbs', Places')
        BY <1>3, <1>4, <2>1, <3>3, <4>1, GoodGrows
      <4> QED
        BY <3>1, <4>2 DEF cf
    <3> QED
      BY <3>2, <3>3
  <2>3. CASE IntoSecond(cf)
    <3>1. Kept(cf, n) = [cf EXCEPT !.target = n]
      BY <2>3 DEF Kept
    <3>2. cf.jump = req.addr /\ DOMAIN cf = CfFields
      BY <1>3, <2>1, <2>3, AskedOperation
    <3>3. Kept(cf, n).jump = req.addr /\ Kept(cf, n).target = n
      BY <3>1, <3>2 DEF CfFields
    <3> HIDE DEF cf
    <3> QED
      BY <1>4, <3>3 DEF Good, cf
  <2> QED
    BY <2>2, <2>3
<1>9. ASSUME NEW t \in 1..Len(bbs), NEW k \in DOMAIN bbs[t].cfs, Waiting(t, k), k # cfi
      PROVE  (t = req.bb => Waiting(n, k)') /\ (t # req.bb => Waiting(t, k)')
  <2>1. /\ Lifting /\ t = cur /\ k >= cfi /\ cfi \in Nat
    BY <1>9 DEF Waiting, Inv, Typed
  <2>2. k \in Nat /\ k <= Len(bbs[cur].cfs) /\ Len(bbs[cur].cfs) \in Nat
    BY <1>3, <2>1 DEF WfCfs, IsSeq
  <2>3. phase' = "cf" /\ cfi' = cfi + 1 /\ cur' = next
    BY <1>7, <1>9, <2>1, <2>2
  <2>4. k >= cfi + 1
    BY <1>9, <2>1, <2>2
  <2>5. Waiting(next, k)'
    BY <2>3, <2>4 DEF Waiting, Lifting
  <2> HIDE DEF Waiting
  <2>6. CASE t = req.bb
    BY <1>2, <2>1, <2>5, <2>6
  <2>7. CASE t # req.bb
    BY <1>2, <2>1, <2>5, <2>7
  <2> QED
    BY <2>6, <2>7
<1>10. Good(Cf("jump", FirstEnd, req.addr, n), bbs', Places')
  <2>1. /\ Cf("jump", FirstEnd, req.addr, n).jump = req.addr
        /\ Cf("jump", FirstEnd, req.addr, n).target = n
    BY DEF Cf
  <2> QED
    BY <1>4, <2>1 DEF Good
<1>11. AllGood'
  <2>1. ASSUME NEW t \in 1..Len(bbs'), NEW k \in DOMAIN bbs'[t].cfs
        PROVE  Waiting(t, k)' \/ Good(bbs'[t].cfs[k], bbs', Places')
    <3> HIDE DEF Waiting, Good, Kept, Cf
    <3>1. CASE t = n
      <4>1. k \in DOMAIN bbs[req.bb].cfs /\ bbs'[t].cfs[k] = Kept(bbs[req.bb].cfs[k], n)
        BY <1>5, <1>6, <2>1, <3>1
      <4>2. CASE Waiting(req.bb, k) /\ k # cfi
        BY <1>3, <1>9, <3>1, <4>1, <4>2
      <4>3. CASE Good(Kept(bbs[req.bb].cfs[k], n), bbs', Places')
        BY <4>1, <4>3
      <4> QED
        BY <1>3, <1>8, <4>1, <4>2, <4>3
    <3>2. CASE t = req.bb /\ t # n
      <4>1. bbs'[t].cfs[k] = Cf("jump", FirstEnd, req.addr, n)
        BY <1>5, <2>1, <3>2, SingleIsSeq
      <4> QED
        BY <1>10, <4>1
    <3>3. CASE t \in 1..Len(bbs) /\ t # req.bb /\ t # n
      <4>1. k \in DOMAIN bbs[t].cfs /\ bbs'[t].cfs[k] = Kept(bbs[t].cfs[k], n)
        BY <1>5, <1>6, <2>1, <3>3
      <4>2. CASE Waiting(t, k) /\ k # cfi
        BY <1>9, <3>3, <4>1, <4>2
      <4>3. CASE Good(Kept(bbs[t].cfs[k], n), bbs', Places')
        BY <4>1, <4>3
      <4> QED
        BY <1>8, <3>3, <4>1, <4>2, <4>3
    <3> QED
      BY <1>3, <1>4, <2>1, <3>1, <3>2, <3>3
  <2> HIDE DEF Waiting, Good
  <2> QED
    BY <2>1 DEF AllGood
<1>12. Resolving'
  <2> SUFFICES ASSUME phase' = "cf"
               PROVE  Resolving'
    BY DEF Resolving
  <2>1. Lifting /\ cfi < Len(bbs[cur].cfs) /\ cfi' = cfi + 1 /\ cur' = next /\ pos' = pos
    BY <1>7
  <2>2. PICK I : I = Issued
    OBVIOUS
  <2>3. Issued' = I
    BY <1>7, <2>1, <2>2 DEF Issued
  <2>4. /\ Len(bbs[cur].cfs) = Len(I) /\ cfi \in 1..Len(I) /\ cur \in 1..Len(bbs)
        /\ \A k \in (cfi + 1)..Len(I) : bbs[cur].cfs[k] = I[k] /\ I[k].jump = pos + 1
    BY <1>3, <2>1, <2>2, AskedOperation DEF Lifting, Jumps, Linking, Untouched
  <2>5. WfCfs(bbs[cur].cfs, n) /\ DOMAIN bbs[cur].cfs = 1..Len(I) /\ Len(I) \in Nat
    BY <1>3, <2>4 DEF WfCfs, IsSeq
  <2>6. \A k \in (cfi + 1)..Len(I) : k \in DOMAIN bbs[cur].cfs /\ Kept(bbs[cur].cfs[k], n) = I[k]
    <3> TAKE k \in (cfi + 1)..Len(I)
    <3>1. k \in DOMAIN bbs[cur].cfs /\ k # cfi
      BY <2>4, <2>5
    <3>2. ~IntoSecond(bbs[cur].cfs[k])
      <4> HIDE DEF IntoSecond
      <4> QED
        BY <1>3, <2>4, <3>1, IntoSecondAsked
    <3> QED
      BY <2>4, <3>1, <3>2 DEF Kept
  <2> HIDE DEF Kept
  <2>7. /\ DOMAIN bbs'[next].cfs = 1..Len(I)
        /\ \A k \in (cfi + 1)..Len(I) : bbs'[next].cfs[k] = I[k]
    <3>1. CASE req.bb = cur
      BY <1>2, <1>5, <1>6, <2>5, <2>6, <3>1
    <3>2. CASE req.bb # cur
      BY <1>2, <1>5, <1>6, <2>4, <2>5, <2>6, <3>2
    <3> QED
      BY <3>1, <3>2
  <2>8. Len(bbs'[next].cfs) = Len(I)
    <3>1. next \in 1..Len(bbs')
      BY <1>1, <1>2, <1>3, <1>4, <2>4
    <3>2. IsSeq(bbs'[next].cfs)
      BY <3>1, OpsTyped DEF Inv, Typed
    <3> QED
      BY <2>5, <2>7, <3>2 DEF IsSeq
  <2> QED
    BY <2>1, <2>3, <2>4, <2>7, <2>8 DEF Resolving, Untouched
<1>13. Unlinked' /\ Linking'
  BY <1>7 DEF Unlinked, Linking
<1> QED
  BY <1>11, <1>12, <1>13 DEF Jumps

-----------------------------------------------------------------------------
(* The lifter.                                                             *)

LEMMA InitJumps == Init => Jumps
<1> SUFFICES ASSUME Init
             PROVE  Jumps
  OBVIOUS
<1>1. Len(bbs) = 1 /\ bbs[1].cfs = <<>> /\ phase = "scan" /\ cur = Null
  BY DEF Init, EmptyBlock
<1>2. AllGood
  BY <1>1, EmptyIsSeq DEF AllGood, IsSeq
<1> QED
  BY <1>1, <1>2 DEF Jumps, Unlinked, Resolving, Linking

LEMMA NextJumps ==
  ASSUME Inv, Inv', CodePartition, AllYield => Pointers, (AllYield => Pointers)', AllYield => Jumps, [Next]_vars
  PROVE  (AllYield => Jumps)'
<1>1. Disjoint(bbs)
  <2>1. IsSeq(bbs) /\ \A b \in 1..Len(bbs) : bbs[b].code \subseteq Slots
    BY DEF Inv, Typed, WfBlocks, WfBlock
  <2> HIDE DEF CodePartition, Disjoint
  <2> QED
    BY <2>1, PartitionDisjoint
<1> HIDE DEF Disjoint, Inv, Pointers, Jumps
<1>2. prog' = prog
  BY Zenon DEF Next, vars, Scan, ScanData, ScanInvalid, ScanInstr, FinishScan, Resolve, ResolveReturn,
     ResolveUnknown, ResolveLink, ResolveSplit, Split, SplitCrash, Post, FinishPost, Backtrace,
     FinishRegister, RegisterAddr, AddEntry, Halt
<1>3. AllYield' <=> AllYield
  BY <1>2 DEF AllYield, IsInstr, Yields
<1> SUFFICES ASSUME AllYield
             PROVE  Jumps'
  BY <1>3
<1>4. Pointers /\ Pointers' /\ Jumps
  BY <1>3
<1> HIDE DEF AllYield
<1>5. CASE ScanData
  BY <1>4, <1>5, ScanDataJumps
<1>6. CASE ScanInvalid
  BY <1>4, <1>6, ScanInvalidJumps
<1>7. CASE ScanInstr
  BY <1>1, <1>4, <1>7, ScanInstrJumps
<1>8. CASE FinishScan
  BY <1>4, <1>8, SameJumps DEF FinishScan
<1>9. CASE Resolve
  BY <1>4, <1>9, ResolveReturnJumps, ResolveUnknownJumps, LinkedJumps DEF Resolve
<1>10. CASE Split
  BY <1>1, <1>4, <1>10, SplitJumps
<1>11. CASE SplitCrash
  BY <1>4, <1>11, SameJumps DEF SplitCrash
<1>12. CASE Post
  BY <1>4, <1>12, PostJumps
<1>13. CASE FinishPost
  BY <1>4, <1>13, SameJumps DEF FinishPost
<1>14. CASE Backtrace
  BY <1>4, <1>14, SameJumps DEF Backtrace
<1>15. CASE FinishRegister
  BY <1>4, <1>15, SameJumps DEF FinishRegister
<1>16. CASE \E a \in 0..(N + 1) : RegisterAddr(a)
  BY <1>4, <1>16, RegisterJumps
<1>17. CASE AddEntry
  BY <1>4, <1>17, AddEntryJumps
<1>18. CASE UNCHANGED vars
  BY <1>4, <1>18, SameJumps DEF vars
<1> QED
  BY <1>5, <1>6, <1>7, <1>8, <1>9, <1>10, <1>11, <1>12, <1>13, <1>14, <1>15, <1>16, <1>17, <1>18, Zenon
  DEF Next, Scan, Halt

(* The whole invariant: that of every program, and those of the programs   *)
(* that AllYield describes.                                                *)
AllInv == Inv /\ CodePartition /\ (AllYield => Pointers /\ Jumps)

(* It holds at first, and every step keeps it. *)
LEMMA AllInductive ==
  /\ Init => AllInv
  /\ AllInv /\ [Next]_vars => AllInv'
<1>1. ASSUME Init
      PROVE  AllInv
  <2>1. \A b \in BlockIds : bbs[b].code = {}
    BY <1>1 DEF Init, BlockIds, EmptyBlock
  <2>2. \A i \in Slots : ~Lifted(i)
    BY <1>1 DEF Init, Lifted, Slots
  <2>3. CodePartition
    BY <2>1, <2>2 DEF CodePartition
  <2> HIDE DEF CodePartition, Inv, Pointers, Jumps, Init
  <2> QED
    BY <1>1, <2>3, InitInv, InitPointers, InitJumps DEF AllInv
<1>2. ASSUME AllInv, [Next]_vars
      PROVE  AllInv'
  <2> HIDE DEF CodePartition, Inv, Pointers, Jumps, AllYield, Next, vars
  <2>1. Inv /\ CodePartition /\ (AllYield => Pointers) /\ (AllYield => Jumps)
    BY <1>2 DEF AllInv
  <2>2. Inv' /\ CodePartition'
    BY <1>2, <2>1, NextInv
  <2>3. (AllYield => Pointers)'
    BY <1>2, <2>1, NextPointers
  <2>4. (AllYield => Jumps)'
    BY <1>2, <2>1, <2>2, <2>3, NextJumps
  <2> QED
    BY <2>2, <2>3, <2>4 DEF AllInv
<1> QED
  BY <1>1, <1>2

(* For every program whose instructions, in front of another one, all      *)
(* declare a variable: whenever no split is under way, the target of a     *)
(* direct jump starts at the address it jumps to, however often blocks     *)
(* were split after it was set.                                            *)
THEOREM JumpsReachStarts == Spec => [](AllYield => JumpsHitStarts)
<1>1. ASSUME Inv, Jumps
      PROVE  JumpsHitStarts
  <2> SUFFICES ASSUME phase \notin {"split", "crashed"},
                      NEW b \in BlockIds, NEW k \in DOMAIN bbs[b].cfs,
                      Direct(bbs[b].cfs[k]), bbs[b].cfs[k].target # Null, bbs[b].cfs[k].jump # 0
               PROVE  bbs[bbs[b].cfs[k].target].start \in {bbs[b].cfs[k].jump, 0}
    BY DEF JumpsHitStarts
  <2>1. b \in 1..Len(bbs)
    BY <1>1 DEF BlockIds, Inv, Typed, WfBlocks, IsSeq
  <2>2. ~Waiting(b, k)
    <3> SUFFICES ASSUME Waiting(b, k)
                 PROVE  FALSE
      OBVIOUS
    <3>1. phase = "cf" /\ b = cur /\ k >= cfi
      BY DEF Waiting, Lifting
    <3>2. PICK I : I = Issued
      OBVIOUS
    <3>3. /\ DOMAIN bbs[cur].cfs = 1..Len(I) /\ cfi \in 1..Len(I) /\ Len(I) \in Nat
          /\ \A l \in cfi..Len(I) : bbs[cur].cfs[l] = I[l]
          /\ \A l \in 1..Len(I) : I[l].target = Null
      BY <1>1, <3>1, <3>2, CurrentIssued
    <3>4. k \in 1..Len(I) /\ k \in cfi..Len(I)
      BY <3>1, <3>3
    <3> QED
      BY <3>1, <3>3, <3>4
  <2>3. Good(bbs[b].cfs[k], bbs, Places)
    BY <1>1, <2>1, <2>2 DEF Jumps, AllGood
  <2> QED
    BY <2>3 DEF Good
<1>2. AllInv => (AllYield => JumpsHitStarts)
  BY <1>1 DEF AllInv
<1> QED
  BY <1>2, AllInductive, PTL DEF Spec

(* For the same programs: when a block is split, at most one operation of  *)
(* its predecessors is retargeted, it targets that block, and it is the    *)
(* only edge of its block to it; so editing the edges while walking them   *)
(* does no harm.                                                           *)
THEOREM SplitsMoveOne == Spec => [](AllYield => SplitMovesOne)
<1>1. ASSUME AllYield, Inv, CodePartition, Pointers, Jumps
      PROVE  SplitMovesOne
  <2> SUFFICES ASSUME phase = "split"
               PROVE  /\ Cardinality(Movers) <= 1
                      /\ \A m \in Movers : /\ bbs[m[1]].cfs[m[2]].target = req.bb
                                           /\ bbs[req.bb].preds[m[1]] = 1
    BY DEF SplitMovesOne
  <2>1. Disjoint(bbs)
    <3>1. IsSeq(bbs) /\ \A b \in 1..Len(bbs) : bbs[b].code \subseteq Slots
      BY <1>1 DEF Inv, Typed, WfBlocks, WfBlock
    <3> HIDE DEF CodePartition, Disjoint
    <3> QED
      BY <1>1, <3>1, PartitionDisjoint
  <2> HIDE DEF AllYield, Inv, CodePartition, Pointers, Jumps, Disjoint
  <2>2. Movers \subseteq {<<cur, cfi>>} /\ (Movers # {} => Lifting)
    BY <1>1, <2>1, MovesOne
  <2>3. Lifting => bbs[cur].cfs[cfi].target = req.bb /\ bbs[req.bb].preds[cur] = 1
    BY <1>1, <2>1, AskedOperation
  <2> HIDE DEF Movers, Lifting
  <2>4. Cardinality(Movers) <= 1
    <3>1. Movers = {} \/ Movers = {<<cur, cfi>>}
      BY <2>2
    <3>2. Cardinality({<<cur, cfi>>}) = 1
      BY FS_Singleton
    <3>3. Cardinality({}) = 0
      BY FS_EmptySet
    <3> QED
      BY <3>1, <3>2, <3>3
  <2>5. ASSUME NEW m \in Movers
        PROVE  bbs[m[1]].cfs[m[2]].target = req.bb /\ bbs[req.bb].preds[m[1]] = 1
    <3>1. m[1] = cur /\ m[2] = cfi /\ Lifting
      BY <2>2
    <3> QED
      BY <2>3, <3>1
  <2> QED
    BY <2>4, <2>5
<1>2. AllInv => (AllYield => SplitMovesOne)
  BY <1>1 DEF AllInv
<1> QED
  BY <1>2, AllInductive, PTL DEF Spec
=============================================================================

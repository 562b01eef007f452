------------------------------ MODULE LifterCFG ------------------------------
(***************************************************************************)
(* The construction of the control flow graph by the lifter: Lifter::lift, *)
(* Lifter::split_basic_block, Lifter::postprocess, Lifter::process_ijumps. *)
(*                                                                         *)
(* An address is an instruction slot 1..N (every instruction takes one     *)
(* slot of virt_bb_ptrs), N + 1 is any address behind the program and 0 is *)
(* the address the source uses for "unknown".  A block is named by its     *)
(* index in ir->basic_blocks, 1 is the dummy block and 0 is nullptr.       *)
(***************************************************************************)
EXTENDS Integers, Sequences, FiniteSets, BagsExt, Bags, FiniteSetsExt

CONSTANTS
  N,            (* Number of instruction slots of the program.              *)
  Instrs,       (* The instructions the program may consist of.             *)
  Entry,        (* header.e_entry, the slot where the program starts.       *)
  MaxBacktrace  (* Bound: addresses backtracing finds for one indirect jump.*)

Slots   == 1..N
Targets == 1..(N + 1)

Terminators == {"jal", "call", "beq", "bne", "ecall", "ijump", "icall", "table", "ret"}
HasTarget   == {"jal", "call", "beq", "bne", "table"}

(***************************************************************************)
(* What parse_instruction distinguishes.  "op" declares a variable in the  *)
(* block; "quiet" declares none (FENCE, an unknown mnemonic, a csr or      *)
(* float instruction when floats are disabled); "beq" stands for the       *)
(* branches that jump when the condition holds and "bne" for the reversed  *)
(* ones; "call"/"icall" are JAL/JALR that write a link register; "table"   *)
(* is a JALR through a jump table with the one entry t; "data" is no       *)
(* decoded instruction and "invalid" one that decodes to FRV_INVALID.      *)
(***************************************************************************)
Instr == [kind : HasTarget, t : Targets]
         \cup [kind : (Terminators \ HasTarget) \cup {"op", "quiet", "data", "invalid"}, t : {0}]

ASSUME NAssumption     == N \in Nat \ {0}
ASSUME InstrAssumption == Instrs \subseteq Instr
ASSUME EntryAssumption == Entry \in Slots
ASSUME BoundAssumption == MaxBacktrace \in Nat

VARIABLES
  prog,   (* prog->addrs / prog->data: the instruction at each slot.        *)
  phase,  (* What the lifter executes.                                      *)
  pos,    (* The slot lift() scans (its loop variable i).                   *)
  cur,    (* cur_bb.                                                        *)
  cfi,    (* Index of the loop over cur_bb->control_flow_ops.               *)
  req,    (* The pending call of split_basic_block.                         *)
  bbs,    (* ir->basic_blocks.                                              *)
  ptr,    (* ir->virt_bb_ptrs.                                              *)
  needs,  (* needs_bb_start.                                                *)
  entry,  (* ir->entry_block.                                               *)
  todo,   (* postprocess: the control flow operations not yet visited.      *)
  ijumps, (* unprocessed_ijumps, by the address of the instruction.         *)
  found   (* process_ijumps: addresses of one jump still to be registered.  *)

vars == <<prog, phase, pos, cur, cfi, req, bbs, ptr, needs, entry, todo, ijumps, found>>

Null  == 0
Dummy == 1

Phases == {"scan", "cf", "split", "post", "ijumps", "register", "done", "crashed"}

-----------------------------------------------------------------------------
(* Blocks and control flow operations.                                     *)

Cf(type, instr, jump, target) ==
  [type |-> type, instr |-> instr, jump |-> jump, target |-> target, cont |-> Null, addrs |-> {}]

(* `code` holds the slots lifted into the block, `end` is virt_end_addr,   *)
(* preds and succs are the two vectors up to the order of their elements.  *)
EmptyBlock(a) ==
  [start |-> a, end |-> 0, code |-> {}, cfs |-> <<>>,
   preds |-> EmptyBag, succs |-> EmptyBag, flags |-> {}]

IsBlock(b) == b \in DOMAIN bbs

(* get_bb: nullptr outside of virt_bb_ptrs. *)
BlockAt(a) == IF a \in Slots THEN ptr[a] ELSE Null

(* Mutant: the range of a block written one slot too far. *)
SetEndTooFar(p, b, s, e) == [a \in Slots |-> IF s <= a /\ a <= e + 1 THEN b ELSE p[a]]

(* set_virt_end_addr(e) of block b that starts at s. *)
SetEnd(p, b, s, e) == [a \in Slots |-> IF s <= a /\ a <= e THEN b ELSE p[a]]

(* The operations split_basic_block may have to retarget: neither indirect *)
(* nor a return, with a known jump address.                                *)
Direct(cf) == cf.type \in {"jump", "cjump", "call", "syscall"}

Yields(i) == prog[i].kind # "quiet"

(* The control flow operations the handlers of cfc.cpp append at slot i.   *)
CfsOf(ins, i) ==
  CASE ins.kind = "jal"  -> <<Cf("jump", i, ins.t, Null)>>
    [] ins.kind = "call" -> <<Cf("call", i, ins.t, Null)>>
    [] ins.kind = "beq"  -> <<Cf("cjump", i, ins.t, Null), Cf("jump", i, i + 1, Null)>>
    [] ins.kind = "bne"  -> <<Cf("cjump", i, i + 1, Null), Cf("jump", i, ins.t, Null)>>
    [] ins.kind = "ecall" -> <<Cf("syscall", i, i + 1, Null)>>
    [] ins.kind \in {"ijump", "table"} -> <<Cf("ijump", i, 0, Null)>>
    [] ins.kind = "icall" -> <<Cf("icall", i, 0, Null)>>
    [] ins.kind = "ret" -> <<Cf("ret", i, 0, Null)>>
    [] OTHER -> <<>>

(* An edge of both vectors, from block b to block t of the blocks B.       *)
AddEdge(B, b, t) ==
  [[B EXCEPT ![b].succs = BagAdd(@, t)] EXCEPT ![t].preds = BagAdd(@, b)]

(* The edge as postprocess adds it: each vector only if it lacks the entry. *)
AddEdgeIfAbsent(B, b, t) ==
  [[B EXCEPT ![b].succs = IF BagIn(t, @) THEN @ ELSE BagAdd(@, t)]
     EXCEPT ![t].preds = IF BagIn(b, @) THEN @ ELSE BagAdd(@, b)]

-----------------------------------------------------------------------------
(* Lifter::lift: the scan.                                                 *)

Init ==
  /\ prog \in [Slots -> Instrs]
  /\ phase = "scan"
  /\ pos = 1
  /\ cur = Null
  /\ cfi = 1
  /\ req = [bb |-> Null, addr |-> 0, back |-> "cf"]
  /\ bbs = <<EmptyBlock(0)>>
  /\ ptr = [a \in Slots |-> Null]
     \* needs_bb_start[e_entry - virt_bb_start_addr]: the byte offset is the
     \* index, although there is one entry per slot.
  /\ needs = {2 * Entry - 1} \cap Slots
  /\ entry = Null
  /\ todo = {}
  /\ ijumps = {}
  /\ found = {}

(* Append the operation that ends a block in front of undecodable bytes.   *)
Unreachable(B, b, i) == [B EXCEPT ![b].cfs = Append(@, Cf("unreachable", i, 0, Null))]

(* Mutant: a block that runs into the next one gets no jump to it. *)
OpenBlocksNoJump == Append(bbs, EmptyBlock(pos))

(* create_new_bb at the scanned slot; the block before it, if still open,  *)
(* ends at the previous slot and jumps to the new one.                     *)
OpenBlocks ==
  LET n == Len(bbs) + 1
      B == Append(bbs, EmptyBlock(pos))
  IN  IF cur = Null THEN B
      ELSE AddEdge([B EXCEPT ![cur].cfs = Append(@, Cf("jump", pos - 1, pos, n)),
                             ![cur].end = pos - 1], cur, n)

OpenPtr ==
  LET p == [ptr EXCEPT ![pos] = Len(bbs) + 1]
  IN  IF cur = Null THEN p ELSE SetEnd(p, cur, bbs[cur].start, pos - 1)

(* A slot that holds data: the open block ends here.                       *)
ScanData ==
  /\ phase = "scan" /\ pos <= N
  /\ prog[pos].kind = "data"
  /\ bbs' = IF cur = Null THEN bbs ELSE Unreachable(bbs, cur, pos)
  /\ cur' = Null
  /\ pos' = pos + 1
  /\ UNCHANGED <<prog, phase, cfi, req, ptr, needs, entry, todo, ijumps, found>>

(* An instruction that does not decode.  Unlike data it first opens the    *)
(* block some earlier jump asked for.                                      *)
ScanInvalid ==
  /\ phase = "scan" /\ pos <= N
  /\ prog[pos].kind = "invalid"
  /\ IF cur # Null /\ pos \in needs
     THEN /\ bbs' = Unreachable(OpenBlocks, Len(bbs) + 1, pos)
          /\ ptr' = OpenPtr
     ELSE /\ bbs' = IF cur = Null THEN bbs ELSE Unreachable(bbs, cur, pos)
          /\ ptr' = ptr
  /\ cur' = Null
  /\ pos' = pos + 1
  /\ UNCHANGED <<prog, phase, cfi, req, needs, entry, todo, ijumps, found>>

(* An instruction: open a block where one is missing or needed, lift into  *)
(* it, and end the block when the instruction changes the control flow.    *)
ScanInstr ==
  LET ins   == prog[pos]
      opens == cur = Null \/ pos \in needs
      b     == IF opens THEN Len(bbs) + 1 ELSE cur
      B     == IF opens THEN OpenBlocks ELSE bbs
      p     == IF opens THEN OpenPtr ELSE ptr
      lifted == [B EXCEPT ![b].code = @ \cup {pos}, ![b].cfs = CfsOf(ins, pos)]
  IN  /\ phase = "scan" /\ pos <= N
      /\ ins.kind \notin {"data", "invalid"}
      /\ cur' = b
      /\ IF ins.kind \in Terminators
         THEN /\ bbs' = [lifted EXCEPT ![b].end = pos]
              /\ ptr' = SetEnd(p, b, B[b].start, pos)
              /\ phase' = "cf"
              /\ cfi' = 1
              /\ pos' = pos
         ELSE /\ bbs' = lifted
              /\ ptr' = p
              /\ pos' = pos + 1
              /\ UNCHANGED <<phase, cfi>>
      /\ UNCHANGED <<prog, req, needs, entry, todo, ijumps, found>>

-----------------------------------------------------------------------------
(* Lifter::lift: the loop over the control flow operations of the block    *)
(* that has just ended.                                                    *)

CurCf == bbs[cur].cfs[cfi]

(* The block after the loop body: the next operation, or the next slot.    *)
NextCf(b) ==
  IF cfi < Len(bbs[cur].cfs)
  THEN /\ cfi' = cfi + 1
       /\ phase' = "cf"
       /\ cur' = b
       /\ pos' = pos
  ELSE /\ cfi' = 1
       /\ phase' = "scan"
       /\ cur' = Null
       /\ pos' = pos + 1

(* Mutant: a table entry is not compared with the bounds of the program. *)
TableEntriesUnchecked == IF prog[pos].kind = "table" THEN {prog[pos].t} ELSE {}

(* is_jump_table_jump: each entry of the table inside of the program needs *)
(* a block and is stored in jmp_addrs.                                     *)
TableEntries == IF prog[pos].kind = "table" THEN {prog[pos].t} \cap Slots ELSE {}

(* A slot behind a call is where the call continues.                       *)
Continuations == IF CurCf.type \in {"call", "icall"} THEN {pos + 1} \cap Slots ELSE {}

ResolveReturn ==
  /\ phase = "cf"
  /\ CurCf.type = "ret"
  /\ NextCf(cur)
  /\ UNCHANGED <<prog, req, bbs, ptr, needs, entry, todo, ijumps, found>>

(* The target has no block yet, or is unknown: remember where a block is   *)
(* needed.                                                                 *)
ResolveUnknown ==
  /\ phase = "cf"
  /\ CurCf.type # "ret"
  /\ BlockAt(CurCf.jump) = Null
  /\ needs' = needs \cup Continuations \cup TableEntries \cup ({CurCf.jump} \cap Slots)
  /\ bbs' = IF TableEntries = {} THEN bbs
            ELSE [bbs EXCEPT ![cur].cfs[cfi] = [@ EXCEPT !.addrs = TableEntries, !.jump = prog[pos].t]]
  /\ NextCf(cur)
  /\ UNCHANGED <<prog, req, ptr, entry, todo, ijumps, found>>

Linked ==
  LET t == BlockAt(CurCf.jump)
  IN  AddEdge([bbs EXCEPT ![cur].cfs[cfi].target = t], cur, t)

(* The target starts a lifted block: link the two.                         *)
ResolveLink ==
  /\ phase = "cf"
  /\ BlockAt(CurCf.jump) # Null
  /\ bbs[BlockAt(CurCf.jump)].start = CurCf.jump
  /\ needs' = needs \cup Continuations
  /\ bbs' = Linked
  /\ NextCf(cur)
  /\ UNCHANGED <<prog, req, ptr, entry, todo, ijumps, found>>

(* The target lies inside of a lifted block: link the block, then split it. *)
ResolveSplit ==
  /\ phase = "cf"
  /\ BlockAt(CurCf.jump) # Null
  /\ bbs[BlockAt(CurCf.jump)].start # CurCf.jump
  /\ needs' = needs \cup Continuations
  /\ bbs' = Linked
  /\ req' = [bb |-> BlockAt(CurCf.jump), addr |-> CurCf.jump, back |-> "cf"]
  /\ phase' = "split"
  /\ UNCHANGED <<prog, pos, cur, cfi, ptr, entry, todo, ijumps, found>>

-----------------------------------------------------------------------------
(* Lifter::split_basic_block(bb, addr).                                    *)

(* Mutant: the first half reaches up to the split address. *)
FirstEndInclusive == req.addr

(* bb keeps the code below addr and ends where its last variable is        *)
(* declared; the new block gets the rest and the old end.                  *)
FirstEnd == Max({bbs[req.bb].start} \cup {i \in bbs[req.bb].code : i < req.addr /\ Yields(i)})

(* Mutant: the lower bound of the second half is forgotten. *)
IntoSecondUnbounded(cf) == Direct(cf) /\ cf.jump <= bbs[req.bb].end

IntoFirst(cf)  == Direct(cf) /\ bbs[req.bb].start <= cf.jump /\ cf.jump <= FirstEnd
IntoSecond(cf) == Direct(cf) /\ req.addr <= cf.jump /\ cf.jump <= bbs[req.bb].end

(* The operations of the predecessors that jump into the second half.  The *)
(* operations of bb itself have already moved to the new block.            *)
Movers ==
  {m \in UNION {{p} \X DOMAIN bbs[p].cfs : p \in BagToSet(bbs[req.bb].preds) \ {req.bb}} :
     IntoSecond(bbs[m[1]].cfs[m[2]])}

Moved(p) == \E k \in DOMAIN bbs[p].cfs : <<p, k>> \in Movers

(* Mutant: a jump into the second half keeps its target. *)
RetargetForgotten(cf, n) == cf

Retarget(cf, n) ==
  IF cf.type = "call" /\ cf.cont = req.bb THEN [cf EXCEPT !.cont = n] ELSE [cf EXCEPT !.target = n]

(* A predecessor afterwards; it keeps its edge to bb while one of its      *)
(* operations still targets bb.                                            *)
MovedCfs(p, n) ==
  [k \in DOMAIN bbs[p].cfs |->
     IF <<p, k>> \in Movers THEN Retarget(bbs[p].cfs[k], n) ELSE bbs[p].cfs[k]]

StillTargets(cfs) == \E k \in DOMAIN cfs : cfs[k].target = req.bb

(* Mutant: the edge of a retargeted operation is never taken back. *)
LostPredsNone(n) == {}

LostPreds(n) == {p \in BagToSet(bbs[req.bb].preds) : Moved(p) /\ ~StillTargets(MovedCfs(p, n))}

(* The operations of the new block, some of which jump back into one of    *)
(* the two halves.                                                         *)
SelfInto(P(_)) == \E k \in DOMAIN bbs[req.bb].cfs : P(bbs[req.bb].cfs[k])

(* Mutant: a jump of the split block into its own second half is missed. *)
SecondCfsUnchanged(n) == bbs[req.bb].cfs

SecondCfs(n) ==
  [k \in DOMAIN bbs[req.bb].cfs |->
     IF ~IntoFirst(bbs[req.bb].cfs[k]) /\ IntoSecond(bbs[req.bb].cfs[k])
     THEN [bbs[req.bb].cfs[k] EXCEPT !.target = n]
     ELSE bbs[req.bb].cfs[k]]

SelfMoved(n)   == SecondCfs(n) # bbs[req.bb].cfs
SelfLost(n)    == /\ SelfMoved(n)
                  /\ StillTargets(bbs[req.bb].cfs)
                  /\ ~StillTargets(SecondCfs(n))

FirstPreds(n) ==
  LET P == [p \in BagToSet(bbs[req.bb].preds) \ LostPreds(n) |-> bbs[req.bb].preds[p]]
      Q == IF SelfInto(IntoFirst) /\ BagIn(req.bb, P) THEN BagAdd(BagRemove(P, req.bb), n) ELSE P
  IN  IF SelfLost(n) THEN BagRemoveAll(Q, req.bb) ELSE Q

(* Mutant: the code of the second half is copied, not moved. *)
FirstKeepsCode(n) ==
  [bbs[req.bb] EXCEPT !.end   = FirstEnd,
                      !.cfs   = <<Cf("jump", FirstEnd, req.addr, n)>>,
                      !.preds = FirstPreds(n),
                      !.succs = SetToBag({n})]

First(n) ==
  [bbs[req.bb] EXCEPT !.code  = {i \in @ : i < req.addr},
                      !.end   = FirstEnd,
                      !.cfs   = <<Cf("jump", FirstEnd, req.addr, n)>>,
                      !.preds = FirstPreds(n),
                      !.succs = SetToBag({n})]

Second(n) ==
  LET self == IF SelfMoved(n) THEN {n} ELSE {}
      keep == IF SelfLost(n) THEN BagRemoveAll(bbs[req.bb].succs, req.bb) ELSE bbs[req.bb].succs
  IN  [start |-> req.addr,
       end   |-> bbs[req.bb].end,
       code  |-> {i \in bbs[req.bb].code : i >= req.addr},
       cfs   |-> SecondCfs(n),
       preds |-> SetToBag({p \in BagToSet(bbs[req.bb].preds) : Moved(p)} \cup self \cup {req.bb}),
       succs |-> keep (+) SetToBag(self),
       flags |-> {}]

(* Mutant: the targets of the moved operations keep bb as predecessor. *)
HitsNone(t) == 0

(* How often the new block replaces bb in the predecessors of block t: once *)
(* per operation that targets t or continues there after a call.           *)
Hits(t) ==
  LET cfs == bbs[req.bb].cfs
  IN  Cardinality({k \in DOMAIN cfs : cfs[k].target = t})
      + Cardinality({k \in DOMAIN cfs : cfs[k].type \in {"call", "icall"} /\ cfs[k].cont = t})

Other(t, n) ==
  LET preds == IF Hits(t) = 0 THEN bbs[t].preds
               ELSE BagRemoveAll(bbs[t].preds, req.bb) (+) [x \in {n} |-> Hits(t)]
      succs == IF t \in LostPreds(n) THEN BagRemoveAll(bbs[t].succs, req.bb) ELSE bbs[t].succs
  IN  [bbs[t] EXCEPT !.preds = preds,
                     !.succs = IF Moved(t) THEN BagAdd(succs, n) ELSE succs,
                     !.cfs   = MovedCfs(t, n)]

(* The loop over the predecessors reads the continuation of every call it  *)
(* moves, which is not set before postprocess.                             *)
SplitDereferencesNull ==
  \E m \in Movers : LET cf == bbs[m[1]].cfs[m[2]] IN cf.type = "call" /\ cf.cont = Null

SplitCrash ==
  /\ phase = "split"
  /\ SplitDereferencesNull
  /\ phase' = "crashed"
  /\ UNCHANGED <<prog, pos, cur, cfi, req, bbs, ptr, needs, entry, todo, ijumps, found>>

Split ==
  LET n == Len(bbs) + 1
  IN  /\ phase = "split"
      /\ ~SplitDereferencesNull
      /\ bbs' = [t \in 1..n |-> IF t = n THEN Second(n)
                                ELSE IF t = req.bb THEN First(n)
                                ELSE Other(t, n)]
      /\ ptr' = SetEnd(SetEnd([ptr EXCEPT ![req.addr] = n], n, req.addr, bbs[req.bb].end),
                       req.bb, bbs[req.bb].start, FirstEnd)
      /\ IF req.back = "cf"
         THEN NextCf(IF req.bb = cur THEN n ELSE cur)
         ELSE /\ phase' = req.back
              /\ UNCHANGED <<cur, cfi, pos>>
      /\ UNCHANGED <<prog, req, needs, entry, todo, ijumps, found>>

-----------------------------------------------------------------------------
(* Lifter::lift after the scan, and Lifter::postprocess.                   *)

(* entry_block = get_bb(e_entry)->id. *)
FinishScan ==
  /\ phase = "scan" /\ pos > N
  /\ entry' = ptr[Entry]
  /\ phase' = IF ptr[Entry] = Null THEN "crashed" ELSE "post"
  /\ todo' = UNION {{b} \X DOMAIN bbs[b].cfs : b \in DOMAIN bbs}
  /\ UNCHANGED <<prog, pos, cur, cfi, req, bbs, ptr, needs, ijumps, found>>

(* The next operation in the order of the blocks. *)
Least(S) == CHOOSE m \in S : \A o \in S : m[1] < o[1] \/ (m[1] = o[1] /\ m[2] <= o[2])

(* ir->basic_blocks is a vector that doubles its capacity: appending to it *)
(* moves it exactly when its length is a power of two.  postprocess goes   *)
(* on with a reference into the old storage, which still holds the old     *)
(* pointers or does not.                                                   *)
Relocates == \E e \in 0..Len(bbs) : 2 ^ e = Len(bbs)

(* Mutant: the loop does not advance. *)
PostStays(m) ==
  /\ todo' = todo
  /\ phase' = "post"

PostGoOn(m) ==
  /\ todo' = todo \ {m}
  /\ phase' = "post"

PostPass(m, cf) ==
  /\ cf.type \in {"unreachable", "ret"}
  /\ PostGoOn(m)
  /\ UNCHANGED <<bbs, ptr, ijumps>>

(* Mutant: the operation does not store its continuation. *)
WithContUnset(B, m, c) ==
  [AddEdgeIfAbsent(B, m[1], c) EXCEPT ![c].flags = @ \cup {"call_cont_block"}]

(* The part of a call or icall that sets the continuation; the rest of the *)
(* loop body is PostTarget of the blocks and pointers it leaves.           *)
WithCont(B, m, c) ==
  [AddEdgeIfAbsent([B EXCEPT ![m[1]].cfs[m[2]].cont = c], m[1], c)
     EXCEPT ![c].flags = @ \cup {"call_cont_block"}]

(* A block that only traps, for a call with no instruction behind it.      *)
TrapBlock(a) == [EmptyBlock(a) EXCEPT !.end = a, !.cfs = <<Cf("unreachable", 0, 0, Null)>>]

PostTarget(B, p, m, cf) ==
  LET t == IF cf.jump \in Slots THEN p[cf.jump] ELSE Null
  IN  IF cf.type \in {"ijump", "icall"} THEN B
      ELSE IF cf.target # Null
           THEN IF cf.type = "call" THEN [B EXCEPT ![cf.target].flags = @ \cup {"call_target"}] ELSE B
      ELSE IF t # Null
           THEN LET L == AddEdgeIfAbsent([B EXCEPT ![m[1]].cfs[m[2]].target = t], m[1], t)
                IN  IF cf.type = "call" THEN [L EXCEPT ![t].flags = @ \cup {"call_target"}] ELSE L
      ELSE IF cf.type = "syscall"
           THEN LET n == Len(B) + 1
                IN  AddEdge([Append(B, [TrapBlock(0) EXCEPT !.end = 0])
                               EXCEPT ![m[1]].cfs[m[2]].target = n], m[1], n)
      ELSE [B EXCEPT ![m[1]].cfs[m[2]] = [@ EXCEPT !.type = "unreachable", !.cont = Null]]

Collect(cf) == IF cf.type \in {"ijump", "icall"} THEN {cf.instr} ELSE {}

(* A jump, branch, syscall or indirect jump. *)
PostJump(m, cf) ==
  /\ cf.type \in {"jump", "cjump", "syscall", "ijump"}
  /\ bbs' = PostTarget(bbs, ptr, m, cf)
  /\ ijumps' = ijumps \cup Collect(cf)
  /\ UNCHANGED ptr
  /\ PostGoOn(m)

(* A call whose next instruction was lifted into a block. *)
PostCall(m, cf) ==
  /\ cf.type \in {"call", "icall"}
  /\ BlockAt(cf.instr + 1) # Null
  /\ bbs' = PostTarget(WithCont(bbs, m, ptr[cf.instr + 1]), ptr, m, cf)
  /\ ijumps' = ijumps \cup Collect(cf)
  /\ UNCHANGED ptr
  /\ PostGoOn(m)

(* A call with something else behind it: a new block traps there.          *)
PostCallTrap(m, cf) ==
  LET a == cf.instr + 1
      n == Len(bbs) + 1
  IN  /\ cf.type \in {"call", "icall"}
      /\ a \in Slots
      /\ ptr[a] = Null
      /\ ptr' = [ptr EXCEPT ![a] = n]
      /\ bbs' = PostTarget(WithCont(Append(bbs, TrapBlock(a)), m, n), ptr', m, cf)
      /\ ijumps' = ijumps \cup Collect(cf)
      /\ PostGoOn(m)

(* virt_bb_ptrs.at throws for a call in the last slot; a moved block vector *)
(* may be read after it was freed.                                          *)
PostCrash(m, cf) ==
  /\ \/ cf.type \in {"call", "icall"} /\ cf.instr + 1 \notin Slots
     \/ /\ cf.type \in {"call", "icall"} /\ BlockAt(cf.instr + 1) = Null
        /\ Relocates
     \/ /\ cf.type = "syscall" /\ cf.target = Null /\ BlockAt(cf.jump) = Null
        /\ Relocates
  /\ phase' = "crashed"
  /\ UNCHANGED <<bbs, ptr, ijumps, todo>>

Post ==
  /\ phase = "post" /\ todo # {}
  /\ LET m  == Least(todo)
         cf == bbs[m[1]].cfs[m[2]]
     IN  \/ PostPass(m, cf)
         \/ PostJump(m, cf)
         \/ PostCall(m, cf)
         \/ PostCallTrap(m, cf)
         \/ PostCrash(m, cf)
  /\ UNCHANGED <<prog, pos, cur, cfi, req, needs, entry, found>>

FinishPost ==
  /\ phase = "post" /\ todo = {}
  /\ phase' = "ijumps"
  /\ UNCHANGED <<prog, pos, cur, cfi, req, bbs, ptr, needs, entry, todo, ijumps, found>>

-----------------------------------------------------------------------------
(* Lifter::process_ijumps.                                                 *)

(* jmp_addrs of the indirect jump at slot i. *)
TableOf(i) ==
  UNION {UNION {bbs[b].cfs[k].addrs : k \in {k \in DOMAIN bbs[b].cfs : bbs[b].cfs[k].instr = i}} :
           b \in DOMAIN bbs}

(* backtrace_jmp_addrs finds some addresses.  Those of the jump's table    *)
(* count as registered already; with neither, the jump goes to the dummy.  *)
Backtrace ==
  /\ phase = "ijumps" /\ ijumps # {}
  /\ LET i == Min(ijumps)
     IN  /\ \E A \in SUBSET Targets :
              /\ Cardinality(A) <= MaxBacktrace
              /\ found' = IF A \cup TableOf(i) = {} THEN {0} ELSE A \ TableOf(i)
         /\ ijumps' = ijumps \ {i}
  /\ phase' = "register"
  /\ UNCHANGED <<prog, pos, cur, cfi, req, bbs, ptr, needs, entry, todo>>

FinishRegister ==
  /\ phase = "register" /\ found = {}
  /\ phase' = "ijumps"
  /\ UNCHANGED <<prog, pos, cur, cfi, req, bbs, ptr, needs, entry, todo, ijumps, found>>

(* One address: flag the block that contains it and split the block there. *)
(* The flag stays with the first half.                                     *)
RegisterAddr(a) ==
  LET b == IF a = 0 THEN Dummy ELSE BlockAt(a)
  IN  /\ phase = "register" /\ a \in found
      /\ found' = found \ {a}
      /\ bbs' = IF b = Null THEN bbs ELSE [bbs EXCEPT ![b].flags = @ \cup {"needs_trans_bb"}]
      /\ IF b = Null \/ bbs[b].start = a
         THEN UNCHANGED <<phase, req>>
         ELSE /\ req' = [bb |-> b, addr |-> a, back |-> "register"]
              /\ phase' = "split"
      /\ UNCHANGED <<prog, pos, cur, cfi, ptr, needs, entry, todo, ijumps>>

(* The block that sets the stack up and jumps to the entry block.          *)
AddEntry ==
  LET n == Len(bbs) + 1
  IN  /\ phase = "ijumps" /\ ijumps = {}
      /\ bbs' = AddEdge(Append(bbs, [EmptyBlock(0) EXCEPT !.cfs = <<Cf("jump", 0, 0, entry)>>]),
                        n, entry)
      /\ entry' = n
      /\ phase' = "done"
      /\ UNCHANGED <<prog, pos, cur, cfi, req, ptr, needs, todo, ijumps, found>>

(* The lifter has returned or the compiler has died. *)
Halt ==
  /\ phase \in {"done", "crashed"}
  /\ UNCHANGED vars

Scan    == ScanData \/ ScanInvalid \/ ScanInstr \/ FinishScan
Resolve == ResolveReturn \/ ResolveUnknown \/ ResolveLink \/ ResolveSplit

Next ==
  \/ Scan
  \/ Resolve
  \/ Split \/ SplitCrash
  \/ Post \/ FinishPost
  \/ Backtrace \/ FinishRegister
  \/ \E a \in 0..(N + 1) : RegisterAddr(a)
  \/ AddEntry
  \/ Halt

Spec == Init /\ [][Next]_vars

(* The compiler is one sequential process that the system keeps running.   *)
FairSpec == Spec /\ WF_vars(Next)

-----------------------------------------------------------------------------
(* Properties.                                                             *)

CfType == {"jump", "cjump", "call", "icall", "ijump", "ret", "syscall", "unreachable"}
Flags  == {"call_target", "call_cont_block", "needs_trans_bb"}

BlockIds == DOMAIN bbs

CfOK(cf) ==
  /\ cf.type \in CfType
  /\ cf.instr \in 0..N
  /\ cf.jump \in 0..(N + 1)
  /\ cf.target \in BlockIds \cup {Null}
  /\ cf.cont \in BlockIds \cup {Null}
  /\ cf.addrs \subseteq Slots

BlockOK(b) ==
  /\ b.start \in 0..N
  /\ b.end \in 0..N
  /\ b.code \subseteq Slots
  /\ \A k \in DOMAIN b.cfs : CfOK(b.cfs[k])
  /\ DOMAIN b.preds \subseteq BlockIds
  /\ DOMAIN b.succs \subseteq BlockIds
  /\ b.flags \subseteq Flags

(* Every variable stays in its range, and every block a pointer, an edge   *)
(* or an operation names is one that ir->basic_blocks holds.               *)
TypeOK ==
  /\ prog \in [Slots -> Instrs]
  /\ phase \in Phases
  /\ pos \in 1..(N + 1)
  /\ cur \in BlockIds \cup {Null}
  /\ cfi \in Nat \ {0}
  /\ req.bb \in BlockIds \cup {Null} /\ req.addr \in 0..N /\ req.back \in {"cf", "register"}
  /\ \A b \in BlockIds : BlockOK(bbs[b])
  /\ ptr \in [Slots -> BlockIds \cup {Null}]
  /\ needs \subseteq Slots
  /\ entry \in BlockIds \cup {Null}
  /\ todo \subseteq BlockIds \X (Nat \ {0})
  /\ ijumps \subseteq Slots
  /\ found \subseteq 0..(N + 1)

(* lift scans top to bottom: no block covers a slot it has not reached,    *)
(* whatever was split behind it (the assertion of lifter.cpp:95).          *)
NothingAhead ==
  phase \in {"scan", "cf", "split"} /\ req.back = "cf" =>
    \A a \in Slots : a > pos \/ (a = pos /\ phase = "scan") => ptr[a] = Null

IsInstr(a) == a \in Slots /\ prog[a].kind \notin {"data", "invalid"}

(* Every instruction the scan has passed is in exactly one block, and      *)
(* nothing else is in any.                                                 *)
Lifted(i) == IsInstr(i) /\ (i < pos \/ (i = pos /\ phase # "scan"))

CodePartition ==
  \A i \in Slots :
    IF Lifted(i)
    THEN \E b \in BlockIds : {c \in BlockIds : i \in bbs[c].code} = {b}
    ELSE \A b \in BlockIds : i \notin bbs[b].code

(* What IR::verify demands of the two edge vectors of every block          *)
(* (basic_block.cpp:113-191).                                              *)
TargetsOf(b) ==
  {bbs[b].cfs[k].target : k \in DOMAIN bbs[b].cfs} \ {Null}
ConnectedTo(b) ==
  (TargetsOf(b) \cup {bbs[b].cfs[k].cont : k \in DOMAIN bbs[b].cfs}) \ {Null}

Verified ==
  \A b \in BlockIds :
    /\ \A t \in TargetsOf(b) : BagIn(b, bbs[t].preds) /\ BagIn(t, bbs[b].succs)
    /\ \A p \in BagToSet(bbs[b].preds) : b \in ConnectedTo(p)
    /\ \A s \in BagToSet(bbs[b].succs) : s \in ConnectedTo(b)

(* Splitting walks the predecessors while it edits their edge vectors.     *)
(* That is harmless because at most one operation is moved, and it targets *)
(* the block that is split ("this should always turn out to be bb",        *)
(* split_basic_block.cpp:82).                                              *)
SplitMovesOne ==
  phase = "split" =>
    /\ Cardinality(Movers) <= 1
    /\ \A m \in Movers : /\ bbs[m[1]].cfs[m[2]].target = req.bb
                         /\ bbs[req.bb].preds[m[1]] = 1

(* It is only possible to jump to the start of a block: once a direct jump *)
(* has a target, the target starts at the jump's address.  A syscall that  *)
(* continues nowhere goes to a block without an address.                   *)
JumpsHitStarts ==
  phase \notin {"split", "crashed"} =>
    \A b \in BlockIds : \A k \in DOMAIN bbs[b].cfs :
      LET cf == bbs[b].cfs[k]
      IN  Direct(cf) /\ cf.target # Null /\ cf.jump # 0 =>
            bbs[cf.target].start \in {cf.jump, 0}

(* virt_bb_ptrs and the blocks agree: the block get_bb returns for an      *)
(* instruction is the one that holds its code, and every instruction of a  *)
(* block that was given an end is found there.  get_bb is how every later  *)
(* jump finds the block it has to split.                                   *)
PtrCoherent ==
  phase # "crashed" =>
    /\ \A a \in Slots : ptr[a] # Null /\ IsInstr(a) => a \in bbs[ptr[a]].code
    /\ \A b \in BlockIds : bbs[b].end # 0 => \A a \in bbs[b].code : ptr[a] = b

(***************************************************************************)
(* The graph executes like the program.  Address a is reached by operation *)
(* cf of a block when cf targets the block that starts at a; an address    *)
(* that holds no instruction traps instead.                                *)
(***************************************************************************)
Traps(cf) ==
  \/ cf.type = "unreachable"
  \/ /\ cf.target # Null
     /\ bbs[cf.target].code = {}
     /\ bbs[cf.target].cfs # <<>>
     /\ bbs[cf.target].cfs[1].type = "unreachable"

Reaches(cf, a) ==
  IF IsInstr(a) THEN Direct(cf) /\ cf.target # Null /\ bbs[cf.target].start = a /\ a \in bbs[cf.target].code
  ELSE Traps(cf)

(* The operations `cfs` do what instruction ins at slot i does to the pc.  *)
Performs(cfs, ins, i) ==
  CASE ins.kind \in {"jal", "call"} ->
         /\ Len(cfs) = 1 /\ Reaches(cfs[1], ins.t)
         /\ ins.kind = "call" /\ cfs[1].type = "call" /\ IsInstr(i + 1) =>
               cfs[1].cont # Null /\ bbs[cfs[1].cont].start = i + 1
    [] ins.kind = "beq" -> Len(cfs) = 2 /\ Reaches(cfs[1], ins.t) /\ Reaches(cfs[2], i + 1)
    [] ins.kind = "bne" -> Len(cfs) = 2 /\ Reaches(cfs[1], i + 1) /\ Reaches(cfs[2], ins.t)
    [] ins.kind = "ecall" -> Len(cfs) = 1 /\ cfs[1].type = "syscall" /\ Reaches(cfs[1], i + 1)
    [] ins.kind \in {"ijump", "table"} -> Len(cfs) = 1 /\ cfs[1].type = "ijump"
    [] ins.kind = "icall" ->
         /\ Len(cfs) = 1 /\ cfs[1].type = "icall"
         /\ IsInstr(i + 1) => cfs[1].cont # Null /\ bbs[cfs[1].cont].start = i + 1
    [] ins.kind = "ret" -> Len(cfs) = 1 /\ cfs[1].type = "ret"
    [] OTHER -> IF i = N THEN cfs = <<>> ELSE Len(cfs) = 1 /\ Reaches(cfs[1], i + 1)

(* When the lifter is done, every block is the run of instructions from    *)
(* its start to its last one, no instruction in between changes the        *)
(* control flow, and the last one is followed where the program goes on.   *)
FaithfulCFG ==
  phase = "done" =>
    \A b \in BlockIds : bbs[b].code # {} =>
      LET last == Max(bbs[b].code)
      IN  /\ bbs[b].code = bbs[b].start..last
          /\ \A i \in bbs[b].code \ {last} : prog[i].kind \notin Terminators
          /\ Performs(bbs[b].cfs, prog[last], last)

(* Lifting ends: every loop over the program, the blocks, the operations   *)
(* and the addresses found is left again.                                  *)
Terminates == <>(phase \in {"done", "crashed"})
=============================================================================

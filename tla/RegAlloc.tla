------------------------------ MODULE RegAlloc ------------------------------
(***************************************************************************)
(* Register allocation across basic blocks                                 *)
(* (generator/x86_64/reg_alloc_multi.cpp).                                 *)
(*                                                                         *)
(* A block that is only reached from blocks of the translator is compiled  *)
(* in the group of the first of them and finds its inputs in the           *)
(* registers, stack slots and statics where that one had them; every other *)
(* jump to it has to bring them there.  Next to the allocator's            *)
(* bookkeeping the module follows the machine: what the registers, slots   *)
(* and statics hold when the code written so far has been executed.        *)
(*                                                                         *)
(* A value is the variable that has it; widths and memory tokens are left  *)
(* out.  Registers and slots count from 1.                                 *)
(***************************************************************************)
EXTENDS Integers, SequencesExt

CONSTANTS NumRegs,      (* REG_COUNT.                                       *)
          NumFloats,    (* FP_REG_COUNT.                                    *)
          NumStatics,   (* ir->statics.size().                              *)
          MaxSlots,     (* Bound: the slots of a frame.                     *)
          CallRegs,     (* call_reg, where a system call takes arguments.   *)
          Names,        (* The programs                                     *)
          Program(_),   (* and the blocks of each of them.                  *)
          Options       (* The optimisations they may be compiled with.     *)

ASSUME RegistersAssumption ==
  /\ NumRegs \in Nat /\ NumRegs >= 5 /\ NumFloats \in Nat /\ NumFloats >= 3 /\ NumStatics \in Nat \ {0}
  /\ MaxSlots \in Nat \ {0} /\ CallRegs \in Seq(1..NumRegs)

IntRegs   == 1..NumRegs
FloatRegs == NumRegs + 1..NumRegs + NumFloats
Regs      == IntRegs \cup FloatRegs
Slots     == 1..MaxSlots
Statics   == 1..NumStatics
RegA      == 1
RegB      == 2
RegC      == 3
RegD      == 4
RegDI     == 5
Xmm0      == NumRegs + 1

NoVar   == 0
NoReg   == 0
NoBlock == 0
Junk    == -1    (* No value of the block.                                  *)

Direct  == {"jump", "cjump", "syscall", "call"}
Calling == {"call", "icall"}

(* What the lifter hands over: the target of a call and its continuation   *)
(* are marked (lifter.cpp:263 to :309), and as no call ends where a system *)
(* call does, what follows one does not follow the other.                  *)
CfOk(p, o) ==
  /\ o.type \in Direct \cup Calling \cup {"ijump", "return", "unreachable"}
  /\ IF o.type \in Direct THEN o.target \in DOMAIN p ELSE o.target = NoBlock
  /\ IF o.type \in Calling THEN o.cont \in DOMAIN p /\ p[o.cont].callCont ELSE o.cont = NoBlock
  /\ o.type = "call" => p[o.target].callTarget
  /\ o.type = "syscall" => ~p[o.target].callCont

ProgramOk(p) ==
  /\ DOMAIN p \subseteq Nat \ {NoBlock}
  /\ \A b \in DOMAIN p :
       /\ {p[b].callTarget, p[b].callCont, p[b].needsTrans} \subseteq BOOLEAN
       /\ Len(p[b].cfs) \in Nat \ {0} /\ DOMAIN p[b].cfs = 1..Len(p[b].cfs)
       /\ \A k \in DOMAIN p[b].cfs : CfOk(p, p[b].cfs[k])

ASSUME ProgramsAssumption == \A name \in Names : ProgramOk(Program(name))

VARIABLES program,   (* The blocks: their variables and control flow.       *)
          options,   (* "bmi2", "fma3", "sse4", "merge", "no_trans_bbs".    *)
          gen,       (* The input map and the frame of every block.         *)
          compiled,  (* Blocks that were compiled,                          *)
          manual,    (* that were made the first of a group,                *)
          needsTrans,(* and that need a translation block.                  *)
          c,         (* The block that is being compiled: the bookkeeping   *)
                     (* and the machine.                                    *)
          path,      (* The calls of compile_block that have not returned.  *)
          group,     (* assembled_blocks,                                   *)
          left,      (* and what was left when each of them was assembled.  *)
          cf,        (* The control flow operation that is compiled next.   *)
          labels,    (* Labels that were printed,                           *)
          jumps,     (* that were jumped to,                                *)
          arrived    (* and what the last jumps found where the target      *)
                     (* looks for an input, beside what it means to find.   *)

vars == <<program, options, gen, compiled, manual, needsTrans, c, path, group, left, cf, labels, jumps, arrived>>

-----------------------------------------------------------------------------
(* Programs.  A block has the statics of its inputs, its variables, of     *)
(* which the first ones are the inputs, and its control flow operations.   *)
(* An operation has out 2 if it defines its second output, and rm is the   *)
(* variable a conversion takes its rounding mode from.  args pairs the     *)
(* variables that are passed on with statics, target and cont are NoBlock  *)
(* where there is none.  callTarget, callCont and needsTrans are marks of  *)
(* the lifter.                                                             *)

Blocks == DOMAIN program

IsImm(b, v)    == program[b].vars[v].kind = "imm"
IsStatic(b, v) == program[b].vars[v].kind = "static"
IsOp(b, v)     == program[b].vars[v].kind = "op"

(* An immediate that an instruction may contain. *)
Fits(b, v) == IsImm(b, v) /\ program[b].vars[v].fits

(* Floats live in registers of their own. *)
IsFloat(b, v)  == program[b].vars[v].class = "float"
RegsOf(b, v)   == IF IsFloat(b, v) THEN FloatRegs ELSE IntRegs
FirstReg(b, v) == IF IsFloat(b, v) THEN Xmm0 ELSE RegA

Inputs(b) == program[b].inputs
CfTime(b) == Len(program[b].vars) + 1

Arg(v, s) == [var |-> v, static |-> s]

(* The blocks a control flow operation names. *)
Targets(o)     == IF o.type \in Direct THEN <<o.target>> ELSE <<>>
Conts(o)       == IF o.type \in Calling THEN <<o.cont>> ELSE <<>>
Successors(b)  == UNION {Range(Targets(program[b].cfs[k]) \o Conts(program[b].cfs[k])) : k \in DOMAIN program[b].cfs}
Predecessors(b) == {p \in Blocks : b \in Successors(p)}

IsTopLevel(b) == b \in manual \/ program[b].callTarget \/ Predecessors(b) \subseteq {b}

(* Mutant: needs_trans_bb is not asked. *)
IsJumpableForCalls(b) ==
  \/ IsTopLevel(b) \/ program[b].callCont
  \/ \A i \in DOMAIN gen[b].inputs : gen[b].inputs[i].loc = "static"

IsJumpable(b) ==
  \/ IsTopLevel(b) \/ program[b].callCont \/ b \in needsTrans
  \/ \A i \in DOMAIN gen[b].inputs : gen[b].inputs[i].loc = "static"

(* Where a variable or an input is: in a register or static, or in a slot. *)
Place(loc, at) == [loc |-> loc, at |-> at]

FromStatics(b) == [i \in DOMAIN Inputs(b) |-> Place("static", Inputs(b)[i])]

-----------------------------------------------------------------------------
(* init_time_of_use.                                                       *)

EventsOf(b, v) ==
  LET var == program[b].vars[v] IN
  [j \in DOMAIN var.ins |-> <<var.ins[j], v>>] \o (IF var.rm = NoVar THEN <<>> ELSE <<<<var.rm, v>>>>)

CfEvents(b, k) ==
  LET o == program[b].cfs[k] IN
  [j \in DOMAIN o.ins |-> <<o.ins[j], CfTime(b)>>] \o [j \in DOMAIN o.args |-> <<o.args[j].var, CfTime(b) + j>>]

Events(b) ==
  FlattenSeq([v \in DOMAIN program[b].vars |-> EventsOf(b, v)] \o [k \in DOMAIN program[b].cfs |-> CfEvents(b, k)])

UsesOf(events, v) ==
  LET of == SelectSeq(events, LAMBDA e : e[1] = v) IN [k \in DOMAIN of |-> of[k][2]]

LastOf(uses) == IF uses = <<>> THEN 0 ELSE Max(Range(uses))

(* GeneratorInfoX64: at is the register or the static, one field.  A slot  *)
(* that was never set is the first one.                                    *)
VarInfo(place, uses) ==
  [loc   |-> place.loc,
   at    |-> IF place.loc = "stack" THEN 0 ELSE place.at,
   slot  |-> IF place.loc = "stack" THEN place.at ELSE 1,
   saved |-> place.loc = "stack",
   dup   |-> FALSE,
   done  |-> FALSE,     (* already_generated *)
   uses  |-> uses,
   last  |-> LastOf(uses)]

-----------------------------------------------------------------------------
(* The start of a block whose inputs are in the given places.              *)

InputAt(places, place) ==
  IF place \in Range(places) THEN CHOOSE i \in DOMAIN places : places[i] = place ELSE NoVar

Holding(places, place) == IF place \in Range(places) THEN InputAt(places, place) ELSE Junk

StackSize(places) == Max({0} \cup {places[i].at : i \in {j \in DOMAIN places : places[j].loc = "stack"}})

Started(b, places) ==
  LET events == Events(b) IN
  [b        |-> b,
   at       |-> 1,
   regs     |-> [r \in Regs |-> InputAt(places, Place("reg", r))],
   stack    |-> [k \in 1..StackSize(places) |-> Place("stack", k) \in Range(places)],
   var      |-> [v \in DOMAIN program[b].vars |->
                   VarInfo(IF v \in DOMAIN places THEN places[v] ELSE Place("none", 0), UsesOf(events, v))],
   inReg    |-> [r \in Regs |-> Holding(places, Place("reg", r))],
   inSlot   |-> [k \in Slots |-> Holding(places, Place("stack", k))],
   inStatic |-> [s \in Statics |-> Holding(places, Place("static", s))],
   frame    |-> MaxSlots,
   reg      |-> NoReg,
   reads    |-> {},
   holds    |-> TRUE]

(* The assertion a of the code. *)
Asserts(s, a) == [s EXCEPT !.holds = @ /\ a]

(* An instruction reads variable v in register r, *)
Reads(s, r, v) == [s EXCEPT !.reads = @ \cup {<<s.inReg[r], v>>}]

(* and leaves something in r that is no variable. *)
Clobbers(s, r) == [s EXCEPT !.inReg[r] = Junk]

Scratched(s) == Clobbers(s, s.reg)

(* An instruction leaves v in register r, set_var_to_reg. *)
Computes(s, r, v) ==
  [s EXCEPT !.regs[r] = v, !.inReg[r] = v, !.var[v].loc = "reg", !.var[v].at = r]

-----------------------------------------------------------------------------
(* save_reg, clear_reg, alloc_reg and load_val_in_reg, and their twins for *)
(* floats, as functions of the state s; s.reg is the register that the     *)
(* last two return.                                                        *)

FreeSlot(s) ==
  IF \E k \in DOMAIN s.stack : ~s.stack[k] THEN Min({k \in DOMAIN s.stack : ~s.stack[k]}) ELSE Len(s.stack) + 1

(* allocate_stack_slot, and all slots up to k. *)
Taken(s, k) ==
  [s EXCEPT !.stack = [j \in 1..Max({k, Len(@)}) |-> j = k \/ (j \in DOMAIN @ /\ @[j])]]

SaveReg(s, r, immToStack) ==
  LET v == s.regs[r]
      k == FreeSlot(s)
  IN
  IF v = NoVar THEN s
  ELSE IF s.var[v].saved \/ (IsImm(s.b, v) /\ ~immToStack) THEN s
  ELSE [Taken(s, k) EXCEPT !.inSlot[k] = s.inReg[r], !.var[v].saved = TRUE, !.var[v].slot = k]

(* An immediate is calculated again; another variable that was not saved   *)
(* should not be needed any more.                                          *)
ClearReg(s, t, r, immToStack) ==
  LET v == s.regs[r] IN
  IF v = NoVar THEN s
  ELSE LET calculated == IsImm(s.b, v) /\ ~immToStack
           stays      == ~calculated /\ s.var[v].saved
       IN  [Asserts(s, calculated \/ stays \/ s.var[v].last <= t)
              EXCEPT !.regs[r] = NoVar, !.var[v].loc = IF stays THEN "stack" ELSE "none"]

(* The use of v after time t, 0 if v is used now or never again. *)
NextUse(s, v, t) ==
  LET later == SelectSeq(s.var[v].uses, LAMBDA u : u >= t) IN
  IF later = <<>> THEN 0 ELSE IF Head(later) = t THEN 0 ELSE Head(later)

FreeRegs(s, R)      == {r \in R : s.regs[r] = NoVar}
UnusedRegs(s, t, R) == {r \in R : s.regs[r] # NoVar /\ s.var[s.regs[r]].last < t}
LaterRegs(s, t, R)  == {r \in R : s.regs[r] # NoVar /\ NextUse(s, s.regs[r], t) > 0}

(* Of the registers R, the one whose variable is needed last. *)
Farthest(s, t, R) ==
  LET use(r) == NextUse(s, s.regs[r], t)
      far    == {r \in LaterRegs(s, t, R) : \A q \in LaterRegs(s, t, R) : use(q) <= use(r)}
  IN  Min(far)

Allocated(s, r) == [s EXCEPT !.reg = r, !.regs[r] = NoVar]

(* A variable that is needed at t or later is saved. *)
SavedFrom(s, t, r, immToStack) ==
  IF s.regs[r] # NoVar /\ s.var[s.regs[r]].last >= t THEN SaveReg(s, r, immToStack) ELSE s

Evicted(s, t, r, immToStack) == Allocated(ClearReg(SavedFrom(s, t, r, immToStack), t, r, immToStack), r)

(* A free register, one whose variable is not needed any more, or the one  *)
(* whose variable is needed last.                                          *)
Victim(s, t, R) ==
  LET free   == FreeRegs(s, R)
      unused == UnusedRegs(s, t, R)
  IN  IF free # {} THEN Min(free) ELSE IF unused # {} THEN Min(unused) ELSE Farthest(s, t, R)

AllocFrom(s, R, t, evictImms) ==
  IF FreeRegs(s, R) \cup UnusedRegs(s, t, R) \cup LaterRegs(s, t, R) # {} THEN Evicted(s, t, Victim(s, t, R), ~evictImms)
  ELSE Allocated(Asserts(s, FALSE), Min(R))

AllocReg(s, t, evictImms, avoid) == AllocFrom(s, IntRegs \ avoid, t, evictImms)
AllocFor(s, t, v)                == AllocFrom(s, RegsOf(s.b, v), t, TRUE)

(* alloc_reg of only_this_reg: its variable is on the stack, it says, even *)
(* an immediate that was not saved there.                                  *)
AllocThis(s, r, evictImms) ==
  LET v == s.regs[r] IN
  IF v = NoVar THEN Allocated(s, r)
  ELSE Allocated([SaveReg(s, r, ~evictImms) EXCEPT !.var[v].loc = "stack"], r)

Value(s, v) ==
  CASE IsImm(s.b, v)           -> v
    [] ~IsImm(s.b, v) /\ s.var[v].loc = "static" -> s.inStatic[s.var[v].at]
    [] OTHER                   -> s.inSlot[s.var[v].slot]

Loaded(s, v) ==
  [Asserts(s, IsImm(s.b, v) \/ s.var[v].loc # "none")
     EXCEPT !.inReg[s.reg] = Value(s, v), !.regs[s.reg] = v, !.var[v].loc = "reg", !.var[v].at = s.reg]

(* mov from the register of v to r. *)
Moved(s, r, v) ==
  [s EXCEPT !.inReg[r] = s.inReg[s.var[v].at], !.regs = [@ EXCEPT ![s.var[v].at] = NoVar, ![r] = v],
            !.var[v].at = r, !.reg = r]

Brought(s, v) == IF s.var[v].loc = "reg" THEN Moved(s, s.reg, v) ELSE Loaded(s, v)

LoadImms(s, t, v, evictImms, avoid) ==
  IF s.var[v].loc = "reg" /\ s.var[v].at \notin avoid THEN [s EXCEPT !.reg = s.var[v].at]
  ELSE Brought(AllocFrom(s, RegsOf(s.b, v) \ avoid, t, evictImms \/ s.var[v].loc = "reg"), v)

LoadThisImms(s, t, v, evictImms, r) ==
  CASE s.var[v].loc = "reg" /\ s.var[v].at = r -> [s EXCEPT !.reg = r]
    [] s.var[v].loc = "reg" /\ s.var[v].at # r ->
         Moved(ClearReg(SavedFrom(s, t, r, FALSE), t, r, FALSE), r, v)
    [] OTHER -> Loaded(AllocThis(s, r, evictImms), v)

Load(s, t, v)       == LoadImms(s, t, v, TRUE, {})
LoadBut(s, t, v, r) == LoadImms(s, t, v, TRUE, {r})
LoadThis(s, t, v, r) == LoadThisImms(s, t, v, TRUE, r)

(* Mutant: only what is needed again in the block is saved. *)
SavedInBlock(s, t, r) ==
  IF s.regs[r] # NoVar /\ s.var[s.regs[r]].last \in t + 1..Len(s.var) THEN SaveReg(s, r, FALSE) ELSE s

(* The variable of r is saved if it is needed after t, then given up.      *)
SavedIfNeeded(s, t, r) ==
  IF s.regs[r] # NoVar /\ s.var[s.regs[r]].last > t THEN SaveReg(s, r, FALSE) ELSE s

GivenUp(s, t, r) == ClearReg(SavedIfNeeded(s, t, r), t, r, FALSE)

-----------------------------------------------------------------------------
(* compile_vars: what is written for variable v, whose index is the time.  *)

OpOf(s, v)     == program[s.b].vars[v].op
In(s, v, j)    == program[s.b].vars[v].ins[j]
LastUse(s, u)  == s.var[u].last

(* Variables are loaded one after the other; regs is where they are then.  *)
ThenLoaded(x, s) == [s |-> s, regs |-> Append(x.regs, s.reg)]

Operands(s, v, us) ==
  FoldLeft(LAMBDA x, u : ThenLoaded(x, Load(x.s, v, u)), [s |-> s, regs |-> <<>>], us)

ReadsAll(s, regs, us) == FoldLeftDomain(LAMBDA x, j : Reads(x, regs[j], us[j]), s, us)

(* A constant that does not fit is moved to some register. *)
WithConstant(s, t, u) ==
  IF Fits(s.b, u) THEN s ELSE Scratched(AllocReg(s, t, TRUE, {}))

(* The result of v replaces what is in r. *)
Replaces(s, v, r) == Computes(ClearReg(s, v, r, FALSE), r, v)

(* The results of a division and the high half of a product are in rdx,    *)
(* the quotient in rax; the other one is lost.                             *)
Wide == {"ssmul_h", "uumul_h", "div", "udiv"}

WideResult(s, v) ==
  LET quotient == OpOf(s, v) \in {"div", "udiv"} /\ program[s.b].vars[v].out = 1
      lost     == [ClearReg(s, v, RegA, FALSE) EXCEPT !.inReg[RegA] = Junk, !.inReg[RegD] = Junk]
  IN  Computes(lost, IF quotient THEN RegA ELSE RegD, v)

(* The register of a sum with a constant, if its operand in r is needed    *)
(* again: a free one, one whose variable is not needed, or one whose       *)
(* variable is needed later than the operand.                              *)
SumRegister(s, v, r) ==
  LET u       == In(s, v, 1)
      After(w) == LET later == SelectSeq(s.var[w].uses, LAMBDA x : x > v) IN IF later = <<>> THEN 0 ELSE Head(later)
      idle    == {q \in IntRegs : s.regs[q] = NoVar \/ LastUse(s, s.regs[q]) < v}
      later   == {q \in IntRegs : /\ ~s.var[u].saved \/ s.var[s.regs[q]].saved
                              /\ After(s.regs[q]) > After(u)}
  IN
  CASE LastUse(s, u) = v                            -> r
    [] LastUse(s, u) # v /\ idle # {}               -> Min(idle)
    [] LastUse(s, u) # v /\ idle = {} /\ later # {} -> Min(later)
    [] OTHER                                     -> r

(* OPT_MERGE_OP: an instruction that calculates its address loads and      *)
(* extends, or stores, and a shift takes its distance modulo the width, if *)
(* nothing else uses what is left out.  The operations after v that are    *)
(* done with it, by their number.                                          *)
(* Mutant: others may use it, too. *)
UsedAtAll(s, v) == s.var[v].uses # <<>>

UsedOnce(s, v) == Len(s.var[v].uses) = 1

IsFloatOp(s, v) == IsFloat(s.b, v) \/ \E j \in DOMAIN program[s.b].vars[v].ins : IsFloat(s.b, In(s, v, j))

Merged(s, v) ==
  LET Is(k, op)       == v + k \in DOMAIN s.var /\ IsOp(s.b, v + k) /\ ~IsFloatOp(s, v + k) /\ OpOf(s, v + k) = op
      Uses(k, op, j, u) == Is(k, op) /\ In(s, v + k, j) = u
      Masks(n)        == /\ OpOf(s, v) = "and" /\ "bmi2" \in options
                         /\ IsImm(s.b, In(s, v, 2)) /\ program[s.b].vars[In(s, v, 2)].val = n
      add             == OpOf(s, v) = "add"
      one == \/ add /\ (Uses(1, "load", 1, v) \/ Uses(1, "store", 1, v))
             \/ Masks(63) /\ Uses(1, "shl", 2, v) /\ ~IsImm(s.b, In(s, v + 1, 1))
      two == \/ add /\ Uses(1, "load", 1, v) /\ UsedOnce(s, v + 1) /\ Uses(2, "extend", 1, v + 1)
             \/ /\ Is(1, "cast") /\ UsedOnce(s, v + 1)
                /\ \/ add /\ Uses(2, "store", 1, v) /\ Uses(2, "store", 2, v + 1)
                   \/ Masks(31) /\ Uses(2, "shl", 1, v + 1) /\ Uses(2, "shl", 2, v)
  IN
  IF "merge" \notin options \/ IsFloatOp(s, v) \/ ~UsedOnce(s, v) THEN 0
  ELSE IF two THEN 2 ELSE IF one THEN 1 ELSE 0

(* The operand of the merged operations that is loaded for them, if any:   *)
(* what is stored, cast or shifted, or the offset of a load.               *)
MergedOperand(s, v, n) ==
  LET last == OpOf(s, v + n) IN
  CASE n = 1 /\ last = "store"               -> In(s, v + 1, 2)
    [] n = 2 /\ OpOf(s, v + 1) = "cast"      -> In(s, v + 1, 1)
    [] n = 1 /\ last = "shl"                 -> In(s, v + 1, 1)
    [] OpOf(s, v + 1) = "load" /\ IsImm(s.b, In(s, v, 2)) -> In(s, v, 2)
    [] OTHER                                 -> NoVar

(* The operands of v are in the registers pairs tells, r may be replaced.  *)
WithMerged(s, v, n, pairs, r) ==
  LET w     == MergedOperand(s, v, n)
      alone == w = NoVar \/ (w # NoVar /\ Fits(s.b, w) /\ OpOf(s, v + 1) # "cast")
      s1    == IF alone THEN s ELSE Load(s, v, w)
      s2    == FoldSet(LAMBDA q, x : Reads(x, q[1], q[2]), s1, IF alone THEN pairs ELSE pairs \cup {<<s1.reg, w>>})
      s3    == IF OpOf(s, v + n) = "store" THEN s2 ELSE Computes(ClearReg(s2, v, r, FALSE), r, v + n)
  IN  [s3 EXCEPT !.var = [u \in DOMAIN @ |-> IF u \in v + 1..v + n THEN [@[u] EXCEPT !.done = TRUE] ELSE @[u]]]

(* The second operand is a constant and the first one in s.reg; the result *)
(* replaces what is in r.                                                  *)
ConstantInto(s, v, r) ==
  LET a     == In(s, v, 1)
      n     == Merged(s, v)
      saved == SavedIfNeeded(s, v, r)
  IN
  IF n > 0 THEN WithMerged(saved, v, n, {<<s.reg, a>>}, r)
  ELSE Replaces(Reads(IF OpOf(s, v) = "shl" THEN saved ELSE WithConstant(saved, v, In(s, v, 2)), s.reg, a), v, r)

ConstantIn(s, v) == ConstantInto(s, v, IF OpOf(s, v) = "add" THEN SumRegister(s, v, s.reg) ELSE s.reg)

ConstantOp(s, v) == ConstantIn(Load(s, v, In(s, v, 1)), v)

WideConstantOp(s, v) ==
  LET a  == In(s, v, 1)
      b  == In(s, v, 2)
      s1 == SavedIfNeeded(GivenUp(LoadThis(s, v, a, RegA), v, RegD), v, RegA)
      s2 == IF OpOf(s, v) \in {"div", "udiv"} THEN LoadBut(s1, v, b, RegD) ELSE Load(s1, v, b)
  IN  WideResult(Reads(Reads(s2, RegA, a), s2.reg, b), v)

(* The operands us are in regs, the result replaces the one in r. *)
ResultInto(s, v, us, regs, r) ==
  IF Merged(s, v) > 0 THEN WithMerged(SavedIfNeeded(s, v, r), v, Merged(s, v), {<<regs[j], us[j]>> : j \in DOMAIN us}, r)
  ELSE Replaces(ReadsAll(SavedIfNeeded(s, v, r), regs, us), v, r)

ResultIntoOperand(x, v, us, k) == ResultInto(x.s, v, us, x.regs, x.regs[k])

(* The distance of a shift is loaded first, to rcx if need be. *)
TwoOperandOp(s, v) ==
  LET a == In(s, v, 1)
      b == In(s, v, 2)
  IN
  CASE OpOf(s, v) # "shl" -> ResultIntoOperand(Operands(s, v, <<a, b>>), v, <<a, b>>, 1)
    [] OpOf(s, v) = "shl" /\ "bmi2" \in options -> ResultIntoOperand(Operands(s, v, <<b, a>>), v, <<b, a>>, 2)
    [] OpOf(s, v) = "shl" /\ "bmi2" \notin options ->
         ResultIntoOperand(Operands(LoadThis(s, v, b, RegC), v, <<b, a>>), v, <<b, a>>, 2)

(* rdx may still be read by a multiplication when it is given up. *)
WideOp(s, v) ==
  LET a  == In(s, v, 1)
      b  == In(s, v, 2)
      s1 == LoadThis(s, v, a, RegA)
      s2 == IF OpOf(s, v) \in {"div", "udiv"} THEN LoadBut(s1, v, b, RegD) ELSE Load(s1, v, b)
      s3 == GivenUp(s2, v, RegD)
      s4 == IF LastUse(s, a) > v THEN SaveReg(s3, RegA, FALSE) ELSE s3
  IN  WideResult(Reads(Reads(s4, RegA, a), s2.reg, b), v)

UnaryOp(s, v) == LET u == In(s, v, 1) IN ResultIntoOperand(Operands(s, v, <<u>>), v, <<u>>, 1)

StoreOp(s, v) ==
  LET us == IF Fits(s.b, In(s, v, 2)) THEN <<In(s, v, 1)>> ELSE <<In(s, v, 1), In(s, v, 2)>>
      x  == Operands(s, v, us)
  IN  ReadsAll(x.s, x.regs, us)

(* A constant operand of a comparison is part of the instruction. *)
Compares(s, t, r, a, b) ==
  IF Fits(s.b, b) THEN Reads(s, r, a)
  ELSE LET s1 == Load(s, t, b) IN Reads(Reads(s1, r, a), s1.reg, b)

(* The two results are 1 and 0. *)
SetsFlag(s, v) ==
  \A j \in {3, 4} : IsImm(s.b, In(s, v, j)) /\ program[s.b].vars[In(s, v, j)].val = 4 - j

(* The first operand is in r. *)
Selected(x, v, r) ==
  ReadsAll(Compares(x.s, v, r, In(x.s, v, 1), In(x.s, v, 2)), x.regs, <<In(x.s, v, 3), In(x.s, v, 4)>>)

ComparedIn(s, v, r) ==
  IF SetsFlag(s, v) THEN Compares(s, v, r, In(s, v, 1), In(s, v, 2))
  ELSE Selected(Operands(s, v, <<In(s, v, 3), In(s, v, 4)>>), v, r)

CompareOp(s, v) ==
  LET s1 == Load(s, v, In(s, v, 1)) IN
  Replaces(ComparedIn(SavedIfNeeded(s1, v, s1.reg), v, s1.reg), v, s1.reg)

(* setup_stack and the cast of a constant. *)
NewValue(s, v) == LET s1 == AllocReg(s, v, TRUE, {}) IN Computes(s1, s1.reg, v)

Binary == {"add", "sub", "and", "shl"} \cup Wide

CompiledInt(s, v) ==
  LET op   == OpOf(s, v)
      imm2 == op \in Binary /\ IsImm(s.b, In(s, v, 2))
  IN
  CASE imm2 /\ op \in Wide             -> WideConstantOp(s, v)
    [] imm2 /\ op \notin Wide          -> ConstantOp(s, v)
    [] ~imm2 /\ op \in Wide            -> WideOp(s, v)
    [] ~imm2 /\ op \in Binary \ Wide   -> TwoOperandOp(s, v)
    [] op = "store"                    -> StoreOp(s, v)
    [] op = "slt"                      -> CompareOp(s, v)
    [] op = "setup_stack"              -> NewValue(s, v)
    [] op \in {"cast", "extend"} /\ IsImm(s.b, In(s, v, 1)) -> NewValue(s, v)
    [] OTHER                           -> UnaryOp(s, v)    (* load, not, cast, extend *)

-----------------------------------------------------------------------------
(* compile_fp_op.                                                          *)

(* compile_rounding_mode: a fixed mode is set by way of register help, a   *)
(* variable one by a helper that takes it in rdi.                          *)
Rounding(s, v, help) ==
  LET rm == program[s.b].vars[v].rm
      s1 == LoadThis(s, v, rm, RegDI)
  IN  IF rm = NoVar THEN Clobbers(s, help) ELSE Clobbers(GivenUp(Reads(s1, RegDI, rm), v, RegDI), RegDI)

RoundingByHelp(s, v) == LET s1 == AllocReg(s, v, TRUE, {}) IN Rounding(s1, v, s1.reg)

(* Without "fma3" the product replaces the first factor, negated by way of *)
(* another register.                                                       *)
FusedIn(s, v, regs) ==
  LET factors == Reads(Reads(SavedIfNeeded(s, v, regs[1]), regs[1], In(s, v, 1)), regs[2], In(s, v, 2))
      product == Clobbers(factors, regs[1])
      s1      == CASE "fma3" \in options                          -> factors
                   [] "fma3" \notin options /\ OpOf(s, v) = "fma" -> product
                   [] "fma3" \notin options /\ OpOf(s, v) # "fma" -> Scratched(AllocReg(product, v, TRUE, {}))
  IN  Replaces(Reads(s1, regs[3], In(s, v, 3)), v, regs[1])

Fused(s, v) == LET x == Operands(s, v, program[s.b].vars[v].ins) IN FusedIn(x.s, v, x.regs)

(* The result replaces the first of two constants. *)
FloatCompare(s, v) ==
  LET us == program[s.b].vars[v].ins
      x  == Operands(s, v, us)
  IN  Replaces(ReadsAll(SavedIfNeeded(x.s, v, x.regs[3]), x.regs, us), v, x.regs[3])

(* A square root, a load or a cast to the other kind of registers. *)
ToNewRegister(s, v) ==
  LET s1 == Load(s, v, In(s, v, 1))
      s2 == AllocFor(IF OpOf(s, v) = "load" THEN SavedIfNeeded(s1, v, s1.reg) ELSE s1, v, v)
  IN  Computes(Reads(s2, s1.reg, In(s, v, 1)), s2.reg, v)

(* With "sse4" a float is rounded to another register before it is         *)
(* converted to an integer.                                                *)
ConvertFloat(s, v) ==
  LET s1 == Load(s, v, In(s, v, 1))
      s2 == AllocFor(s1, v, v)
      s3 == CASE IsFloat(s.b, v)  -> RoundingByHelp(s2, v)
              [] ~IsFloat(s.b, v) /\ program[s.b].vars[v].rm = NoVar /\ "sse4" \in options ->
                   AllocFrom(s2, FloatRegs, v, TRUE)
              [] OTHER            -> Rounding(s2, v, s2.reg)
  IN  Computes(Reads(s3, s1.reg, In(s, v, 1)), s2.reg, v)

ConvertInt(s, v) ==
  LET s1 == Load(RoundingByHelp(s, v), v, In(s, v, 1))
      s2 == AllocFor(s1, v, v)
  IN  Computes(Reads(s2, s1.reg, In(s, v, 1)), s2.reg, v)

(* An unsigned integer is halved in its register if it is large. *)
UnsignedIn(s, v) ==
  LET s1 == AllocFor(s, v, v)
      s2 == AllocReg(s1, v, TRUE, {s.reg})
  IN
  IF IsFloat(s.b, v) THEN Computes(Clobbers(Scratched(Reads(s2, s.reg, In(s, v, 1))), s.reg), s1.reg, v)
  ELSE Computes(Reads(s1, s.reg, In(s, v, 1)), s1.reg, v)

ConvertUnsigned(s, v) == UnsignedIn(Load(RoundingByHelp(s, v), v, In(s, v, 1)), v)

CompiledFloat(s, v) ==
  LET op    == OpOf(s, v)
      moves == IsFloat(s.b, v) # IsFloat(s.b, In(s, v, 1))
  IN
  CASE op \in {"add", "sub"}                     -> TwoOperandOp(s, v)
    [] op \in {"fma", "fnma"}                    -> Fused(s, v)
    [] op = "slt"                                -> FloatCompare(s, v)
    [] op = "store"                              -> StoreOp(s, v)
    [] op \in {"sqrt", "load"}                   -> ToNewRegister(s, v)
    [] op = "cast" /\ moves                      -> ToNewRegister(s, v)
    [] op = "cast" /\ ~moves                     -> UnaryOp(s, v)
    [] op = "convert" /\ IsFloat(s.b, In(s, v, 1))  -> ConvertFloat(s, v)
    [] op = "convert" /\ ~IsFloat(s.b, In(s, v, 1)) -> ConvertInt(s, v)
    [] op = "uconvert"                           -> ConvertUnsigned(s, v)

Compiled(s, v) ==
  IF ~IsOp(s.b, v) \/ s.var[v].done THEN s
  ELSE IF IsFloatOp(s, v) THEN CompiledFloat(s, v) ELSE CompiledInt(s, v)

-----------------------------------------------------------------------------
(* set_bb_inputs: where target finds its inputs, if the code of the block  *)
(* in s is the first to pass them.  a is [s, places, input], input the     *)
(* variables that are passed in rax and xmm0.                              *)

(* Immediates that are in no register. *)
ImmLoaded(s, arg) ==
  IF s.var[arg.var].loc # "none" THEN s
  ELSE LoadImms(Asserts(s, IsImm(s.b, arg.var)), CfTime(s.b), arg.var, FALSE, {})

(* A static that is passed on as another one, which is no float. *)
StaticLoaded(s, arg) ==
  LET v == arg.var
      t == [s EXCEPT !.var[v].dup = FALSE]
  IN
  IF s.var[v].loc = "static" /\ s.var[v].at # arg.static
  THEN LoadImms(Asserts(t, ~IsFloat(s.b, v)), CfTime(s.b), v, FALSE, {})
  ELSE t

(* The register a variable is copied from to its second place.  If there   *)
(* is one that is not used, the variable is not loaded there.              *)
CopiedFrom(s, t, v, passed) ==
  LET unused == FreeRegs(s, RegsOf(s.b, v)) \cup UnusedRegs(s, t, RegsOf(s.b, v))
      first  == FirstReg(s.b, v)
      s1     == IF passed THEN ClearReg(SaveReg(s, first, FALSE), t, first, FALSE) ELSE s
  IN
  CASE s.var[v].loc = "reg"                     -> [s EXCEPT !.reg = s.var[v].at]
    [] s.var[v].loc # "reg" /\ unused # {}      -> [s EXCEPT !.reg = Min(unused)]
    [] s.var[v].loc # "reg" /\ unused = {}      -> LoadThisImms(s1, t, v, FALSE, first)

PassedTwice(a, v) ==
  LET k     == FreeSlot(a.s)
      inReg == a.s.var[v].loc = "reg"
      s1    == CopiedFrom(Taken(a.s, k), CfTime(a.s.b), v, a.input[FirstReg(a.s.b, v)] # NoVar)
      s2    == [s1 EXCEPT !.inSlot[k] = s1.inReg[s1.reg]]
  IN
  [a EXCEPT !.places = Append(@, Place("stack", k)),
            !.s = IF inReg \/ s2.var[v].saved \/ IsFloat(s2.b, v) THEN s2
                  ELSE [s2 EXCEPT !.var[v].saved = TRUE, !.var[v].slot = k]]

PassedOnce(a, v) ==
  LET place == Place(a.s.var[v].loc, IF a.s.var[v].loc = "stack" THEN a.s.var[v].slot ELSE a.s.var[v].at) IN
  [s      |-> [Asserts(a.s, place.loc # "none") EXCEPT !.var[v].dup = TRUE],
   places |-> Append(a.places, place),
   input  |-> [r \in {RegA, Xmm0} |-> IF place = Place("reg", r) THEN v ELSE a.input[r]]]

Passed(a, arg) == IF a.s.var[arg.var].dup THEN PassedTwice(a, arg.var) ELSE PassedOnce(a, arg.var)

(* rax or xmm0 gets its variable v back. *)
Restored(s, t, v, r) ==
  IF v = NoVar THEN s
  ELSE IF s.var[v].loc = "reg" THEN s
  ELSE LET u == s.regs[r] IN LoadThis(ClearReg(Asserts(s, s.var[u].saved \/ IsImm(s.b, u)), t, r, FALSE), t, v, r)

InputsSet(s, target, args) ==
  LET loaded == FoldLeft(ImmLoaded, s, args)
      a      == FoldLeft(Passed, [s |-> FoldLeft(StaticLoaded, loaded, args), places |-> <<>>,
                                  input |-> [r \in {RegA, Xmm0} |-> NoVar]], args)
      Back(x, r) == Restored(x, CfTime(s.b), a.input[r], r)
  IN
  IF IsTopLevel(target) THEN [s |-> loaded, places |-> FromStatics(target)]
  ELSE [s |-> Back(Back(a.s, RegA), Xmm0), places |-> a.places]

(* prepare_cf_ops, of one operation; p is [s, gen].                        *)
SetUp(p, b, places) == IF p.gen[b].setUp THEN p ELSE [p EXCEPT !.gen[b].inputs = places, !.gen[b].setUp = TRUE]

SetUpAs(p, b, x) == SetUp([p EXCEPT !.s = x.s], b, x.places)

Prepared(p, o) ==
  CASE Targets(o) = <<>> \/ (Targets(o) # <<>> /\ p.gen[o.target].setUp) -> p
    [] Targets(o) # <<>> /\ ~p.gen[o.target].setUp /\ (program[o.target].callCont \/ o.type = "syscall") ->
         SetUp(p, o.target, FromStatics(o.target))
    [] Targets(o) # <<>> /\ ~p.gen[o.target].setUp /\ ~program[o.target].callCont /\ o.type = "call" ->
         SetUp(SetUp(p, o.target, FromStatics(o.target)), o.cont, FromStatics(o.cont))
    [] OTHER -> SetUpAs(p, o.target, InputsSet(p.s, o.target, o.args))

-----------------------------------------------------------------------------
(* write_static_mapping and write_target_inputs.                           *)

(* A static that the block found there and nobody has written since. *)
IsThere(s, arg) ==
  /\ arg.var \in DOMAIN gen[s.b].inputs
  /\ gen[s.b].inputs[arg.var] = Place("static", arg.static)

ToStatic(s, r, static) == [s EXCEPT !.inStatic[static] = s.inReg[r]]

StaticMapping(s, args) ==
  LET t             == CfTime(s.b)
      InReg(x, arg) == x.var[arg.var].loc = "static" /\ x.var[arg.var].at # arg.static
      Fetch(x, arg) == IF InReg(x, arg) THEN Load(x, t, arg.var) ELSE x
      s1            == FoldLeft(Fetch, s, args)
      InRegister(arg) == s1.var[arg.var].loc = "reg"
      Write(x, arg) == IF InRegister(arg) /\ ~IsThere(s, arg) THEN ToStatic(x, s1.var[arg.var].at, arg.static) ELSE x
      Rest(x, arg)  == IF (InRegister(arg) /\ ~IsFloat(s.b, arg.var)) \/ IsThere(s, arg) THEN x
                       ELSE LET l == Load(x, t, arg.var) IN ToStatic(l, l.reg, arg.static)
  IN  FoldLeft(Rest, FoldLeft(Write, s1, args), args)

(* Mutant: registers first. *)
WriteRegsFirst(places) ==
  LET of(loc, R) == SelectSeq([i \in DOMAIN places |-> i], LAMBDA i : places[i].loc = loc /\ places[i].at \in R)
  IN  of("reg", IntRegs) \o of("reg", FloatRegs) \o of("static", Statics) \o of("stack", Slots)

(* The inputs are written in this order, each at a time of its own.        *)
WriteOrder(places) ==
  LET of(loc, R) == SelectSeq([i \in DOMAIN places |-> i], LAMBDA i : places[i].loc = loc /\ places[i].at \in R)
  IN  of("static", Statics) \o of("stack", Slots) \o of("reg", IntRegs) \o of("reg", FloatRegs)

WithUses(s, args, order) ==
  LET times(v) == SelectSeq([n \in DOMAIN order |-> n], LAMBDA n : args[order[n]].var = v)
      uses(v)  == [k \in DOMAIN times(v) |-> CfTime(s.b) + times(v)[k]]
  IN
  [s EXCEPT !.var = [v \in DOMAIN @ |->
     IF \E i \in DOMAIN args : args[i].var = v THEN [@[v] EXCEPT !.uses = uses(v), !.last = LastOf(uses(v))]
     ELSE @[v]]]

(* Mutant: the place of an input is never another one's. *)
NoConflict(s, args, places, i) == FALSE

(* Another input goes where the variable is. *)
StaticConflict(s, args, places, i) ==
  LET v == s.var[args[i].var] IN
  v.loc = "static" /\ \E j \in DOMAIN places \ {i} : places[j] = Place("static", v.at)

StackConflict(s, args, places, i) ==
  LET v == s.var[args[i].var] IN
  v.saved /\ \E j \in DOMAIN places \ {i} : places[j] = Place("stack", v.slot)

StaticKept(s, v) == Load(s, CfTime(s.b), v)
SlotKept(s, v)   == LET l == Load(s, CfTime(s.b), v) IN SaveReg([l EXCEPT !.var[v].saved = FALSE], l.reg, FALSE)

WriteStatic(s, t, arg) ==
  LET v == s.var[arg.var]
      l == Load(s, t, arg.var)
  IN  IF (v.loc = "static" /\ v.at = arg.static) \/ IsThere(s, arg) THEN s ELSE ToStatic(l, l.reg, arg.static)

WriteStack(s, t, v, k) ==
  LET l == Load(s, t, v) IN
  IF s.var[v].saved /\ s.var[v].slot = k THEN s ELSE [l EXCEPT !.inSlot[k] = l.inReg[l.reg]]

(* A copy of a register is not noted as the place of the variable. *)
WriteReg(s, t, v, r) ==
  CASE s.var[v].loc = "reg" /\ s.var[v].at = r -> s
    [] s.var[v].loc = "reg" /\ s.var[v].at # r ->
         LET g == GivenUp(s, t, r) IN [g EXCEPT !.inReg[r] = g.inReg[s.var[v].at], !.regs[r] = v]
    [] OTHER -> LoadThis(s, t, v, r)

TargetInputs(s, args, places) ==
  LET order         == WriteOrder(places)
      Take(x, i)    == IF places[i].loc = "stack" THEN Taken(x, places[i].at) ELSE x
      Statics1(x, i) == IF StaticConflict(x, args, places, i) THEN StaticKept(x, args[i].var) ELSE x
      Stack1(x, i)  == IF StackConflict(x, args, places, i) THEN SlotKept(x, args[i].var) ELSE x
      Write(x, n)   == LET i == order[n]
                           t == CfTime(s.b) + n
                       IN  CASE places[i].loc = "static" -> WriteStatic(x, t, args[i])
                             [] places[i].loc = "stack"  -> WriteStack(x, t, args[i].var, places[i].at)
                             [] places[i].loc = "reg"    -> WriteReg(x, t, args[i].var, places[i].at)
      s1            == WithUses(FoldLeftDomain(Take, s, places), args, order)
      s2            == FoldLeftDomain(Stack1, FoldLeftDomain(Statics1, s1, places), places)
  IN  FoldLeftDomain(Write, s2, order)

-----------------------------------------------------------------------------
(* compile_cf_ops: o is an operation of the block in s, whose group has    *)
(* frame slots.  What is jumped to, and what it finds there.               *)

Label(kind, b) == <<kind, b>>      (* "b": bN, "reg_alloc": bN_reg_alloc.  *)

At(s, place) ==
  CASE place.loc = "reg"    -> s.inReg[place.at]
    [] place.loc = "stack"  -> s.inSlot[place.at]
    [] place.loc = "static" -> s.inStatic[place.at]

(* The inputs of b, found in the given places, are args. *)
Finds(s, places, args) == {<<At(s, places[i]), args[i].var>> : i \in DOMAIN places}
FindsStatics(s, args)  == {<<s.inStatic[args[i].static], args[i].var>> : i \in DOMAIN args}

InGroup(b) == b \in Range(group)

Outcome(s, jumpsTo, found) == [s |-> s, jumps |-> jumpsTo, found |-> found, needsTrans |-> {}]

Shifted(places, delta) ==
  [i \in DOMAIN places |-> IF places[i].loc = "stack" THEN [places[i] EXCEPT !.at = @ + delta] ELSE places[i]]

(* Mutant: the variables keep their slots. *)
GrownBelow(s, delta) ==
  [s EXCEPT !.stack = [k \in 1..delta |-> FALSE] \o @,
            !.inSlot = [k \in Slots |-> IF k <= delta THEN Junk ELSE s.inSlot[k - delta]],
            !.frame = @ + delta]

(* sub rsp, delta: the slots move. *)
Grown(s, delta) ==
  [s EXCEPT !.stack = [k \in 1..delta |-> FALSE] \o @,
            !.var = [v \in DOMAIN @ |-> IF @[v].saved THEN [@[v] EXCEPT !.slot = @ + delta] ELSE @[v]],
            !.inSlot = [k \in Slots |-> IF k <= delta THEN Junk ELSE s.inSlot[k - delta]],
            !.frame = @ + delta]

(* add rsp, delta. *)
Shrunk(s, delta) ==
  [s EXCEPT !.inSlot = [k \in Slots |-> IF k + delta <= MaxSlots THEN s.inSlot[k + delta] ELSE Junk],
            !.stack = SubSeq(@, delta + 1, Len(@)), !.frame = @ - delta]

(* The machine s enters T, whose inputs are args. *)
Entered(s, T, args) ==
  IF IsTopLevel(T) THEN Outcome(s, {Label("b", T)}, FindsStatics(s, args))
  ELSE Outcome(s, {Label("reg_alloc", T)}, Finds(s, gen[T].inputs, args) \cup {<<s.frame, gen[T].frame>>})

JumpCompiled(s, o) ==
  LET inside == InGroup(o.target) \/ IsTopLevel(o.target)
      delta  == IF inside THEN 0 ELSE gen[o.target].frame - s.frame
      s1     == IF delta > 0 THEN Grown(s, delta) ELSE s
      s2     == TargetInputs(s1, o.args, Shifted(gen[o.target].inputs, IF delta < 0 THEN -delta ELSE 0))
  IN  Entered(IF delta < 0 THEN Shrunk(s2, -delta) ELSE s2, o.target, o.args)

(* A block of a later group is entered through its translation block. *)
JumpOutOfGroup(s, o) ==
  LET s1 == StaticMapping(s, o.args) IN
  [Outcome(s1, {Label("b", o.target)}, FindsStatics(s1, o.args)) EXCEPT !.needsTrans = {o.target}]

Jump(s, o) ==
  IF ~InGroup(o.target) /\ ~IsTopLevel(o.target) /\ o.target \notin compiled THEN JumpOutOfGroup(s, o)
  ELSE JumpCompiled(s, o)

(* The comparison of a conditional jump. *)
Compared(s, o) ==
  LET s1 == Load(s, CfTime(s.b), o.ins[1]) IN Compares(s1, CfTime(s.b), s1.reg, o.ins[1], o.ins[2])

(* The destination is loaded after the statics were written. *)
IJump(s, o) ==
  LET s1 == StaticMapping(s, o.args)
      s2 == LoadThis(s1, CfTime(s.b) + 1 + Len(o.args), o.ins[1], RegB)
  IN  Outcome(Reads(s2, RegB, o.ins[1]), {}, FindsStatics(s2, o.args))

Return(s, o) ==
  LET s1 == StaticMapping(s, o.args)
      s2 == Load(s1, CfTime(s.b) + Len(o.args), o.ins[1])
  IN  Outcome(Reads(s2, s2.reg, o.ins[1]), {}, FindsStatics(s2, o.args))

(* An argument of a system call; the last one is passed in rax. *)
ArgLoaded(s, t, v, r) == LoadThis(SavedFrom(s, t, r, FALSE), t, v, r)

ArgReg(j) == IF j \in DOMAIN CallRegs THEN CallRegs[j] ELSE RegA

(* Where b is entered when its inputs are in the statics and nothing is    *)
(* known of the registers and the slots of the frame.                      *)
EntryFromStatics(b, label) ==
  IF label = "b" THEN {}
  ELSE LET m == Started(b, FromStatics(b)) IN {<<At(m, gen[b].inputs[i]), i>> : i \in DOMAIN Inputs(b)}

Syscall(s, o) ==
  LET t     == CfTime(s.b)
      T     == o.target
      label == IF IsTopLevel(T) THEN "b" ELSE "reg_alloc"
      s1    == FoldLeftDomain(LAMBDA x, j : ArgLoaded(x, t, o.ins[j], ArgReg(j)), StaticMapping(s, o.args), o.ins)
      s2    == FoldLeftDomain(LAMBDA x, j : Reads(x, ArgReg(j), o.ins[j]), s1, o.ins)
  IN
  Outcome(s2, {Label(label, T)},
          FindsStatics(s2, o.args) \cup EntryFromStatics(T, label)
            \cup (IF label = "b" THEN {} ELSE {<<s2.frame, gen[T].frame>>}))

(* The callee leaves the inputs of the continuation in the statics. *)
Continues(b) ==
  LET label == IF IsTopLevel(b) \/ ~InGroup(b) THEN "b" ELSE "reg_alloc" IN
  [jumps |-> {Label(label, b)}, found |-> EntryFromStatics(b, label)]

Call(s, o) ==
  LET s1 == StaticMapping(s, o.args) IN
  Outcome(s1, Continues(o.cont).jumps \cup {Label("b", o.target)}, FindsStatics(s1, o.args) \cup Continues(o.cont).found)

ICall(s, o) ==
  LET t  == CfTime(s.b) + 1 + Len(o.args)
      s1 == LoadThis(StaticMapping(s, o.args), t, o.ins[1], RegB)
      s2 == AllocReg(s1, t, TRUE, {RegB})
      s3 == Clobbers(s2, s2.reg)
  IN  Outcome(Reads(s3, RegB, o.ins[1]), Continues(o.cont).jumps, FindsStatics(s3, o.args) \cup Continues(o.cont).found)

CfCompiled(s, o) ==
  CASE o.type \in {"jump", "cjump"} -> Jump(s, o)
    [] o.type = "ijump"   -> IJump(s, o)
    [] o.type = "return"  -> Return(s, o)
    [] o.type = "syscall" -> Syscall(s, o)
    [] o.type = "call"    -> Call(s, o)
    [] o.type = "icall"   -> ICall(s, o)
    [] o.type = "unreachable" -> Outcome(s, {}, {})

-----------------------------------------------------------------------------
(* generate_translation_block: the inputs are brought from the statics to  *)
(* their places, what goes to rax last.                                    *)
FromStatic(m, b, i, place) ==
  LET value == m.inStatic[Inputs(b)[i]] IN
  CASE place = Place("reg", RegA)                       -> m
    [] place.loc = "reg" /\ place.at # RegA             -> [m EXCEPT !.inReg[place.at] = value]
    [] place.loc = "stack"                              -> [m EXCEPT !.inReg[RegA] = value, !.inSlot[place.at] = value]
    [] place.loc = "static" /\ place.at = Inputs(b)[i]  -> m
    [] place.loc = "static" /\ place.at # Inputs(b)[i]  -> [m EXCEPT !.inReg[RegA] = value, !.inStatic[place.at] = value]

Translated(b, places) ==
  LET m    == FoldLeftDomain(LAMBDA x, i : FromStatic(x, b, i, places[i]), Started(b, FromStatics(b)), places)
      last == InputAt(places, Place("reg", RegA))
      m1   == IF last = NoVar THEN m ELSE [m EXCEPT !.inReg[RegA] = m.inStatic[Inputs(b)[last]]]
  IN  {<<At(m1, places[i]), i>> : i \in DOMAIN places}

HasTranslation(b) == "no_trans_bbs" \notin options \/ IsJumpable(b)

-----------------------------------------------------------------------------
(* compile_blocks: blocks that are only entered through statics first, the *)
(* circles that are left then.                                             *)

Pending == Blocks \ compiled
Idle    == path = <<>> /\ group = <<>>

First == IF \E b \in Pending : IsTopLevel(b) THEN Min({b \in Pending : IsTopLevel(b)}) ELSE Min(Pending)

(* compile_block visits the targets and the continuations of calls: item   *)
(* 2 * k - 1 is the target of operation k, item 2 * k its continuation.    *)
Items(b) == 1..2 * Len(program[b].cfs)

Item(b, j) ==
  LET o == program[b].cfs[(j + 1) \div 2] IN [b |-> IF j % 2 = 1 THEN o.target ELSE o.cont, cont |-> j % 2 = 0]

Visit(item) ==
  /\ item.b \notin compiled \cup {NoBlock} /\ ~IsTopLevel(item.b)
  /\ item.cont \/ ~program[item.b].callCont

(* A call of compile_block for b; next is the item it looks at next.       *)
Entry(b) == [b |-> b, assembled |-> FALSE, next |-> 1]

Top       == path[Len(path)]
Compiling == path # <<>> /\ ~Top.assembled
Following == path # <<>> /\ Top.assembled

StartGroup ==
  /\ Idle /\ Pending # {}
  /\ manual' = manual \cup (IF IsTopLevel(First) THEN {} ELSE {First})
  /\ gen' = [gen EXCEPT ![First].setUp = TRUE, ![First].inputs = IF gen[First].setUp THEN @ ELSE FromStatics(First)]
  /\ c' = Started(First, FromStatics(First))
  /\ path' = <<Entry(First)>>
  /\ labels' = labels \cup {Label("b", First)}
  /\ arrived' = {}
  /\ UNCHANGED <<program, options, compiled, needsTrans, group, left, cf, jumps>>

CompileVar ==
  /\ Compiling /\ c.at < CfTime(Top.b)
  /\ c' = [Compiled([c EXCEPT !.reads = {}], c.at) EXCEPT !.at = c.at + 1]
  /\ arrived' = {}
  /\ UNCHANGED <<program, options, gen, compiled, manual, needsTrans, path, group, left, cf, labels, jumps>>

NoState == [b |-> NoBlock]

(* prepare_cf_ops; the block is assembled. *)
AllPrepared(s) == FoldLeft(Prepared, [s |-> s, gen |-> gen], program[s.b].cfs)

Assembled(p) ==
  /\ group' = Append(group, Top.b)
  /\ left' = [left EXCEPT ![Top.b] = p.s]
  /\ gen' = p.gen
  /\ compiled' = compiled \cup {Top.b}
  /\ path' = [path EXCEPT ![Len(path)].assembled = TRUE]

FinishVars ==
  /\ Compiling /\ c.at = CfTime(Top.b)
  /\ Assembled(AllPrepared([c EXCEPT !.reads = {}]))
  /\ c' = NoState
  /\ UNCHANGED <<program, options, manual, needsTrans, cf, labels, jumps, arrived>>

Visitable == {j \in Items(Top.b) : j >= Top.next /\ Visit(Item(Top.b, j))}

Descend ==
  /\ Following /\ Visitable # {}
  /\ LET j    == Min(Visitable)
         b    == Item(Top.b, j).b
         info == IF gen[b].setUp THEN gen[b] ELSE [gen[b] EXCEPT !.inputs = FromStatics(b), !.setUp = TRUE]
     IN
     /\ gen' = [gen EXCEPT ![b] = info]
     /\ c' = Started(b, info.inputs)
     /\ path' = Append([path EXCEPT ![Len(path)].next = j + 1], Entry(b))
     /\ labels' = labels \cup {Label("reg_alloc", b)} \cup (IF HasTranslation(b) THEN {Label("b", b)} ELSE {})
     /\ arrived' = IF HasTranslation(b) THEN Translated(b, info.inputs) ELSE {}
  /\ UNCHANGED <<program, options, compiled, manual, needsTrans, group, left, cf, jumps>>

Ascend ==
  /\ Following /\ Visitable = {}
  /\ path' = SubSeq(path, 1, Len(path) - 1)
  /\ UNCHANGED <<program, options, gen, compiled, manual, needsTrans, c, group, left, cf, labels, jumps, arrived>>

(* Mutant: no space is left for what the jumps save. *)
FrameOfBlocks(G) == LET size == Max({Len(left[b].stack) : b \in G}) IN size + (size % 2)

(* The slots of the frame of a group, rounded to 16 bytes. *)
FrameOf(G) == LET size == Max({Len(left[b].stack) : b \in G}) + NumStatics IN size + (size % 2)

FinishGroup ==
  /\ path = <<>> /\ group # <<>> /\ cf = <<0, 0>>
  /\ LET frame == FrameOf(Range(group)) IN
     /\ left' = [b \in Blocks |-> IF InGroup(b) THEN [left[b] EXCEPT !.frame = frame] ELSE left[b]]
     /\ gen' = [b \in Blocks |-> IF InGroup(b) THEN [gen[b] EXCEPT !.frame = frame] ELSE gen[b]]
  /\ cf' = <<1, 1>>
  /\ UNCHANGED <<program, options, compiled, manual, needsTrans, c, path, group, labels, jumps, arrived>>

(* Operation k of the i-th block is written as x; the next one starts with *)
(* s, what the block and its comparison left.                              *)
Written(i, k, s, x) ==
  LET last == k = Len(program[group[i]].cfs) IN
  /\ c' = x.s
  /\ arrived' = x.found
  /\ jumps' = jumps \cup x.jumps
  /\ needsTrans' = needsTrans \cup x.needsTrans
  /\ cf' = CASE ~last                    -> <<i, k + 1>>
              [] last /\ i < Len(group)   -> <<i + 1, 1>>
              [] last /\ i = Len(group)   -> <<0, 0>>
  /\ IF last /\ i = Len(group)
     THEN group' = <<>> /\ left' = [b \in Blocks |-> NoState]
     ELSE group' = group /\ left' = [left EXCEPT ![group[i]] = [s EXCEPT !.reads = {}]]

CompileCf ==
  /\ cf # <<0, 0>>
  /\ LET b == group[cf[1]]
         o == program[b].cfs[cf[2]]
         s == IF o.type = "cjump" THEN Compared(left[b], o) ELSE left[b]
     IN  Written(cf[1], cf[2], s, CfCompiled(s, o))
  /\ UNCHANGED <<program, options, gen, compiled, manual, path, labels>>

AllCompiled == Idle /\ Pending = {}
Finished    == AllCompiled /\ UNCHANGED vars

Next ==
  \/ StartGroup \/ CompileVar \/ FinishVars \/ Descend \/ Ascend \/ FinishGroup \/ CompileCf
  \/ Finished

NotCompiled == [inputs |-> <<>>, setUp |-> FALSE, frame |-> 0]

Init ==
  /\ \E name \in Names : program = Program(name)
  /\ options \in Options
  /\ gen = [b \in Blocks |-> NotCompiled]
  /\ compiled = {} /\ manual = {} /\ needsTrans = {b \in Blocks : program[b].needsTrans}
  /\ c = NoState /\ path = <<>> /\ group = <<>> /\ left = [b \in Blocks |-> NoState] /\ cf = <<0, 0>>
  /\ labels = {} /\ jumps = {} /\ arrived = {}

Spec == Init /\ [][Next]_vars

-----------------------------------------------------------------------------
(* Properties.                                                             *)

(* Every instruction reads the variable it was written for. *)
OperandsInPlace == c.b # NoBlock => \A r \in c.reads : r[1] = r[2]

(* While a block is compiled the allocator is right about where the        *)
(* variables are that it still needs: registers, saved slots and statics.  *)
MapsAgree ==
  Compiling =>
    /\ \A v \in DOMAIN c.var : c.var[v].last >= c.at =>
         /\ c.var[v].loc = "reg" => c.regs[c.var[v].at] = v /\ c.inReg[c.var[v].at] = v
         /\ c.var[v].saved => c.inSlot[c.var[v].slot] = v
         /\ c.var[v].loc = "static" => c.inStatic[c.var[v].at] = v

(* Whatever was saved, moved and given up before, every instruction finds  *)
(* its operands in the registers it names, and the register map, which the *)
(* next ones are written by, says what the machine holds.                  *)
InPlace == OperandsInPlace /\ MapsAgree

(* Whoever jumps to a block, in the same group, from a group with another  *)
(* frame, through a translation block or after a call, leaves every input  *)
(* where the block looks for it and the stack pointer where it expects it. *)
InputsArrive == \A a \in arrived : a[1] = a[2]

(* No assertion of the allocator fails: a register can always be found,    *)
(* nothing that is needed is given up; and nothing is written behind the   *)
(* frame of the group.                                                     *)
FrameFits == c.b # NoBlock => c.holds /\ Len(c.stack) <= c.frame

(* In the end every label that is jumped to was printed, and so was bN of  *)
(* every block that the tables of indirect jumps have to lead to: targets  *)
(* and continuations of calls, and what the lifter found an indirect jump  *)
(* to go to (ijumps.cpp:51).                                               *)
LabelsExist ==
  AllCompiled =>
    /\ jumps \subseteq labels
    /\ \A b \in Blocks :
         program[b].callTarget \/ program[b].callCont \/ program[b].needsTrans => Label("b", b) \in labels
=============================================================================

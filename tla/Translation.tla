---------------------------- MODULE Translation -----------------------------
(***************************************************************************)
(* The translator and its run time on straight-line code: the code is      *)
(* lifted, its block perhaps split, its constants perhaps folded and its   *)
(* twins perhaps removed, what the generator emits is executed, and the    *)
(* interpreter runs the same code on the same registers and the same       *)
(* memory.                                                                 *)
(***************************************************************************)
EXTENDS Splitting, ConstFolding, Dedup, Emitted, Interpreter

CONSTANTS Inputs(_),   (* What the statics may hold when a program starts,  *)
          Memories(_), (* and the memory.                                   *)
          Splits(_),   (* Something may jump into the middle of a program.  *)
          Junk         (* What an unwritten slot of the stack may hold.     *)

VARIABLES phase,       (* "lift", "fold", "dedup", "run", "interpret",      *)
                       (* "done".                                           *)
          machine      (* The machine that executes what was emitted.       *)

vars == <<splitVars, fold, phase, machine, interpreterVars>>

Init ==
  /\ LiftInit
  /\ splitAt = 0
  /\ fold = FoldStart
  /\ phase = "lift"
  /\ machine = Machine([s \in Statics |-> 0], <<>>)
  /\ regs = <<>> /\ memory = <<>> /\ pc = 0 /\ mxcsr = "nearest" /\ curRounding = 0 /\ fault = FALSE

Translate ==
  /\ phase = "lift"
  /\ LiftNext
  /\ UNCHANGED <<splitAt, fold, phase, machine, interpreterVars>>

SplitBlock ==
  /\ phase = "lift" /\ Splits(program)
  /\ Split
  /\ UNCHANGED <<fold, phase, machine, interpreterVars>>

StartFolding ==
  /\ phase = "lift" /\ IsLifted /\ "fold" \in options
  /\ phase' = "fold"
  /\ UNCHANGED <<splitVars, fold, machine, interpreterVars>>

Fold ==
  /\ phase = "fold"
  /\ FoldNext \/ FoldSwap
  /\ UNCHANGED <<program, options, at, splitAt, phase, machine, interpreterVars>>

FoldingDone == \/ phase = "lift" /\ IsLifted /\ "fold" \notin options
               \/ phase = "fold" /\ fold.block = Len(blocks) + 2

Deduplicate ==
  /\ FoldingDone /\ "dedup" \in options
  /\ blocks' = [b \in DOMAIN blocks |-> Deduplicated(blocks[b])]
  /\ phase' = "dedup"
  /\ UNCHANGED <<program, options, at, splitAt, fold, machine, interpreterVars>>

IsTranslated == \/ phase = "dedup"
                \/ FoldingDone /\ "dedup" \notin options

(* The registers and the memory a block is entered with. *)
Enter ==
  /\ IsTranslated
  /\ \E statics \in Inputs(program), mem \in Memories(program) :
       /\ machine' = [Machine(statics, mem) EXCEPT !.next = program[1].addr]
       /\ InterpreterStart(statics, mem, program[1].addr)
  /\ phase' = "run"
  /\ UNCHANGED <<splitVars, fold>>

Entered == {b \in DOMAIN blocks : blocks[b].start = machine.next}

Execute ==
  /\ phase = "run" /\ Entered # {} /\ ~machine.trap
  /\ \E junk \in Junk : machine' = Executed(blocks[CHOOSE b \in Entered : TRUE], machine, junk)
  /\ UNCHANGED <<splitVars, fold, phase, interpreterVars>>

(* The blocks are not needed any more. *)
Leave ==
  /\ phase = "run" /\ (Entered = {} \/ machine.trap)
  /\ phase' = "interpret"
  /\ blocks' = <<>>
  /\ fold' = FoldStart
  /\ UNCHANGED <<program, options, at, splitAt, machine, interpreterVars>>

Interpret ==
  /\ phase = "interpret"
  /\ InterpreterNext
  /\ UNCHANGED <<splitVars, fold, phase, machine>>

Finish ==
  /\ phase = "interpret" /\ Interpreted
  /\ phase' = "done"
  /\ UNCHANGED <<splitVars, fold, machine, interpreterVars>>

(* The program ended, or the translator died in FoldDivision. *)
Ended ==
  /\ phase = "done" \/ fold.died
  /\ UNCHANGED vars

Next ==
  \/ Translate \/ SplitBlock \/ StartFolding \/ Fold \/ Deduplicate
  \/ Enter \/ Execute \/ Leave \/ Interpret \/ Finish \/ Ended

Spec == Init /\ [][Next]_vars

-----------------------------------------------------------------------------
(* Properties.                                                             *)

(* Every variable of the pipeline has its type. *)
TypeOK ==
  /\ phase \in {"lift", "fold", "dedup", "run", "interpret", "done"}
  /\ at \in 1..(Len(program) + 2)
  /\ splitAt = 0 \/ \E j \in DOMAIN program : program[j].addr = splitAt
  /\ machine.mxcsr \in {"nearest", "zero", "down", "up"} /\ machine.trap \in BOOLEAN
  /\ \A s \in Statics \ {Mem} : machine.statics[s] \in 0..(Pow(StaticType(s)) - 1)
  /\ \A a \in DOMAIN machine.mem : machine.mem[a] \in 0..(2 ^ ByteBits - 1)
  /\ \A r \in DOMAIN regs : regs[r] \in 0..(Pow("i64") - 1)
  /\ \A a \in DOMAIN memory : memory[a] \in 0..(2 ^ ByteBits - 1)
  /\ phase \in {"lift", "fold", "dedup"} =>
       \A b \in DOMAIN blocks : LET bb == blocks[b] IN
         /\ \A s \in Statics : bb.map[s] \in DOMAIN bb.vars
         /\ \A p \in DOMAIN bb.order : bb.order[p] \in DOMAIN bb.vars
         /\ \A id \in DOMAIN bb.vars : bb.vars[id].type \in Types /\ bb.vars[id].kind \in {"imm", "static", "op"}

(* What the emitted code leaves in the registers, in memory and as the     *)
(* next address is what the interpreter leaves there: the two halves of    *)
(* the run time agree about every instruction, at every cut of a program   *)
(* and under every optimisation.  A program that the processor stops in    *)
(* one of them is stopped in the other.                                    *)
SameResult ==
  phase = "done" =>
    /\ machine.trap = fault
    /\ ~fault => /\ machine.mem = memory
                 /\ machine.next = pc
                 /\ \A s \in Statics : machine.statics[s] = regs[s]

Translating == phase \in {"lift", "fold", "dedup"} /\ IsLifted

(* basic_block.cpp:60, "Operation parameters must be declared before the   *)
(* operation itself", of every block that lifting, splitting, folding and  *)
(* deduplication leave, and its control flow operations only name          *)
(* variables of it.                                                        *)
DefinedBeforeUse ==
  Translating =>
    \A b \in DOMAIN blocks : LET bb == blocks[b] IN
      /\ \A p \in DOMAIN bb.order : \A id \in Operands(bb.vars[bb.order[p]]) :
           \E q \in 1..(p - 1) : bb.order[q] = id
      /\ \A k \in DOMAIN bb.cfs : \A id \in Range(bb.cfs[k].ins) \cup Range(bb.cfs[k].args) :
           id \in Range(bb.order)

(* Every access to memory takes the memory token of the store before it,   *)
(* or the block's input, and the last one is passed on: nothing that may   *)
(* reorder operations without a dependency moves one across a store.       *)
MemoryOrdered ==
  Translating =>
    \A b \in DOMAIN blocks :
      LET bb     == blocks[b]
          tokens == SelectSeq(bb.order, LAMBDA id : bb.vars[id].type = "mt")
      IN  /\ \A p \in DOMAIN bb.order : LET v == bb.vars[bb.order[p]] IN
               v.op \in {"load", "store"} =>
                 LET earlier == SelectSeq(SubSeq(bb.order, 1, p - 1), LAMBDA id : bb.vars[id].type = "mt")
                 IN  v.ins[Len(v.ins)] = Last(earlier)
          /\ \A k \in DOMAIN bb.cfs : bb.cfs[k].args[Mem] = Last(tokens)

(* One pass over a block finds every pair of variables that are computed   *)
(* alike, also those that are alike only since their operands were         *)
(* replaced: a second pass would find nothing.                             *)
NoTwins ==
  phase = "dedup" =>
    \A b \in DOMAIN blocks : LET bb == blocks[b] IN
      \A p, q \in DOMAIN bb.order :
        p < q /\ ~TouchesMemory(bb.vars[bb.order[p]]) => ~Twins(bb.vars[bb.order[p]], bb.vars[bb.order[q]])

(* const_folding.cpp:294 and :389, "Ops with imm/imm should be folded by   *)
(* now": an operation on two immediates is never an operand of one that    *)
(* the pass reaches.                                                       *)
FoldedOperands ==
  (Folding /\ phase = "fold" /\ Current.op \in BinaryOps) =>
    \A j \in 1..2 : IsImm(In(Current, 3 - j)) => ~InnerConstant(Current, j)

(* Division, "Returns both the result and the remainder" of                *)
(* "<result>, <remainder> <- div <a>, <b>" (ir_specification.md:129): a    *)
(* division is the same whether the pass evaluates it or the program.      *)
FoldedDivision ==
  (\E j \in DOMAIN program : program[j].mnem \in DOMAIN Divisions) => ~fold.died /\ SameResult
=============================================================================

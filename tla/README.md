# A verification project for the RISC-V to x86-64 binary translator

The program reads a statically linked RV64 ELF file, *lifts* its code into an SSA intermediate
representation, optimises it, and generates x86-64 assembly that runs beside a small run time
(interpreter, hash lookup, system calls). This directory holds TLA+ modules of the parts whose
correctness is decided by the order of many small steps, the TLC configurations that check them
on small instances, and proofs for instances of every size.

## 1. Inventory

| Component (source) | State | Operations | What makes it correct |
|---|---|---|---|
| **Control flow graph construction** (`lifter/lifter.cpp`, `split_basic_block.cpp`, `ijumps.cpp`, `instructions/cfc.cpp`, `ir/basic_block.*`, `ir.h`) | `ir->basic_blocks`, `virt_bb_ptrs`, `needs_bb_start`, edges, control flow operations, `unprocessed_ijumps` | `lift`, `split_basic_block`, `postprocess`, `process_ijumps`, `add_basic_block`, `set_virt_end_addr` | the graph executes like the program; every instruction lifted exactly once; `get_bb` finds the block that holds an address; the edge vectors satisfy `IR::verify` |
| **Register mapping of the lifter** (`instruction_parser.cpp`, `instructions/*.cpp`, second half of `split_basic_block.cpp`) | the `mapping` array, SSA variables with static ids and `last_static_assignment` | one handler per instruction, the mapping rebuilt by a split | a variable moved by a split has the value it had before |
| **Backtracking and jump tables** (`backtracking.cpp`, `jump_table.cpp`) | a search over predecessors | `backtrace_jmp_addrs`, `is_jump_table_jump` | found addresses are a subset of the real ones and never an address outside of the program |
| **Program / ELF loader** (`program.cpp`, `elf_file.cpp`) | `addrs`, `data`, sections and segments | `load_section`, `insert_addr`, `resize_for_shrink` | `addrs` stays sorted and parallel to `data` |
| **IR** (`src/ir`) | blocks, variables with reference counts, operations | constructors, `remove_ref`, `verify` | reference counts equal the number of references |
| **Optimisers** (`ir/optimizer/*`) | liveness sets and work lists, value tables | dead code elimination, constant folding, deduplication | no live variable removed; a merged or folded variable keeps its value |
| **Indirect jump lookup** (`generator/x86_64/hashing.*`, `generator.cpp`, `helper.cpp`) | two level perfect hash table, flat table | `fill`, `build`, retry loop, generated lookup, `calc_target` | every inserted address is found at its block, every other address goes to the interpreter |
| **Generator** (`generator.cpp`) | the frame of a block, the pairs of return addresses on the x86-64 stack | the code of every operation, arguments to the next block, calls and returns | the emitted code computes what the instruction does; a return through the stack goes where the guest goes |
| **Register allocation** (`reg_alloc_multi.cpp`) | register map, stack frame, location of every variable, input map of every block | allocation per block group, evictions, merged operations, block transitions | an operand is in the place it is read from, on both sides of a jump |
| **Run time** (`helper/interpreter.cpp`, `helper.cpp`, `rv64_syscalls.cpp`, `wrappers.S`) | register file, `return stack`, host memory | interpreter loop, dispatch, system calls | the pc sequence is that of the guest whoever executes it |
| **Driver** (`main.cpp`, `argument_parser.cpp`) | none of its own | runs the passes, assembler, linker | (not modelled) |

The components are one sequential process that hands one structure on: the loader fills a
`Program`, the lifter reads it and fills an `IR`, the optimisers edit the `IR`, the generator
prints it together with the lookup tables. Only then does the run time exist, in another process:
translated code and interpreter call each other through `unresolved_ijump` and the lookup tables,
which the interpreter reads as `calc_target` does.

No threads run. What is hard here is **order and staleness**: the lifter scans upwards and
discovers jumps backwards, so blocks are split while references into them are held (the
predecessor being visited, the block whose operations the loop iterates, the operation that asked
for the split); facts such as "the block at this address" are looked up before and used after.
A split can happen before `postprocess` (calls have no continuation yet), and again after it
(they have). Every such order is a different path through `split_basic_block`, and a unit test
has to write each of them down. The second difficulty is **boundaries**: counters and tables
indexed in bytes, half words or entries, blocks at the end of the program, tables with zero
entries. `PROJECT.json` lists them by line under `hazards`.

## 2. Plan

In order of importance; proofs where marked (P).

1. `LifterCFG` (P): the construction of the graph. *Done.*
2. `JumpHash` (P): building the hash table with its bounded search and retries, and the generated
   lookup, refining `JumpMap`, a partial function from addresses to blocks. *Done.*
3. `DeadCode` (P): the loops of `dce.cpp` with a work list in arbitrary order against the least
   set of needed variables. *Done.*
4. `Translation`, which composes `Lifting` (every instruction handler), `Splitting` (the variables of the
   two halves of a block), `ConstFolding`, `Dedup`, `Emitted` (what the generator prints) and `Interpreter`:
   both halves of the run time agree on every instruction. *Modelled and checked.*
5. `CallStack` (P): the return addresses on the stack, refining `ReturnStack`, a stack of open calls that
   predicts returns. *Done.*
6. `RegAlloc` (P): where a variable lives along a block and across a jump. *Modelled and checked; proved is
   the part that concerns groups and labels.*
7. `Backtracking`: the search of `backtracking.cpp` and `jump_table.cpp` over the predecessors of a block, whose
   results `LifterCFG` chooses freely.
8. `Program`: the sorted vectors under overlapping sections.

Abstract specifications: a map from addresses to blocks (2), a stack of open calls (5), the least fixed
point of liveness (3), and the interpreter as the reference of the emitted code (4).

## 3. `LifterCFG`: the control flow graph

### Correspondence

| TLA+ | code |
|---|---|
| `prog` | `prog->addrs`, `prog->data` with what `parse_instruction` distinguishes of an instruction |
| `bbs` | `ir->basic_blocks`; `start`, `end` are `virt_start_addr`, `virt_end_addr`; `cfs` is `control_flow_ops`; `code` is the set of instructions whose variables the block holds |
| `ptr` | `ir->virt_bb_ptrs`; `BlockAt` is `get_bb` |
| `needs` | `needs_bb_start` |
| `pos`, `cur`, `cfi` | the loop variable, `cur_bb`, and the index into its operations |
| `req` | the arguments of the running `split_basic_block`, and its caller |
| `todo` | the operations the loop of `postprocess` has yet to visit |
| `ijumps`, `found` | `unprocessed_ijumps` and the addresses of the one being processed |

One action is one iteration of a loop with everything it calls: `ScanData`, `ScanInvalid`,
`ScanInstr` are the three kinds of slot in `lift`; `ResolveReturn`, `ResolveUnknown`,
`ResolveLink`, `ResolveSplit` one control flow operation of the block that has just ended;
`Split` the whole of `split_basic_block`; `PostPass`, `PostJump`, `PostCall`, `PostCallTrap` one
operation in `postprocess`; `Backtrace`, `RegisterAddr`, `FinishRegister` are `process_ijumps`;
`AddEntry` is `add_entry_block`. `SplitCrash` and `PostCrash` are the ways the compiler can die.

Abstractions:

* An instruction takes one slot of `virt_bb_ptrs`. Compressed and full instructions do not mix,
  so jumps into the middle of an instruction are outside of the model (so is the block a call
  followed by undecodable bytes opens at +4).
* The variables of a block are reduced to the question whether an instruction declares one
  (`Yields`): this decides `virt_end_addr` in a split. The variables are those of section 6.
* The branch condition is abstracted to the two shapes `lift_branch` produces (`beq`, `bne`).
* `preds` and `succs` are bags: order matters to no property, multiplicity does.
* What backtracking finds is any set of at most `MaxBacktrace` addresses.
* `postprocess` keeps a reference into `ir->basic_blocks` while it appends: whether the memory it
  then reads still holds the old values is a choice (`PostCrash` with `Relocates`). The crash for
  a call in the last slot (`virt_bb_ptrs.at`) is another disjunct of the same action.
* A stack-setup block and the block behind a syscall with nothing after it have address 0, as in
  the code, although `basic_block.h:18` reserves 0.

### Properties and runs

| Run | Instance | Checks |
|---|---|---|
| `LifterAny` | all 3-slot programs over every instruction, data and undecodable bytes | `TypeOK`, `NothingAhead` (the assertion of `lifter.cpp:95`), `CodePartition` (no instruction lost or lifted twice), `Terminates` |
| `LifterBranches` | all 6-slot programs of branches and jumps into each other | `Verified` (the edge conditions of `IR::verify`), `SplitMovesOne` (why the loop that erases from the vector it walks is harmless), `JumpsHitStarts`, `PtrCoherent` (`get_bb` finds the block that holds the code), `FaithfulCFG` (the graph does what the program does) |
| `LifterIndirect` | all 4-slot programs of all control flow (calls, returns, syscalls, tables, indirect jumps, branches), two addresses per indirect jump | `Verified`, `FaithfulCFG`, also for splits after `postprocess` |

Why the bounds are enough: a split needs a block of two instructions and a jump into it, splitting
a half again needs three, a self loop over both halves with a second predecessor four, and a jump
whose own block is split and that is then split from elsewhere six. `LifterBranches` has all
programs of that length over branches that overlap in every way; the other runs have fewer slots
and all instructions, so that each pair and triple of kinds meets. `MaxBacktrace = 2` lets one
jump split a block twice.

`FairSpec` adds `WF_vars(Next)`: the compiler is one sequential process and the operating system
goes on running it. No fairness between actions is assumed.

Some programs are known to fail; they are left out of the instances by leaving out the instruction
that provokes it, never by weakening a property (section 9).

### Proofs (`LifterCFGProofs`, `LifterJumps`, `LifterEdges`, `LifterFaithful`)

From the four assumptions on the constants (`N` positive, `Instrs` a set of instructions, `Entry` a
slot, `MaxBacktrace` a number), for every `N` and every program:

* `Inductive`: `Spec => []Inv`;
* `TypeCorrect`: `Spec => []TypeOK`;
* `ScanMeetsNoBlock`: `Spec => []NothingAhead`;
* `CodeIsPartitioned`: `Spec => []CodePartition`;
* `PointersAgree`: `Spec => [](AllYield => PtrCoherent)`;
* `JumpsReachStarts`: `Spec => [](AllYield => JumpsHitStarts)`;
* `SplitsMoveOne`: `Spec => [](AllYield => SplitMovesOne)`;
* `EdgesVerified`: `Spec => [](AllYield /\ CallsLand => Verified)`;
* `GraphFaithful`: `Spec => [](AllYield /\ JumpsBack => FaithfulCFG)`.

`Inv` has three parts. `Typed` is `TypeOK` made inductive: blocks and operations are records with
exactly their fields, and vectors are sequences with a length. `Control` ties the phases to the other
variables (there is a current block while its operations are resolved, a split names a block, the
scan is complete and the entry block known in every later phase, `todo` only names operations that
exist): without it a step could follow a phase that left an index dangling. `Behind` says that
while scanning nothing reaches beyond the last lifted slot (`Horizon`): no block starts or ends
there, holds code there or is pointed to from there, and no pending split lies there. `NothingAhead`
alone is not inductive, because a split writes pointers up to the old *end* of a block, so the
ends have to be bounded too. `CodeIsPartitioned` is proved with `Inv` and `CodePartition` together:
the slot the scan lifts is new to the partition because the code sets stay behind the horizon. There is one lemma per action
(`ScanInstrInv`, `SplitInv`, `PostInv`, ...) and, under it, lemmas on the operators that build a
vector of blocks from another (`AddEdgeGrows`, `WithContGrows`, `SecondWf`, ...): they let the proof
of an action speak of an opaque new vector that *grows* the old one. Least and greatest elements of
sets of numbers (`NatMin`, `NatMax`) come from the well-foundedness of `<`.

`PointersAgree`, `JumpsReachStarts` and `SplitsMoveOne` (`LifterJumps`) have one hypothesis on the
program, `AllYield`: every instruction in front of another
one declares a variable, that is, no `FENCE`, unknown mnemonic or ignored csr or float instruction
stands there. `split_basic_block` ends the first half of a block at the last instruction that
declares a variable; behind another instruction that is too early, and the next split of that half
moves the slots in between to a new block without their pointers (section 9).
`PtrCoherent` is then proved from `Inv`, `CodePartition` and `Pointers`, which says what the
pointers look like *between* the operations: what is found at a slot holds it or starts there
without an instruction (`OwnCode`), an open block is found at its start only (`OpenAtStart`),
a block with an end at all of its code (`FoundInCode`), code is a run of slots up to the end
(`Runs`), and a block is found at its start (`FoundAtStart`). `OpenBlock` describes the block the
scan fills, `CutsInside` the split that is pending, and `StartsBehind` with `Sited` say that behind
every call there is a block or no instruction, which `postprocess` needs when it points the slot
behind a call to a block that only traps.

`JumpsReachStarts` and `SplitsMoveOne` are proved from these and from `Jumps`. A jump that is linked
to the right block stays right because a split moves exactly the operations that jump into the second
half to it; that needs to know that nobody but the operation the split was called for jumps there.
So `AllGood` says of every operation that its address is one of the `Places`: an address where a
block starts, or one where a block may still start, because the scan has left it without a block or
will open one there. An address inside of a block is none of these, and `SplitPlaces` shows that no
place is ever lost: a split only adds its address. Exempt are the operations of the current block
that the loop has not reached (`Waiting`): `Resolving` says that these are as `parse_instruction`
made them and that the block has no edge yet, unless only the operation to the next slot is left;
`Linking` says that during a split for the loop the current operation alone targets the block that
is split, by one edge. Of the two operations of a branch one goes to the next slot, which is why the
second cannot jump to the address the first one splits at (`IssuedShape`).

`EdgesVerified` (`LifterEdges`) needs a second hypothesis, `CallsLand`: a call goes to an instruction,
and between a call and an earlier target nothing is undecodable. `postprocess` links a call to its
continuation before it looks for the call's target; if there is no such block the operation becomes
`unreachable` and the edge stays (`lifter.cpp:246`, `:323`), which `IR::verify` would reject. No block
is found for an address outside of the program or without an instruction, and none for a
backward call into a block that ended in front of data, which has no end address. All programs of
`LifterBranches` and `LifterIndirect` satisfy both hypotheses.

`Verified` compares edges with operations in both directions, but not tightly enough to be
inductive. `Edges` is: an edge is there exactly if an operation of the block names the other one
(`Matched`), and while the lifter runs:

* a block that jumps to itself has one such edge (`Simple`), as `split_basic_block` erases one;
* only direct jumps have targets, a call stands at the end of its block and its continuation starts
  behind it (`AllShaped`), so a call moves with the second half of a split and stays in front of its
  continuation; continuations come with `postprocess` (`Unvisited`);
* every call without a target finds a block or will get one (`AllLand`): the scan has lifted what it
  jumps to, or is going to, and then opens a block there (`Awaits`). That is what keeps an operation
  with a continuation from becoming `unreachable`, and it rests on `DataEnds`: only data can have
  left a block without an end, in which no later split takes place;
* the operations of the block that has just ended jump where they did when they were issued
  (`AsIssued`): the address a split is asked for is the address of the current operation, and no
  other operation of that block names it.

A split is the hard step. It moves all operations of the block to a new one and retargets at most one
(`SplitsMoveOne`), so every edge of the block leaves the new block instead, one edge into it turns to
the new block, and the two halves get an edge; `SplitMatched` follows every pair of blocks through
that, with the current operation (`Asks`) as the one exception. `postprocess` and `process_ijumps` are
covered operator by operator: each change of an operation's target or continuation comes with its edge
(`Rewires`). `EdgesInductive` puts these together with the invariants above.

`GraphFaithful` (`LifterFaithful`) is about the finished graph: every block is the run of instructions
from its start to its last one, and its operations do what the last one does to the program counter.
Beside `AllYield` its hypothesis is `JumpsBack`: between a jump, branch or call and an earlier
instruction it goes to, every slot decodes. A block that ends in front of data is given no end
(`lifter.cpp:86`), so a later jump into its middle finds no block to split and becomes a trap although
an instruction stands there. Jumps forward, jumps out of the program or to data, data between code,
calls to nowhere and indirect jumps to any addresses are all within the theorem; programs without data or
undecodable bytes satisfy `JumpsBack`, so those of `LifterBranches` and `LifterIndirect` do. It does not
need `CallsLand`: a call to nowhere traps, as the program would.

`FaithfulCFG` speaks of the end only. The inductive invariant `Faith` says what the unfinished graph
already owes to the program:

* `Graph`: every block is formed like a part of the program (`Formed`): it holds a run of slots of which
  only the last may change the control flow, and its operations are those `parse_instruction` made for
  that last instruction (`Made`) or one operation to the slot behind it (`Falls`); the block the scan
  still fills may have none. An operation may have become a trap only if its address holds no
  instruction. Every target and every continuation is the block for its address (`Leads`); with
  `JumpsReachStarts` that block starts exactly there;
* `AllFound`: a jump to an instruction that has no target yet has a block to go to in `virt_bb_ptrs`, or
  the scan will open one (`Awaits`). This is the part that needs `JumpsBack`, and what keeps
  `postprocess` from turning a jump to an instruction into a trap;
* `AllDone`: what `postprocess` has visited has its target and its continuation.

Each step is one of a few changes of the blocks, and one lemma carries all of them (`RebuiltGraph`): the
blocks that are not rebuilt keep their slots and replace operations by `Kin` of them only, the others
are formed anew, no block loses its address and what traps goes on trapping. A split rebuilds two
blocks: the first half falls through to the second, which takes the operations, and the one operation
that is retargeted (`SplitsMoveOne`) now leads to the block that starts at its address.
`FaithInductive` puts this on top of the invariants above; `FinishedFaithful` reads `FaithfulCFG` off
the invariant when the lifter is done.

Only model-checked: `Terminates`, as the prover handles neither liveness under fairness nor `ENABLED`.

## 4. `JumpHash` and `JumpMap`: the lookup of indirect jumps

### Correspondence

`JumpMap` is what the lookup promises: translated code that jumps to an address goes on at the
block that may be entered there, else in the interpreter (`Jump`); the interpreter, after it has
executed a jump, asks the same question and may be told to go on interpreting (`Ask`).

`JumpHash` is the code. `StartBuild` sets up the tables of the sizes `fill` computes; `OpenBucket`
and `SkipBucket` are the loop over the sorted buckets (equal sizes in any order, as `std::sort`
is not stable); `Place` and `Collide` are one iteration of the loop over a bucket's keys, `Collide`
with the reversal of the failed combination, the step to the next one with its roll-over, and
the test by which `build` notices that it ran out of combinations; `CloseBucket` stores
`combination_idx`; `Retry` is the loop in `compile_ijump_lookup`; `Emit` prints the tables. `Jump`
is the emitted `ijump_lookup`, `Ask` is `calc_target`. With `useHash = FALSE` the flat table is
printed instead and both lookups read that.

| TLA+ | code |
|---|---|
| `load` | `bucket_size`, and `load_factor` as `load / Steps`: both fall by one step per retry |
| `hash` | `spookey_hash` before the reduction to the table sizes |
| `table` | `hash_table`, with 0 where `occupied_bins` is false |
| `placed`, `d0`, `d1`, `idx`, `idxs` | `valid_idxs`, `d0`, `d1`, `combination_idx`, `hash_idxs` |
| `jumpable` | the keys whose block `is_block_jumpable` (all of them without the options) |

Abstractions: addresses count half words (`lift_jalr` masks the lowest bit); the hash function is
any function, the same in generator and run time; the load factor is an exact fraction where the
code subtracts 0.1 from a `float`, so a table may in the code be one entry larger or smaller,
which no property depends on; a block is named by its address. Behind the flat table, at the index
the emitted `ja` still admits, lie the zero bytes of the stubs.

### Properties and runs

* `TableExact`: during the search the table holds exactly the keys of finished buckets, each where
  a lookup will probe, and the placed keys of the current one.
* `CombinationCounted`: the number stored for a bucket, divided by the table size as the run time
  does, is the pair `build` counted up with its roll-over.
* `LookupExact`, `HashedCalcTargetExact`: every address, key or not, gets the right answer.
* `RefinesMap`: the whole implements `JumpMap`.
* `BuildEnds`: the search and its retries end, in a table or in `exit(1)`. It needs `WF_vars(Build)`:
  the generator is a sequential process that goes on running. Nothing forces the guest to jump.

`JumpLookup` has up to three blocks and two further addresses (below and at the end of the
program), four hash triples (so that keys share buckets, clash in bins within a bucket and across
buckets, need `d0 > 0`, or cannot be separated at all), two load factors, and a limit of seven
combinations per bucket: less than the largest table, so that the limit, and not only a
successful combination, ends a search, and more than the smallest, so that `d1` rolls over.
`RefinesMap` lets the interpreter go on where it need not, because with the flat table it does
(section 9, `helper.cpp:523`); `HashedCalcTargetExact` is the sharper statement for the hash table.

### Proofs (`JumpHashProofs`)

For every finite set of addresses, every range, every set of hashes, every number of steps and
every limit: `TypeCorrect`, `TableIsExact`, `CombinationIsCounted`, `LookupIsExact`, and `Refinement`
(`Spec => Map!Spec`), all from `Inductive: Spec => []Inv`. `Inv` adds to `TableExact` what keeps it:
buckets still to come have the number 0 (without that `build` could take a failed search for a
successful one, as it compares with the stored number), `placed` is exactly the set of bins of the
placed keys and no other bin holds a key of the current bucket (so that the reversal removes all of
them and nothing else), and `idx = d0 * Size + d1`. `CloseBucketInv` is the step where counting meets
dividing. `HashedCalcTargetIsExact` adds that with the hash table `calc_target` also finds every block that may
be entered. `BuildEnds` is liveness and only model-checked.

## 5. `DeadCode`: dead code elimination

### Correspondence

| TLA+ | code |
|---|---|
| `prog` | what the lifter hands over, which `dce` never edits: operands (`ins`), the variable in `rounding_info` (`rm`, 0 if there is none), the control flow operations with `in_vars` (`ins`), target and continuation, and the variable each static is mapped to at the end of the block (`out`) |
| `inputs`, `args` | `bb->inputs`; `target_inputs` or `continuation_mapping` of each operation |
| `alive` | `bb->variables`; reference counts are derived from it and from `args` (`CfRefs`, `Refs`), as `RefPtr` keeps them equal |
| `usage`, `pending` | `usage`, `pending_blocks` |
| `preds` | `predecessors`, as a count per block |

`Track` is one block of the first loop, `Propagate` one block taken from the work list, `RemoveInputs`
and `Erase` one block of the last two loops. `pending_blocks` is a `std::set` of pointers, so its
order is the order of allocation: the model takes any block of it.

The walks of the code (from the back of `bb->variables`, or through a queue) all compute what is
reachable from a set along references; `Reached` says that without an order, as the least set that is
closed. This is exact because a variable only refers to earlier ones (`CodeOk`). One detail is
abstracted: when a block enters itself, `propagate_from_successors` may already see a mark it has set
some iterations before. The model sees it at the next visit, which is certain, because a newly marked
parameter queues the block again.

A program maps each static to one variable per block and passes it to every target (`lifter.cpp:59`,
`:183`), so arguments are not chosen freely. All blocks take the same statics; the blocks without
inputs that `postprocess` appends are entered by returns only.

### Properties and runs

`DeadCode` runs every combination of four bodies (nothing, a move, a computation that may be dead, a
store with an exchange of statics) and a conversion with dynamic rounding mode, branches and jumps to
all blocks, calls with every continuation (so that a call continues in its own target), syscalls and
the ways to leave.

* `LeavesTheNeeded`: whatever order the work list takes, what is left when `dce` ends is the least set
  that holds what side effects read and is closed under operands and arguments. The reference (`Seeds`, `Feeds`,
  `Closed`) is stated of the program as it was handed over; it does not know loops, work lists, reference counts
  or removals.
* `ArgsFollowInputs`: at every step, in every predecessor, arguments are aligned with the target's
  parameters.
* `ReadsArePassed`: nothing left in a block reads a parameter that was removed.
* `NothingDangles`: what is erased has no reader, and is no input.
* `Terminates`, under `WF_vars(Next)`: the compiler is sequential and goes on running.

Two statics are needed to shorten one side of a list and to see a shift; three blocks give a loop a
way in and a way out, and the work list more than one order. `Repeats` is 1 in the runs: see the
hazard at line 326 for what a block listed twice does.

The first loop does not mark the variable an operation takes its rounding mode from, and the work
list does not visit operations that are marked already (section 9). In `DeadCode` the conversion
occurs in blocks where only the work list marks it.

### Proofs (`DeadCodeProofs`)

For every program of the lifter (`CodeOk`), every number of blocks and statics, and every order of the work list:

* `TypeCorrect` and `NothingEverDangles`, for all programs;
* `ArgsAlwaysFollow`, where no block is listed twice as a predecessor (`ListedOnce`; `OnceListed` shows that this is
  what `Repeats = {1}` says);
* `LeavesExactlyTheNeeded` and `ReadsAlwaysPassed`, where in addition the first loop comes upon no variable rounding
  mode that it does not mark anyhow (`RoundingMarked`).

The hypotheses leave out the programs of the two divergences in section 9 and nothing else; the programs of the run
satisfy both. They are about the input only: `preds` and `prog` never change.

The invariant has two parts. `Base` holds for every program: types, `NothingDangles`, what the loops have not
reached yet, and that a parameter that is marked stays (`UsedInputs`) once its block has compared its parameters
with its marks. `Marks` says what the marks are while the work list is in any state: they are closed under the
references of a block (`MarksClosed`), refer to nothing erased (`MarksAlive`), lie in every closed set
(`MarksNeeded`, the upper half of `LeavesTheNeeded`), and whatever enters a marked parameter is marked in each
predecessor *or the predecessor is still in the work list* (`Settled`, the lower half: when the list is empty the
marks are closed). `Settled` is not inductive alone: a block that has to keep its parameters has all of them
(`PinnedKeeps`), a parameter that is gone is never asked for (`Passed`), and arguments are aligned with parameters.
The last loop then sweeps what is neither marked nor has a side effect (`Swept`). The lemmas on sequences
(`Without` keeps what stands at the places not removed, and keeps two lists aligned) are what `remove_indices_sorted`
is relied on for.

`Terminates` is liveness and only model-checked.

## 6. `Translation`: straight-line code, translated and interpreted

### Correspondence

A program is a short run of instructions, lifted to a block; the block may be cut in two, folded and
freed of twins; the code emitted for it is executed on some registers and memory; then the interpreter
runs the same instructions on the same registers and memory. `phase` says where in this sequence the
system is.

| Module | code |
|---|---|
| `Words` | `type.h`, and arithmetic on words of the widths of the types |
| `Ir` | `SSAVar`, `Operation`, `StaticMapper`; a variable is named by its id, `order` is `bb->variables` |
| `Lifting` | `parse_instruction` and every handler of `instructions/*.cpp`; `map` is the mapping, with the statics by number (x0 has none, the memory token is the last one); `LiftNext` is one instruction, `Close` what `lift` does at the end of a block |
| `Splitting` | the second half of `split_basic_block`: which variables move, what takes their place, and the mapping at the cut |
| `ConstFolding` | `const_fold`, `VarRewriter`, `eval.cpp`: `FoldNext` visits one variable, `FoldSwap` exchanges the operands of one |
| `Dedup` | `dedup`: equal operations of a block, each replaced by the first |
| `Emitted` | `compile_vars`, `compile_cf_args` and the control flow of `generator.cpp` without register allocation: `Executed` is what the code of a whole block does to the machine |
| `Interpreter` | one step of the loop of `interpreter.cpp` |

Abstractions: bytes have `ByteBits` bits, so a 64 bit register has 8 (`Integer`) or 24 (`Float`); the
structure of every width (halves, sign bits, shift amounts, exponents) is kept. Memory is `MemBytes` long
and addresses wrap into it. System calls are any function of their arguments. What the processor's
floating point unit computes is a parameter `Fp`, of which the modules only use what IEEE 754 fixes and
the code relies on: classes, comparisons, signs and the rounding mode. An unwritten slot of the stack
holds `Junk`. Dead code elimination, which the driver runs in between, is section 5 and not part of this
sequence; reference counts are left out.

### Properties and runs

* `SameResult`: registers, memory, the next address and whether the program is stopped are those of the
  interpreter, which was written apart from the lifter and the generator. This is the main property: it is broken
  by a wrong handler, a wrong mapping after a cut, a wrong folding, a wrong width in the emitted code.
* `DefinedBeforeUse` (`basic_block.cpp:60`): operands come before their readers, in every block that lifting,
  cutting, folding and deduplication leave.
* `MemoryOrdered`: each access takes the memory token of the store before it, also across a cut.
* `FoldedOperands`: what the comments at `const_folding.cpp:294` and `:389` claim of the order of the pass.
* `NoTwins`: a second pass of `dedup` would find nothing.

| Run | Instance |
|---|---|
| `Integer` | registers of 8 bits, three beside x0. Every integer instruction alone, with destination and operands equal, different or x0; 15 instructions that define a register or memory before 25 that use it, with a jump between them or not; two operations with constants on all sides; casts of extensions; repeated operations |
| `Float` | numbers of 12 and 24 bits with exponents of 4 and 6 bits, three floating point registers. Every floating point and CSR instruction alone, with all signs, exponents and border mantissas for the classes; pairs of the same widths; folded integers that are converted. Checks `SameResult` |
| `FoldedDivision` | violation: `const_folding.cpp:709` exchanges dividend and divisor |

Eight bits are the least that give four nested widths (1, 2, 4 and 8 bits); the values are the borders of
all of them. Two instructions are what a cut has on either side; three are needed for a rule that merges two
operations with constants. The runs take every combination of optimisations that concerns their programs.
There is no liveness here: the code of a block has no loop.

Nothing of this section is proved. A block is built by a fold over what a handler declares, cut, freed of
twins and executed by folds over its variables, and words are sums over their bits: what a fold computes is
known by induction over data, which is beyond the prover. The properties are about the result of these
folds and not about an order of steps, so instances that meet every handler and every rule carry most of
the weight.

## 7. `CallStack` and `ReturnStack`: return addresses

### Correspondence

`CallStack` is the x86-64 stack of a program without register allocation. `Call`, `ICall`, `Return` and
`Resume` (the code behind a call instruction), `Jump`, `IJump` and `Syscall` are the control flow operations
of `generator.cpp`; `Resolve` is `ijump_lookup` and `Interpret` is `unresolved_ijump`. `stack` and `depth` are
what lies between the kernel's data and the frame, `limit` is where the address that `compile_call` compares
rsp with lies relative to the stack, `guest` is the address the guest means to be at, which it chooses freely
for every return and indirect jump: it may return twice, leave calls open or replace its return address.

`ReturnStack` is what the pairs are for: they predict returns to the innermost open call, and any other
return forgets them.

### Properties and runs

`CallStack` runs every program of three blocks with calls, indirect calls, returns and indirect jumps, and
every one with calls, returns, jumps and system calls, on a stack of ten slots (four calls beyond the two of
the kernel and the two zeros), with a limit within the stack (6) and one below it (1000). The latter is what
Linux gives: `stack_space` lies in `.bss`, below every stack address, and calls that never return run beyond
the stack, which ends the process.

* `HostsFollowTheirGuests`: comparing the guest address decides about the host address beside it.
* `RunsWhatIsMeant`: a `ret` on the host address arrives at the block the guest returned to.
* `DirectCallsBalance`: without indirect calls blocks start on an aligned stack of whole pairs, and a limit within
  the stack works.
* `PredictsReturns`: without indirect calls the stack implements `ReturnStack`.

`CallStackIndirect` ends in a violation: an indirect call gives up 8 bytes more than its frame has.

### Proofs (`CallStackProofs`)

From `StackAssumption` alone, for every number of blocks, slots and limits: `TypeCorrect`, `HostsFollow`,
`RunsMeant`, `DirectBalance`, and `Refinement` (`Spec => PredictsReturns`). `Inductive` has five parts: types,
`JunkAbove` (what lies beyond rsp is no host address: without it a push, which overwrites one slot of an old
pair, could leave its other half), `HostsFollowTheirGuests`, `Continues` (the host behind a call
instruction is in a block that calls), and `RunsWhatIsMeant`. `Balanced` is the stronger invariant of programs without indirect
calls: pairs in place above the zeros. For the refinement, `OpenPush` and `OpenCut` say what a call and a
return do to the sequence of open calls that `Open` reads off the stack, and one lemma per kind of step
(`CallPredicts`, `ReturnPredicts`, ...) maps it to a step of `ReturnStack` or a stutter.

## 8. `RegAlloc`: register allocation

### Correspondence

| TLA+ | code |
|---|---|
| `program` | the IR: blocks with inputs, variables and control flow operations; `callTarget`, `callCont`, `needsTrans` are what the lifter and the generator know of a block |
| `gen`, `compiled`, `manual`, `needsTrans` | `BasicBlock::GeneratorInfo`: the input map and frame of each block, and the blocks with `compiled`, `manual_top_level` and `needs_trans_bb` |
| `c.var` | `SSAVar::GeneratorInfo`: location, register or slot, `saved_in_stack`, last use |
| `c.regs`, `c.stack`, `c.frame` | the register maps, the `StackMap` and its largest size in the group |
| `c.inReg`, `c.inSlot`, `c.inStatic` | the machine: which variable's value each register, slot and static holds when the code written so far has been executed |
| `c.reads` | for each operand read by the code just written: the variable meant and the one that is there |
| `path`, `group`, `left` | the recursion of `compile_block` with the loop variable of each call, `assembled_blocks`, and the maps stored with each of them |
| `arrived` | what the last jumps found in the places the target reads its inputs from |

`StartGroup` begins a group in `compile_blocks`; `CompileVar` is one iteration of the loop of `compile_vars` with
every path through it; `FinishVars` ends the block and prepares its control flow (`prepare_cf_ops` and
`generate_input_map`); `Descend` and `Ascend` are the recursion; `FinishGroup` fixes the frame; `CompileCf` writes one control flow operation
of the group with `write_static_mapping`, `write_target_inputs`, the frame change and the translation block it may
need. Integer and floating point registers go through the same operators where the code has the same function
twice.

A value is the variable it belongs to, so any mix-up shows and none is hidden by equal numbers. Widths,
memory tokens and continuation addresses beyond 31 bits are left out. The code writes the blocks of a group
one after another but they run in another order: a jump is checked where it is written, against the
input map of its target, which is complete by then.

### Properties and runs

* `InPlace`: every instruction finds its operands in the registers it names, and for every variable
  still needed the bookkeeping says what the machine holds.
* `InputsArrive`: every way into a block, in its group, from a group with another frame, through a translation
  block, after a call or from the statics, leaves every input where the block looks for it and the stack pointer where it expects it.
* `FrameFits`: no assertion of the allocator fails, and nothing is written behind the frame.
* `LabelsExist`: every label jumped to is printed, and so is the one the jump tables need.

`RegAlloc` runs five shapes of programs: a branch over a block with a loop (`Loop`), a function that
jumps into the middle of another one with a larger or smaller frame (`Shared`), a call whose continuation is also jumped to (`Called`), blocks
without a top-level entry of their own (`Circle`), and a system call continued by a loop (`Sequence`). Their
blocks are filled with eleven integer and six floating point bodies, chosen so that each
needs a path of `compile_vars`: long lives (evictions), divisions and high products (fixed registers),
shifts (by rcx, masked and with BMI2), constants that do and do not fit, comparisons, chains of loads and
stores that are merged, fused multiplications with and without FMA3, and conversions. Blocks pass on what they got,
results, swapped or turned statics, or one variable twice. There are five integer registers (the fixed
ones) and three floating point registers, so that every body with more values evicts; a frame of 14 slots
is larger than any program needs (what is saved beyond it would be read as `Junk`). Each program is compiled without and
with all optimisations. `RegAllocSyscall` ends in a violation: `reg_alloc_multi.cpp:1908` jumps past the
translation block of a continuation that has an input map.

### Proofs (`RegAllocProofs`)

`LabelsAlwaysExist` (`Spec => []LabelsExist`), for any number of registers, statics and slots, any options and all
programs with what the lifter guarantees (`ProgramOk`): targets and continuations name blocks, both are marked as such
(`lifter.cpp:263`, `:287`, `:309`), and what follows a system call does not follow a call as well, as no call ends
where a system call does. TLC evaluates the assumption for the programs of both runs.

The difficulty is that the labels of a block are chosen when it is compiled, from marks of that moment, while jumps
to it are written before and after. The invariant has six parts. `Control`: the blocks, the group and the path
are what they are, and marks are only added. `PathOk`: only the innermost call of `compile_block` has not assembled its block.
`GroupOk`: a group is written when its recursion has returned, and `cf` names an operation of it. `Followed`: what an assembled
block of the group leads to is compiled, is about to be, or *some call of `compile_block` on the path has yet
to look at it*; hence, when the path is empty, every jump inside the group has somewhere to go. `Labelled`: a
block that is begun has printed bN if anything may enter it there, and bN_reg_alloc if it does not begin a group.
`Jumped`: a label that is jumped to is printed, or is bN of a block that by then counts as an entrance; `Labelled`
redeems this when the block is compiled. The step that could break it sets `needs_trans_bb` (`JumpOutOfGroup`): it
does so for a block that is not compiled yet, whose labels are still to be chosen (`JumpReaches`).

Only model-checked: `InPlace`, `InputsArrive` and `FrameFits`. They depend on maps that `compile_vars`,
`write_static_mapping` and `write_target_inputs` carry through loops over the arguments, which the module writes as folds,
and what a fold computes is proved by induction over its sequence, which is beyond the prover. Liveness is not in
question, as every loop is over a vector that does not grow, and the recursion marks a block before it
descends; deadlock is checked.

## 9. Known divergences

What was met while modelling, beside the three violation runs. Each is in the module
as the code has it, unless it says otherwise, and the instance of the passing runs leaves out the
programs that show it.

Lifter:

* `split_basic_block.cpp:62`: a block cut behind an instruction that declares no variable (`FENCE`) ends too
  early, and later jumps behind it are not retargeted.
* `split_basic_block.cpp:93`: a call back into the middle of a block makes the split read a null continuation.
* `lifter.cpp:246`, `:323`: a call to an address without a block keeps the edge to its continuation although it
  becomes `unreachable`.
* `lifter.cpp:42`: the byte offset of the ELF entry indexes an array of half words.
* `lifter.cpp:86`: a block ended by data has no end address; a jump back into its middle traps.
* `lifter.cpp:240`: a reference into `ir->basic_blocks` is used after an append. `lifter.cpp:265`: the continuation of a
  call in the last slot is out of range (`PostCrash`).
* `jump_table.cpp:115`: `idx + i` may equal the size of the data (not in a module).
* `split_basic_block.cpp:38`: `SLT` and `AUIPC` with rd = x0 leave a variable with static id 0, for which a cut
  asserts. A cut through an `SB`, `SH` or `SW` to an address that is an immediate casts it. The variable of a
  rounding mode is not replaced by a cut.
* `amo.cpp:46`: the result keeps the static id of rs2; rd = rs2, rd = rs1 and rs2 = x0 are further cases
  in which lifted and interpreted atomics differ.
* `ziscr.cpp:178`: the field of the rounding mode is masked before it is shifted, so writes to it are lost, and
  reads of the flags mask with 5.
* `cfc.cpp:112`: a return does not clear the lowest bit of its destination.
* `floats.cpp`: `FCLASS.S` makes a 32 bit result of an integer register; `FSD` of a 32 bit variable stores four bytes;
  arithmetic ignores its rounding mode.

Optimisers:

* `dce.cpp:282`: the variable a rounding mode is read from is not marked by the first loop.
* `dce.cpp:326`: a block listed twice as a predecessor is shortened twice.
* `dedup.cpp:38`: an operand that only one of two operations has is skipped when they are compared.
* `const_folding.cpp` may pass a static on as another one, whose slot `unusedStatic` has not loaded
  (`generator.cpp:1021`).

Generator without register allocation:

* `generator.cpp:796`: integer `min` and `max` are swapped (no handler makes them but the atomics).
* `:714`: an unsigned 32 bit division by a negative immediate divides 64 bits.
* `:1169`, `:1080`, `:436`, `:491`: returns, indirect jumps and calls and the seventh argument of a system call read the slot
  of a static that was skipped.
* `:666`: `FLW` reads eight bytes. `:926`: the conversions of unsigned 64 bit integers halve and double. NaN makes
  comparisons true. The rounding mode a conversion sets is never restored.
* `MULHSU` and rounding modes at run time (`:964`) hit an assertion: they are not in the instances.

Interpreter: rounding mode 7 is cached (`interpreter.cpp:190`); `FMSUBD` without FMA adds (`:1049`); `FCVTLUS` reads an
uninitialised half; `FCVTWU` extends with zeros; `FSGNJS` with equal operands copies 64 bits; an AMO with rd = x0
uses x0, one of 64 bits truncates; all CSR numbers name the whole of fcsr (`:142`); loads and divisions with
rd = x0 are skipped, where translated code faults.

Lookup: `helper.cpp:523` divides a pointer difference, which counts entries, by the size of an entry: only the
first eighth of the flat table is consulted.

Register allocation:

* `reg_alloc_multi.cpp:711`: a high product with an immediate leaves the location of the immediate at rdx.
* `:2730`: an immediate evicted from a fixed register gets slot 0 without being saved, and blocks are told to find it there.
* `:2145`, `:2167`: for a variable that is passed twice and is in no register, a free register is copied to the new slot
  without having been loaded.
* `:1852`, `:1970`: the destination of an indirect jump or call, or an argument of a system call, may be in a
  static that has been overwritten.
* `:1340`: the conversion of an unsigned 64 bit integer changes its operand, which may be needed later.
* `:1131`: without FMA3, an addend that is also the first factor is read as the product.
* `:547`: the offset of a merged access is not checked to fit 32 bits.
* `:1269`: before `resolve_dynamic_rounding` only rax, rcx, rdx and rsi are saved.

## 10. Not modelled

The parsing of ELF bytes, the decoding of instructions by the external `frvdec`, the printing of IR
and assembly, and the driver: input and output without state of interest. The translation of system call
numbers and structures (`rv64_syscalls.cpp`) is a function per call that TLC has nothing to add to; the copied
stack and the bytes of a jump table likewise. How backtracking finds addresses is the next module of the plan;
`LifterCFG` lets it find any. Reference counts are derived, not kept. `components` in `PROJECT.json` has the status
of each part.

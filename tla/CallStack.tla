----------------------------- MODULE CallStack -----------------------------
(***************************************************************************)
(* The x86-64 stack of a program translated without register allocation    *)
(* (generator.cpp): what calls, returns and jumps of the guest leave on it *)
(* between the frames of the basic blocks.  Every call pushes the guest    *)
(* address of its continuation and the host address behind the call        *)
(* instruction; a return compares its destination with the first and, if   *)
(* they are equal, executes `ret` on the second.                           *)
(*                                                                         *)
(* A slot is 8 bytes.  The stack grows with depth; the slots above depth   *)
(* belong to the frames of blocks and hold Junk.  Frames are multiples of  *)
(* 16 bytes and gone before control leaves the block, so they do not       *)
(* count.  An even depth is an rsp aligned to 16 bytes.                    *)
(***************************************************************************)
EXTENDS Integers, SequencesExt

CONSTANTS
    Blocks,         \* basic blocks with an original address
    Outside,        \* guest addresses that start no block
    NoBlock,
    Programs,       \* the control flow operation of each block: Blocks -> Operations
    Data,           \* slots the kernel left above: argc, argv, ...
    Slots,          \* slots of the process's stack
    Limits          \* depths beyond which `cmp rsp, stack_space + 524288` is below

Addresses == Blocks \union Outside

Kinds == {"jump", "ijump", "call", "icall", "return", "syscall"}

Operations == [kind : Kinds, target : Blocks \union {NoBlock}, next : Blocks \union {NoBlock}]

ASSUME StackAssumption ==
    /\ Data \in Nat /\ Data % 2 = 0
    /\ Slots \in Nat /\ Slots >= Data + 4
    /\ Limits \subseteq Nat
    /\ NoBlock \notin Addresses
    /\ Programs \subseteq [Blocks -> Operations]
    /\ \A ops \in Programs, b \in Blocks :
        /\ ops[b].kind \in {"jump", "call"} => ops[b].target \in Blocks
        /\ ops[b].kind \in {"call", "icall", "syscall"} => ops[b].next \in Blocks

VARIABLES
    ops,            \* the translated program
    limit,          \* where stack_space lies relative to the process's stack
    stack, depth,   \* what rsp points to and above it
    host,           \* where the x86-64 code is
    guest           \* the address at which the guest means to be

vars == <<ops, limit, stack, depth, host, guest>>

-----------------------------------------------------------------------------
(* What lies on the stack and where the host can be. *)

Zero == [is |-> "zero", block |-> NoBlock]
Kernel == [is |-> "data", block |-> NoBlock]
Junk == [is |-> "junk", block |-> NoBlock]
\* The original address of block b, pushed as a number.
Guest(b) == [is |-> "guest", block |-> b]
\* The address behind the call instruction at the end of block b.
Host(b) == [is |-> "host", block |-> b]

Entries == {Zero, Kernel, Junk} \union {Guest(b) : b \in Blocks} \union {Host(b) : b \in Blocks}

At(point, b) == [at |-> point, block |-> b]
Lookup == At("lookup", NoBlock)
Handler == At("interpreter", NoBlock)
Fault == At("fault", NoBlock)
Exited == At("exit", NoBlock)

Hosts == {Lookup, Handler, Fault, Exited} \union {At("block", b) : b \in Blocks} \union {At("return", b) : b \in Blocks}

\* init_ret_stack_ptr: rsp once the two zeros are pushed.
Initial == Data + 2

\* The slots up to d stay, everything behind belongs to frames.
Kept(d) == [i \in 1..Slots |-> IF i <= d THEN stack[i] ELSE Junk]

\* Slot i, read through rsp.  Behind the model's first slot lies more of the kernel's data.
Slot(i) == IF i \in 1..Slots THEN stack[i] ELSE Kernel

-----------------------------------------------------------------------------
(* The mutated forms of what follows. *)

\* A call that leaves the limit unchecked.
BaseUnchecked == depth

\* A return that does not look.
MatchesAlways(d) == d \in Blocks

\* A return that gives up one pair too few.
ForgottenLate == depth

\* A call that pushes the addresses the other way round.
PairSwapped(base, b) == [Kept(base) EXCEPT ![base + 1] = Host(b), ![base + 2] = Guest(ops[b].next)]

\* A call that pushes the address of its target.
PairOfTarget(base, b) == [Kept(base) EXCEPT ![base + 1] = Guest(ops[b].target), ![base + 2] = Host(b)]

-----------------------------------------------------------------------------
(* compile_entry, and the control flow at the end of block b. *)

Init ==
    /\ ops \in Programs
    /\ limit \in Limits
    /\ stack = [i \in 1..Slots |-> IF i <= Data THEN Kernel ELSE IF i <= Initial THEN Zero ELSE Junk]
    /\ depth = Initial
    /\ guest \in Blocks
    /\ host = At("block", guest)

Ends(b, kind) == host = At("block", b) /\ ops[b].kind = kind

Jump(b) ==
    /\ Ends(b, "jump")
    /\ guest' = ops[b].target
    /\ host' = At("block", guest')
    /\ UNCHANGED <<ops, limit, stack, depth>>

\* The lookup gets whatever address the guest computed.
IJump(b) ==
    /\ Ends(b, "ijump")
    /\ guest' \in Addresses
    /\ host' = Lookup
    /\ UNCHANGED <<ops, limit, stack, depth>>

\* prevent overflow: rsp below the limit goes back to init_ret_stack_ptr.
Base == IF depth > limit THEN Initial ELSE depth

\* The pair of return addresses that block b pushes.
Pair(base, b) == [Kept(base) EXCEPT ![base + 1] = Guest(ops[b].next), ![base + 2] = Host(b)]

\* A push beyond the last slot of the process's stack faults, the guest goes nowhere.
Overflow == host' = Fault /\ UNCHANGED <<stack, depth, guest>>

Call(b) ==
    /\ Ends(b, "call")
    /\ \/ Base + 2 > Slots /\ Overflow
       \/ /\ Base + 2 <= Slots
          /\ stack' = Pair(Base, b)
          /\ depth' = Base + 2
          /\ guest' = ops[b].target
          /\ host' = At("block", guest')
    /\ UNCHANGED <<ops, limit>>

\* `add rsp, stack_size + 8`: the slot below the frame goes with the frame.
ICallBase == depth - 1

ICall(b) ==
    /\ Ends(b, "icall")
    /\ \/ ICallBase \notin 0 .. Slots - 2 /\ Overflow
       \/ /\ ICallBase \in 0 .. Slots - 2
          /\ stack' = Pair(ICallBase, b)
          /\ depth' = ICallBase + 2
          /\ guest' \in Addresses
          /\ host' = Lookup
    /\ UNCHANGED <<ops, limit>>

\* cmp [rsp + 8], rax
Matches(d) == d \in Blocks /\ Slot(depth - 1) = Guest(d)

\* mov rsp, [init_ret_stack_ptr]
Forgotten == Initial

Return(b) ==
    /\ Ends(b, "return")
    /\ guest' \in Addresses
    /\ \/ /\ Matches(guest')
          /\ host' = IF Slot(depth).is = "host" THEN At("return", Slot(depth).block) ELSE Fault
          /\ stack' = Kept(depth - 1)
          /\ depth' = depth - 1
       \/ /\ ~ Matches(guest')
          /\ host' = Lookup
          /\ stack' = Kept(Forgotten)
          /\ depth' = Forgotten
    /\ UNCHANGED <<ops, limit>>

\* Behind a call: `add rsp, 8`, then the jump to the continuation.
Resume(b) ==
    /\ host = At("return", b)
    /\ depth > 0
    /\ host' = At("block", ops[b].next)
    /\ stack' = Kept(depth - 1)
    /\ depth' = depth - 1
    /\ UNCHANGED <<ops, limit, guest>>

\* syscall_impl gets 16 bytes of stack and gives them back, unless it exits.
Syscall(b) ==
    /\ Ends(b, "syscall")
    /\ \/ guest' = ops[b].next /\ host' = At("block", guest')
       \/ UNCHANGED guest /\ host' = Exited
    /\ UNCHANGED <<ops, limit, stack, depth>>

\* ijump_lookup jumps to the block of the address, or to the interpreter.
Resolve ==
    /\ host = Lookup
    /\ host' = IF guest \in Blocks THEN At("block", guest) ELSE Handler
    /\ UNCHANGED <<ops, limit, stack, depth, guest>>

\* unresolved_ijump: the interpreter runs the guest until it reaches a block.
Interpret ==
    /\ host = Handler
    /\ guest' \in Blocks
    /\ host' = At("block", guest')
    /\ UNCHANGED <<ops, limit, stack, depth>>

\* A program that exited or faulted is gone.
Gone == host \in {Fault, Exited} /\ UNCHANGED vars

Next ==
    \/ \E b \in Blocks :
        Jump(b) \/ IJump(b) \/ Call(b) \/ ICall(b) \/ Return(b) \/ Resume(b) \/ Syscall(b)
    \/ Resolve
    \/ Interpret
    \/ Gone

Spec == Init /\ [][Next]_vars

-----------------------------------------------------------------------------
(* Properties *)

\* The state stays within the values the model gives it.
TypeOK ==
    /\ ops \in Programs
    /\ limit \in Limits
    /\ stack \in [1..Slots -> Entries]
    /\ depth \in 0..Slots
    /\ host \in Hosts
    /\ guest \in Addresses

\* A host return address always lies right behind the guest address of its own continuation
\* (compile_call and compile_icall push the two together): whatever the guest did in between,
\* comparing the one decides about the other.
HostsFollowTheirGuests ==
    \A i \in 1..depth : stack[i].is = "host" =>
        i > 1 /\ stack[i - 1] = Guest(ops[stack[i].block].next)

\* The host runs the block the guest means to run.  After `ret` and the jump behind the call
\* (compile_ret, compile_call) that is the block of the address the guest returned to, even if
\* the guest replaced its return address or left calls open.
RunsWhatIsMeant ==
    /\ host.at = "block" => guest = host.block
    /\ host.at = "return" => guest = ops[host.block].next

\* The program has no indirect call.
Direct == \A b \in Blocks : ops[b].kind # "icall"

\* A block starts with rsp aligned to 16 bytes, as the C++ code behind syscall_impl and the
\* interpreter need it, with the initial zeros below it, and with a host return address or the
\* zeros on top (compile_ret destroys the frame and leaves only the return addresses).
OnReturnAddresses ==
    host.at \in {"block", "lookup", "interpreter"} =>
        /\ depth % 2 = 0
        /\ depth >= Initial
        /\ depth > Initial => stack[depth].is = "host"

\* Without indirect calls that holds, and no return leaves the program's own code; if the limit
\* lies within the stack, calls that are never returned from do not run beyond its end.
DirectCallsBalance ==
    Direct => /\ OnReturnAddresses
              /\ host = Fault => limit + 2 > Slots

\* The guest addresses of the pairs, as long as they lie in pairs.
Open ==
    IF Direct THEN [k \in 1 .. (depth - Initial) \div 2 |-> stack[Initial + 2 * k - 1].block]
    ELSE << >>

\* Without indirect calls the stack predicts returns as ReturnStack says: a return to the
\* innermost open call goes through the stack, any other one forgets all of them.
Predictor == INSTANCE ReturnStack WITH
    open <- Open,
    returning <- Direct /\ host.at = "block" /\ ops[host.block].kind = "return",
    predicted <- Direct /\ host.at = "return"

PredictsReturns == Predictor!Spec
=============================================================================

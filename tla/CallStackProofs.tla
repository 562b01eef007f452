-------------------------- MODULE CallStackProofs --------------------------
(***************************************************************************)
(* Theorems about CallStack, for every program, every number of blocks and *)
(* every size of the stack.                                                *)
(***************************************************************************)
EXTENDS CallStack, SequenceTheorems, TLAPS

-----------------------------------------------------------------------------
(* The inductive invariant. *)

\* What lies above the stack pointer belongs to frames that are gone.
JunkAbove == \A i \in 1..Slots : i > depth => stack[i] = Junk

\* A return through the stack arrives behind a call that has a continuation.
Continues == host.at = "return" => ops[host.block].next \in Blocks

Inv ==
    /\ TypeOK
    /\ JunkAbove
    /\ HostsFollowTheirGuests
    /\ Continues
    /\ RunsWhatIsMeant

USE DEF At, Lookup, Handler, Fault, Exited

-----------------------------------------------------------------------------
(* The stack. *)

LEMMA Bounds ==
    /\ Data \in Nat /\ Slots \in Nat /\ Initial \in Nat
    /\ Initial = Data + 2 /\ Initial + 2 <= Slots /\ Initial % 2 = 0
BY StackAssumption DEF Initial

LEMMA Distinct ==
    ASSUME NEW b, NEW c
    PROVE  /\ Guest(b) = Guest(c) <=> b = c
           /\ Host(b) = Host(c) <=> b = c
           /\ Guest(b).is = "guest" /\ Guest(b).block = b
           /\ Host(b).is = "host" /\ Host(b).block = b
           /\ Junk.is = "junk" /\ Zero.is = "zero" /\ Kernel.is = "data"
BY DEF Guest, Host, Junk, Zero, Kernel

\* The entries are told apart by what they are.
LEMMA EntryIs ==
    ASSUME NEW e \in Entries
    PROVE  /\ e.is = "host" => e.block \in Blocks /\ e = Host(e.block)
           /\ e.is = "guest" => e.block \in Blocks /\ e = Guest(e.block)
BY Distinct DEF Entries, Guest, Host, Junk, Zero, Kernel

\* What is kept of the stack.
LEMMA KeptStack ==
    ASSUME TypeOK, JunkAbove, HostsFollowTheirGuests,
           NEW d \in 0..Slots
    PROVE  /\ Kept(d) \in [1..Slots -> Entries]
           /\ \A i \in 1..Slots : i > d => Kept(d)[i] = Junk
           /\ \A i \in 1..Slots : i <= d => Kept(d)[i] = stack[i]
           /\ \A i \in 1..Slots : Kept(d)[i].is = "host" =>
                i > 1 /\ Kept(d)[i - 1] = Guest(ops[Kept(d)[i].block].next)
<1>1. Junk \in Entries
  BY DEF Entries
<1>2. Kept(d) \in [1..Slots -> Entries]
  BY <1>1 DEF Kept, TypeOK
<1>3. \A i \in 1..Slots : (i > d => Kept(d)[i] = Junk) /\ (i <= d => Kept(d)[i] = stack[i])
  BY Bounds DEF Kept
<1>4. ASSUME NEW i \in 1..Slots, Kept(d)[i].is = "host"
      PROVE  i > 1 /\ Kept(d)[i - 1] = Guest(ops[Kept(d)[i].block].next)
  <2>1. i <= d /\ stack[i].is = "host" /\ Kept(d)[i] = stack[i]
    BY <1>3, <1>4, Distinct, Bounds
  <2>2. i <= depth
    BY <2>1, Distinct, Bounds DEF JunkAbove, TypeOK
  <2>3. i > 1 /\ stack[i - 1] = Guest(ops[stack[i].block].next)
    BY <2>1, <2>2, Bounds DEF HostsFollowTheirGuests, TypeOK
  <2>4. Kept(d)[i - 1] = stack[i - 1]
    BY <1>3, <2>1, <2>3, Bounds
  <2>. QED BY <2>1, <2>3, <2>4
<1>. QED BY <1>2, <1>3, <1>4

\* A pair of return addresses is pushed.
LEMMA PairStack ==
    ASSUME TypeOK, JunkAbove, HostsFollowTheirGuests,
           NEW base \in 0 .. Slots - 2, NEW b \in Blocks, ops[b].next \in Blocks
    PROVE  /\ Pair(base, b) \in [1..Slots -> Entries]
           /\ \A i \in 1..Slots : i > base + 2 => Pair(base, b)[i] = Junk
           /\ \A i \in 1..Slots : i <= base => Pair(base, b)[i] = Kept(base)[i]
           /\ Pair(base, b)[base + 1] = Guest(ops[b].next)
           /\ Pair(base, b)[base + 2] = Host(b)
           /\ \A i \in 1..Slots : Pair(base, b)[i].is = "host" =>
                i > 1 /\ Pair(base, b)[i - 1] = Guest(ops[Pair(base, b)[i].block].next)
<1>. DEFINE K == Kept(base)  P == Pair(base, b)
<1>1. base \in 0..Slots /\ base + 1 \in 1..Slots /\ base + 2 \in 1..Slots
  BY Bounds
<1>2. /\ K \in [1..Slots -> Entries]
      /\ \A i \in 1..Slots : i > base => K[i] = Junk
      /\ \A i \in 1..Slots : K[i].is = "host" => i > 1 /\ K[i - 1] = Guest(ops[K[i].block].next)
  BY <1>1, KeptStack
<1>3. Guest(ops[b].next) \in Entries /\ Host(b) \in Entries
  BY DEF Entries
<1>4. P = [K EXCEPT ![base + 1] = Guest(ops[b].next), ![base + 2] = Host(b)]
  BY DEF Pair
<1>. HIDE DEF K, P
<1>5. /\ P \in [1..Slots -> Entries]
      /\ P[base + 1] = Guest(ops[b].next) /\ P[base + 2] = Host(b)
      /\ \A i \in 1..Slots : i \notin {base + 1, base + 2} => P[i] = K[i]
  BY <1>1, <1>2, <1>3, <1>4
<1>6. ASSUME NEW i \in 1..Slots, P[i].is = "host"
      PROVE  i > 1 /\ P[i - 1] = Guest(ops[P[i].block].next)
  <2>1. CASE i = base + 2
    BY <2>1, <1>1, <1>5, Distinct
  <2>2. CASE i # base + 2
    <3>1. i # base + 1
      BY <1>5, <1>6, Distinct
    <3>2. P[i] = K[i]
      BY <1>5, <2>2, <3>1
    <3>3. i <= base
      <4>1. K[i].is = "host" /\ Junk.is = "junk"
        BY <1>6, <3>2 DEF Junk
      <4>2. ~ (i > base)
        BY <1>2, <4>1
      <4>. QED BY <4>2, Bounds
    <3>4. i > 1 /\ K[i - 1] = Guest(ops[K[i].block].next)
      BY <1>2, <1>6, <3>2
    <3>5. P[i - 1] = K[i - 1]
      BY <1>5, <3>3, <3>4, Bounds
    <3>. QED BY <3>2, <3>4, <3>5
  <2>. QED BY <2>1, <2>2
<1>7. \A i \in 1..Slots : i > base + 2 => P[i] = Junk
  BY <1>1, <1>2, <1>5, Bounds
<1>8. \A i \in 1..Slots : i <= base => P[i] = K[i]
  BY <1>1, <1>5, Bounds
<1>. QED BY <1>5, <1>6, <1>7, <1>8 DEF K, P

-----------------------------------------------------------------------------
(* The invariant. *)

LEMMA Continuations ==
    ASSUME TypeOK, NEW b \in Blocks
    PROVE  /\ ops[b].kind \in {"jump", "call"} => ops[b].target \in Blocks
           /\ ops[b].kind \in {"call", "icall", "syscall"} => ops[b].next \in Blocks
BY StackAssumption DEF TypeOK

LEMMA InitInv == Init => Inv
<1>. SUFFICES ASSUME Init PROVE Inv
  OBVIOUS
<1>1. Initial \in 0..Slots /\ guest \in Addresses /\ host \in Hosts
  BY Bounds DEF Init, Hosts, Addresses
<1>2. stack \in [1..Slots -> Entries]
  BY DEF Init, Entries
<1>3. \A i \in 1..Slots : stack[i].is # "host"
  BY DEF Init, Kernel, Zero, Junk
<1>4. \A i \in 1..Slots : i > depth => stack[i] = Junk
  BY Bounds DEF Init
<1>5. \A i \in 1..depth : i \in 1..Slots
  BY <1>1, Bounds DEF Init
<1>6. HostsFollowTheirGuests
  BY <1>3, <1>5 DEF HostsFollowTheirGuests
<1>. QED BY <1>1, <1>2, <1>4, <1>6 DEF Init, Inv, TypeOK, JunkAbove, Continues, RunsWhatIsMeant

\* Control moves to a block or to the lookup, the stack stays.
LEMMA SameStackInv ==
    ASSUME Inv, UNCHANGED <<ops, limit, stack, depth>>, guest' \in Addresses, host' \in Hosts,
           Continues', RunsWhatIsMeant'
    PROVE  Inv'
BY DEF Inv, TypeOK, JunkAbove, HostsFollowTheirGuests

\* The stack is cut off at d.
LEMMA CutInv ==
    ASSUME Inv, NEW d \in 0..Slots, UNCHANGED <<ops, limit>>, stack' = Kept(d), depth' = d,
           guest' \in Addresses, host' \in Hosts, Continues', RunsWhatIsMeant'
    PROVE  Inv'
<1>1. /\ stack' \in [1..Slots -> Entries]
      /\ \A i \in 1..Slots : i > d => stack'[i] = Junk
      /\ \A i \in 1..Slots : stack'[i].is = "host" => i > 1 /\ stack'[i - 1] = Guest(ops[stack'[i].block].next)
  BY KeptStack DEF Inv
<1>2. HostsFollowTheirGuests'
  BY <1>1, Bounds DEF HostsFollowTheirGuests, Guest
<1>. QED BY <1>1, <1>2 DEF Inv, TypeOK, JunkAbove

\* A pair is pushed at base.
LEMMA PushInv ==
    ASSUME Inv, NEW base \in 0 .. Slots - 2, NEW b \in Blocks, ops[b].next \in Blocks,
           UNCHANGED <<ops, limit>>, stack' = Pair(base, b), depth' = base + 2,
           guest' \in Addresses, host' \in Hosts, Continues', RunsWhatIsMeant'
    PROVE  Inv'
<1>1. /\ stack' \in [1..Slots -> Entries]
      /\ \A i \in 1..Slots : i > base + 2 => stack'[i] = Junk
      /\ \A i \in 1..Slots : stack'[i].is = "host" => i > 1 /\ stack'[i - 1] = Guest(ops[stack'[i].block].next)
  BY PairStack DEF Inv
<1>2. depth' \in 0..Slots
  BY Bounds
<1>3. HostsFollowTheirGuests'
  BY <1>1, <1>2, Bounds DEF HostsFollowTheirGuests, Guest
<1>. QED BY <1>1, <1>2, <1>3 DEF Inv, TypeOK, JunkAbove

LEMMA OverflowInv == ASSUME Inv, Overflow, UNCHANGED <<ops, limit>> PROVE Inv'
BY SameStackInv DEF Overflow, Inv, TypeOK, Hosts, Continues, RunsWhatIsMeant

LEMMA JumpInv == ASSUME Inv, NEW b \in Blocks, Jump(b) PROVE Inv'
<1>1. guest' \in Blocks /\ host' = At("block", guest')
  BY Continuations DEF Jump, Ends, Inv
<1>. QED BY <1>1, SameStackInv DEF Jump, Hosts, Addresses, Continues, RunsWhatIsMeant

LEMMA IJumpInv == ASSUME Inv, NEW b \in Blocks, IJump(b) PROVE Inv'
BY SameStackInv DEF IJump, Hosts, Continues, RunsWhatIsMeant

LEMMA BaseIn == ASSUME TypeOK PROVE Base \in 0..Slots
BY Bounds DEF Base, TypeOK

LEMMA CallInv == ASSUME Inv, NEW b \in Blocks, Call(b) PROVE Inv'
<1>1. ops[b].target \in Blocks /\ ops[b].next \in Blocks
  BY Continuations DEF Call, Ends, Inv
<1>2. CASE Base + 2 > Slots /\ Overflow
  BY <1>2, OverflowInv DEF Call
<1>3. CASE Base + 2 <= Slots /\ ~ Overflow
  <2>1. Base \in 0 .. Slots - 2
    BY <1>3, BaseIn, Bounds DEF Inv
  <2>2. guest' \in Blocks /\ host' = At("block", guest') /\ stack' = Pair(Base, b) /\ depth' = Base + 2
    BY <1>1, <1>3 DEF Call
  <2>. QED BY <1>1, <2>1, <2>2, PushInv DEF Call, Hosts, Addresses, Continues, RunsWhatIsMeant
<1>4. CASE Base + 2 <= Slots /\ Overflow
  BY <1>4, OverflowInv DEF Call
<1>. QED BY <1>2, <1>3, <1>4 DEF Call

LEMMA ICallInv == ASSUME Inv, NEW b \in Blocks, ICall(b) PROVE Inv'
<1>1. ops[b].next \in Blocks
  BY Continuations DEF ICall, Ends, Inv
<1>2. CASE Overflow
  BY <1>2, OverflowInv DEF ICall
<1>3. CASE ~ Overflow
  <2>1. /\ ICallBase \in 0 .. Slots - 2 /\ stack' = Pair(ICallBase, b) /\ depth' = ICallBase + 2
        /\ guest' \in Addresses /\ host' = Lookup
    BY <1>3 DEF ICall
  <2>. QED BY <1>1, <2>1, PushInv DEF ICall, Hosts, Continues, RunsWhatIsMeant
<1>. QED BY <1>2, <1>3

\* What a return finds that looks at the stack and is satisfied.
LEMMA Matched ==
    ASSUME TypeOK, HostsFollowTheirGuests, NEW d, Matches(d)
    PROVE  /\ d \in Blocks /\ depth \in 2..Slots /\ stack[depth - 1] = Guest(d)
           /\ Slot(depth) = stack[depth]
           /\ stack[depth].is = "host" => stack[depth].block \in Blocks /\ ops[stack[depth].block].next = d
<1>1. d \in Blocks /\ Slot(depth - 1) = Guest(d) /\ depth \in 0..Slots
  BY DEF Matches, TypeOK
<1>2. depth - 1 \in 1..Slots
  BY <1>1 DEF Slot, Guest, Kernel
<1>3. depth \in 2..Slots /\ depth \in 1..depth
  BY <1>1, <1>2, Bounds
<1>4. stack[depth - 1] = Guest(d) /\ Slot(depth) = stack[depth]
  BY <1>1, <1>2, <1>3, Bounds DEF Slot
<1>5. ASSUME stack[depth].is = "host"
      PROVE  stack[depth].block \in Blocks /\ ops[stack[depth].block].next = d
  <2>1. stack[depth - 1] = Guest(ops[stack[depth].block].next)
    BY <1>3, <1>5 DEF HostsFollowTheirGuests
  <2>2. stack[depth] \in Entries
    BY <1>3, Bounds DEF TypeOK
  <2>. QED BY <1>4, <1>5, <2>1, <2>2, EntryIs DEF Guest
<1>. QED BY <1>1, <1>3, <1>4, <1>5

LEMMA ReturnInv == ASSUME Inv, NEW b \in Blocks, Return(b) PROVE Inv'
<1>1. CASE Matches(guest')
  <2>1. /\ guest' \in Addresses /\ stack' = Kept(depth - 1) /\ depth' = depth - 1 /\ UNCHANGED <<ops, limit>>
        /\ host' = IF Slot(depth).is = "host" THEN At("return", Slot(depth).block) ELSE Fault
    BY <1>1 DEF Return
  <2>2. /\ guest' \in Blocks /\ depth - 1 \in 0..Slots
        /\ Slot(depth).is = "host" => Slot(depth).block \in Blocks /\ ops[Slot(depth).block].next = guest'
    BY <1>1, Matched, Bounds DEF Inv
  <2>3. host' \in Hosts /\ Continues' /\ RunsWhatIsMeant'
    BY <2>1, <2>2 DEF Hosts, Continues, RunsWhatIsMeant
  <2>. QED BY <2>1, <2>2, <2>3, CutInv
<1>2. CASE ~ Matches(guest')
  <2>1. /\ guest' \in Addresses /\ stack' = Kept(Initial) /\ depth' = Initial /\ UNCHANGED <<ops, limit>>
        /\ host' = Lookup
    BY <1>2 DEF Return, Forgotten
  <2>. QED BY <2>1, CutInv, Bounds DEF Hosts, Continues, RunsWhatIsMeant
<1>. QED BY <1>1, <1>2

LEMMA ResumeInv == ASSUME Inv, NEW b \in Blocks, Resume(b) PROVE Inv'
<1>1. depth - 1 \in 0..Slots
  BY Bounds DEF Resume, Inv, TypeOK
<1>2. ops[b].next \in Blocks /\ guest = ops[b].next /\ host' = At("block", ops[b].next) /\ UNCHANGED guest
  BY DEF Resume, Inv, Continues, RunsWhatIsMeant
<1>. QED BY <1>1, <1>2, CutInv DEF Resume, Hosts, Addresses, Continues, RunsWhatIsMeant

LEMMA SyscallInv == ASSUME Inv, NEW b \in Blocks, Syscall(b) PROVE Inv'
<1>1. ops[b].next \in Blocks /\ guest \in Addresses
  BY Continuations DEF Syscall, Ends, Inv, TypeOK
<1>. QED BY <1>1, SameStackInv DEF Syscall, Hosts, Addresses, Continues, RunsWhatIsMeant

LEMMA ResolveInv == ASSUME Inv, Resolve PROVE Inv'
BY SameStackInv DEF Resolve, Hosts, Inv, TypeOK, Continues, RunsWhatIsMeant

LEMMA InterpretInv == ASSUME Inv, Interpret PROVE Inv'
BY SameStackInv DEF Interpret, Hosts, Addresses, Continues, RunsWhatIsMeant

LEMMA StepInv == Inv /\ [Next]_vars => Inv'
<1>. SUFFICES ASSUME Inv, [Next]_vars PROVE Inv'
  OBVIOUS
<1>1. ASSUME NEW b \in Blocks, Jump(b) PROVE Inv'
  BY <1>1, JumpInv
<1>2. ASSUME NEW b \in Blocks, IJump(b) PROVE Inv'
  BY <1>2, IJumpInv
<1>3. ASSUME NEW b \in Blocks, Call(b) PROVE Inv'
  BY <1>3, CallInv
<1>4. ASSUME NEW b \in Blocks, ICall(b) PROVE Inv'
  BY <1>4, ICallInv
<1>5. ASSUME NEW b \in Blocks, Return(b) PROVE Inv'
  BY <1>5, ReturnInv
<1>6. ASSUME NEW b \in Blocks, Resume(b) PROVE Inv'
  BY <1>6, ResumeInv
<1>7. ASSUME NEW b \in Blocks, Syscall(b) PROVE Inv'
  BY <1>7, SyscallInv
<1>8. CASE Resolve
  BY <1>8, ResolveInv
<1>9. CASE Interpret
  BY <1>9, InterpretInv
<1>10. CASE UNCHANGED vars
  BY <1>10 DEF vars, Inv, TypeOK, JunkAbove, HostsFollowTheirGuests, Continues, RunsWhatIsMeant
<1>. QED BY <1>1, <1>2, <1>3, <1>4, <1>5, <1>6, <1>7, <1>8, <1>9, <1>10 DEF Next, Gone

\* The inductive invariant, for every program and every behaviour of the guest.
THEOREM Inductive == Spec => []Inv
BY InitInv, StepInv, PTL DEF Spec

\* No step leaves the values the model gives the stack and the host.
THEOREM TypeCorrect == Spec => []TypeOK
<1>1. Inv => TypeOK
  BY DEF Inv
<1>. QED BY <1>1, Inductive, PTL

\* compile_call and compile_icall: the guest address below a host return address is the one
\* its call continues at, whatever the guest did in between.
THEOREM HostsFollow == Spec => []HostsFollowTheirGuests
<1>1. Inv => HostsFollowTheirGuests
  BY DEF Inv
<1>. QED BY <1>1, Inductive, PTL

\* compile_ret: the host goes where the guest means to go, with direct and indirect calls.
THEOREM RunsMeant == Spec => []RunsWhatIsMeant
<1>1. Inv => RunsWhatIsMeant
  BY DEF Inv
<1>. QED BY <1>1, Inductive, PTL
-----------------------------------------------------------------------------
(* Programs without indirect calls. *)

\* Above the kernel's data and the zeros lie pairs; only between the two steps of a return
\* is one of them half gone.
Balanced ==
    Direct =>
        /\ depth >= Initial
        /\ host.at = "return" <=> depth % 2 = 1
        /\ \A i \in 1..Initial : stack[i].is \notin {"guest", "host"}
        /\ \A i \in Initial + 1 .. depth : stack[i].is = IF i % 2 = 1 THEN "guest" ELSE "host"
        /\ host.at = "fault" => limit + 2 > Slots

\* The facts about numbers the proofs need.
LEMMA Parity ==
    ASSUME NEW d \in Nat
    PROVE  /\ d % 2 \in {0, 1}
           /\ d % 2 = 0 => (d + 1) % 2 = 1 /\ (d + 2) % 2 = 0
           /\ d > 0 /\ d % 2 = 1 => (d - 1) % 2 = 0
           /\ d > 0 /\ d % 2 = 0 => (d - 1) % 2 = 1
OBVIOUS

LEMMA InitBalanced == Init => Balanced
<1>. SUFFICES ASSUME Init, Direct PROVE Balanced
  BY DEF Balanced
<1>1. \A i \in 1..Initial : stack[i].is \notin {"guest", "host"}
  BY Bounds DEF Init, Kernel, Zero
<1>2. \A i \in Initial + 1 .. depth : FALSE
  BY Bounds DEF Init
<1>. QED BY <1>1, <1>2, Bounds DEF Balanced, Init

\* The stack is cut off at d.
LEMMA CutBalanced ==
    ASSUME Inv, Balanced, Direct, NEW d \in Initial..depth, UNCHANGED <<ops, limit>>,
           stack' = Kept(d), depth' = d, host'.at = "return" <=> d % 2 = 1, host'.at # "fault"
    PROVE  Balanced'
<1>1. d \in 0..Slots /\ Initial \in 0..Slots /\ depth \in 0..Slots
  BY Bounds DEF Inv, TypeOK
<1>2. \A i \in 1..Slots : i <= d => stack'[i] = stack[i]
  BY <1>1, KeptStack DEF Inv
<1>3. \A i \in 1..Initial : i \in 1..Slots /\ i <= d
  BY <1>1, Bounds
<1>4. \A i \in Initial + 1 .. d : i \in 1..Slots /\ i <= d /\ i \in Initial + 1 .. depth
  BY <1>1, Bounds
<1>. QED BY <1>1, <1>2, <1>3, <1>4 DEF Balanced

\* A pair is pushed at base.
LEMMA PushBalanced ==
    ASSUME Inv, Balanced, Direct, NEW base \in Initial..depth, base % 2 = 0, base + 2 <= Slots,
           NEW b \in Blocks, ops[b].next \in Blocks, UNCHANGED <<ops, limit>>,
           stack' = Pair(base, b), depth' = base + 2, host'.at \notin {"return", "fault"}
    PROVE  Balanced'
<1>1. base \in 0 .. Slots - 2 /\ base \in 0..Slots /\ depth \in 0..Slots
  BY Bounds DEF Inv, TypeOK
<1>2. /\ \A i \in 1..Slots : i <= base => stack'[i] = Kept(base)[i]
      /\ stack'[base + 1] = Guest(ops[b].next) /\ stack'[base + 2] = Host(b)
  BY <1>1, PairStack DEF Inv
<1>3. \A i \in 1..Slots : i <= base => Kept(base)[i] = stack[i]
  BY <1>1, KeptStack DEF Inv
<1>4. \A i \in 1..Initial : i \in 1..Slots /\ i <= base
  BY <1>1, Bounds
<1>5. ASSUME NEW i \in Initial + 1 .. base + 2
      PROVE  stack'[i].is = IF i % 2 = 1 THEN "guest" ELSE "host"
  <2>1. CASE i <= base
    <3>1. i \in 1..Slots /\ i \in Initial + 1 .. depth
      BY <1>1, <2>1, Bounds
    <3>. QED BY <1>2, <1>3, <2>1, <3>1 DEF Balanced
  <2>2. CASE i = base + 1
    BY <1>1, <1>2, <2>2, Parity DEF Guest
  <2>3. CASE i = base + 2
    BY <1>1, <1>2, <2>3, Parity DEF Host
  <2>. QED BY <2>1, <2>2, <2>3, <1>1, Bounds
<1>6. (base + 2) % 2 = 0 /\ base + 2 >= Initial
  BY <1>1, Parity, Bounds
<1>. QED BY <1>2, <1>3, <1>4, <1>5, <1>6, Bounds DEF Balanced

\* The stack stays and control is not behind a call.
LEMMA SameBalanced ==
    ASSUME Balanced, UNCHANGED <<ops, limit, stack, depth>>,
           host.at # "return", host'.at \notin {"return", "fault"}
    PROVE  Balanced'
BY DEF Balanced, Direct

\* A call finds room unless the limit is beyond the end of the stack.
LEMMA BaseBalanced ==
    ASSUME Inv, Balanced, Direct, host.at = "block"
    PROVE  /\ Base \in Initial..depth /\ Base % 2 = 0
           /\ Base + 2 > Slots => limit + 2 > Slots
<1>1. depth \in 0..Slots /\ limit \in Nat
  BY StackAssumption DEF Inv, TypeOK
<1>2. depth >= Initial /\ depth % 2 = 0
  BY <1>1, Parity DEF Balanced
<1>. QED BY <1>1, <1>2, Bounds DEF Base

\* A return that is satisfied finds a host return address.
LEMMA MatchedBalanced ==
    ASSUME Inv, Balanced, Direct, host.at = "block", NEW d, Matches(d)
    PROVE  depth > Initial /\ depth % 2 = 0 /\ stack[depth].is = "host"
<1>1. depth \in 2..Slots /\ stack[depth - 1] = Guest(d)
  BY Matched DEF Inv
<1>2. depth >= Initial /\ depth % 2 = 0
  BY <1>1, Parity, Bounds DEF Balanced
<1>3. depth > Initial
  <2>1. ASSUME depth = Initial PROVE FALSE
    <3>1. depth - 1 \in 1..Initial
      BY <1>1, <2>1, Bounds
    <3>. QED BY <1>1, <3>1 DEF Balanced, Guest
  <2>. QED BY <1>1, <1>2, <2>1, Bounds
<1>4. depth \in Initial + 1 .. depth
  BY <1>1, <1>3, Bounds
<1>. QED BY <1>2, <1>3, <1>4 DEF Balanced

LEMMA StepBalanced == Inv /\ Balanced /\ [Next]_vars => Balanced'
<1>. SUFFICES ASSUME Inv, Balanced, [Next]_vars, Direct PROVE Balanced'
  BY DEF Balanced, Direct, vars, Next, Jump, IJump, Call, ICall, Return, Resume, Syscall, Resolve, Interpret, Gone
<1>1. ASSUME NEW b \in Blocks, Jump(b) \/ IJump(b) PROVE Balanced'
  BY <1>1, SameBalanced DEF Jump, IJump, Ends
<1>2. ASSUME NEW b \in Blocks, Call(b) PROVE Balanced'
  <2>1. ops[b].next \in Blocks /\ host.at = "block"
    BY <1>2, Continuations DEF Call, Ends, Inv
  <2>2. CASE Base + 2 > Slots /\ Overflow
    BY <1>2, <2>1, <2>2, BaseBalanced DEF Call, Overflow, Balanced, Direct
  <2>3. CASE Base + 2 <= Slots /\ stack' = Pair(Base, b) /\ depth' = Base + 2 /\ host' = At("block", guest')
    <3>1. Base \in Initial..depth /\ Base % 2 = 0
      BY <2>1, BaseBalanced
    <3>. QED BY <1>2, <2>1, <2>3, <3>1, PushBalanced DEF Call
  <2>. QED BY <1>2, <2>2, <2>3 DEF Call
<1>3. ASSUME NEW b \in Blocks, ICall(b) PROVE Balanced'
  BY <1>3 DEF ICall, Ends, Direct
<1>4. ASSUME NEW b \in Blocks, Return(b) PROVE Balanced'
  <2>1. host.at = "block" /\ depth \in 0..Slots
    BY <1>4 DEF Return, Ends, Inv, TypeOK
  <2>2. CASE Matches(guest')
    <3>1. depth > Initial /\ depth % 2 = 0 /\ stack[depth].is = "host"
      BY <2>1, <2>2, MatchedBalanced
    <3>2. Slot(depth).is = "host"
      BY <2>2, <3>1, Matched DEF Inv
    <3>3. host'.at = "return" /\ stack' = Kept(depth - 1) /\ depth' = depth - 1 /\ UNCHANGED <<ops, limit>>
      BY <1>4, <2>2, <3>2 DEF Return
    <3>4. depth - 1 \in Initial..depth /\ (depth - 1) % 2 = 1
      BY <2>1, <3>1, Parity, Bounds
    <3>. QED BY <3>3, <3>4, CutBalanced
  <2>3. CASE ~ Matches(guest')
    <3>1. host' = Lookup /\ stack' = Kept(Initial) /\ depth' = Initial /\ UNCHANGED <<ops, limit>>
      BY <1>4, <2>3 DEF Return, Forgotten
    <3>2. Initial \in Initial..depth /\ Initial % 2 # 1
      BY <2>1, Bounds DEF Balanced
    <3>. QED BY <3>1, <3>2, CutBalanced
  <2>. QED BY <2>2, <2>3
<1>5. ASSUME NEW b \in Blocks, Resume(b) PROVE Balanced'
  <2>1. depth \in 0..Slots /\ depth > 0 /\ depth >= Initial /\ depth % 2 = 1
    BY <1>5 DEF Resume, Inv, TypeOK, Balanced
  <2>2. depth - 1 \in Initial..depth /\ (depth - 1) % 2 = 0
    BY <2>1, Parity, Bounds
  <2>. QED BY <1>5, <2>2, CutBalanced DEF Resume
<1>6. ASSUME NEW b \in Blocks, Syscall(b) PROVE Balanced'
  BY <1>6, SameBalanced DEF Syscall, Ends
<1>7. CASE Resolve
  BY <1>7, SameBalanced DEF Resolve
<1>8. CASE Interpret
  BY <1>8, SameBalanced DEF Interpret
<1>9. CASE UNCHANGED vars
  BY <1>9 DEF vars, Balanced, Direct
<1>. QED BY <1>1, <1>2, <1>3, <1>4, <1>5, <1>6, <1>7, <1>8, <1>9 DEF Next, Gone

LEMMA BalancedSuffices == Inv /\ Balanced => DirectCallsBalance
<1>. SUFFICES ASSUME Inv, Balanced, Direct PROVE OnReturnAddresses /\ (host = Fault => limit + 2 > Slots)
  BY DEF DirectCallsBalance
<1>1. depth \in 0..Slots /\ depth >= Initial
  BY DEF Inv, TypeOK, Balanced
<1>2. ASSUME host.at \in {"block", "lookup", "interpreter"}
      PROVE  depth % 2 = 0 /\ (depth > Initial => stack[depth].is = "host")
  <2>1. depth % 2 = 0
    BY <1>1, <1>2, Parity DEF Balanced
  <2>2. ASSUME depth > Initial PROVE depth \in Initial + 1 .. depth
    BY <1>1, <2>2, Bounds
  <2>. QED BY <2>1, <2>2 DEF Balanced
<1>. QED BY <1>1, <1>2 DEF OnReturnAddresses, Balanced

\* Without indirect calls every block starts on an aligned stack of whole pairs, and a limit
\* within the stack keeps calls from running beyond its end (compile_call, compile_ret).
THEOREM DirectBalance == Spec => []DirectCallsBalance
<1>1. Init => Balanced
  BY InitBalanced
<1>2. Inv /\ Balanced /\ [Next]_vars => Balanced'
  BY StepBalanced
<1>3. Inv /\ Balanced => DirectCallsBalance
  BY BalancedSuffices
<1>. QED BY <1>1, <1>2, <1>3, Inductive, PTL DEF Spec

-----------------------------------------------------------------------------
(* The stack implements the abstract return stack. *)

\* The number of pairs, and the entry the k-th guest address has.
Count(d) == (d - Initial) \div 2
Place(k) == Initial + 2 * k - 1

LEMMA Halves ==
    ASSUME NEW d \in Nat, d >= Initial
    PROVE  /\ Count(d) \in Nat
           /\ d % 2 = 0 => d = Initial + 2 * Count(d) /\ Count(d + 2) = Count(d) + 1
           /\ d % 2 = 1 => d = Initial + 2 * Count(d) + 1 /\ Count(d - 1) = Count(d)
           /\ Count(Initial) = 0
           /\ \A k \in 1..Count(d) : Place(k) \in Initial + 1 .. d /\ Place(k) % 2 = 1
BY Bounds DEF Count, Place

LEMMA LastPair ==
    ASSUME NEW d \in Nat, d > Initial, d % 2 = 0
    PROVE  Count(d - 1) = Count(d) - 1 /\ Count(d) >= 1
BY Bounds DEF Count

LEMMA Monotone ==
    ASSUME NEW d \in Nat, NEW e \in Nat, d >= Initial, d <= e
    PROVE  Count(d) <= Count(e)
<1>1. d - Initial \in Nat /\ e - Initial \in Nat /\ d - Initial <= e - Initial
  BY Bounds
<1>2. \A m, n \in Nat : m <= n => m \div 2 <= n \div 2
  OBVIOUS
<1>. QED BY <1>1, <1>2 DEF Count

\* The open calls of the state before a step and after it.
LEMMA OpenIs ==
    ASSUME Inv, Balanced, Direct
    PROVE  /\ depth \in 0..Slots /\ depth >= Initial /\ Count(depth) \in Nat
           /\ Open = [k \in 1..Count(depth) |-> stack[Place(k)].block]
           /\ Open \in [1..Count(depth) -> Blocks]
           /\ \A k \in 1..Count(depth) : stack[Place(k)] = Guest(stack[Place(k)].block)
<1>1. depth \in 0..Slots /\ depth >= Initial
  BY DEF Inv, TypeOK, Balanced
<1>2. depth \in Nat /\ Count(depth) \in Nat
  BY <1>1, Bounds, Halves
<1>3. Open = [k \in 1..Count(depth) |-> stack[Place(k)].block]
  BY DEF Open, Count, Place
<1>4. ASSUME NEW k \in 1..Count(depth)
      PROVE  stack[Place(k)].block \in Blocks /\ stack[Place(k)] = Guest(stack[Place(k)].block)
  <2>1. Place(k) \in Initial + 1 .. depth /\ Place(k) % 2 = 1
    BY <1>1, <1>2, <1>4, Halves
  <2>2. stack[Place(k)].is = "guest"
    BY <2>1 DEF Balanced
  <2>3. Place(k) \in 1..Slots
    BY <1>1, <2>1, Bounds
  <2>4. stack[Place(k)] \in Entries
    BY <2>3 DEF Inv, TypeOK
  <2>. QED BY <2>2, <2>4, EntryIs
<1>. QED BY <1>1, <1>2, <1>3, <1>4

\* The last open call and the others.
LEMMA OpenSeq ==
    ASSUME NEW n \in Nat, NEW s \in [1..n -> Blocks]
    PROVE  /\ s = << >> <=> n = 0
           /\ n > 0 => Last(s) = s[n] /\ Front(s) = [k \in 1 .. n - 1 |-> s[k]]
           /\ \A c \in Blocks : Append(s, c) = [k \in 1 .. n + 1 |-> IF k <= n THEN s[k] ELSE c]
<1>1. s \in Seq(Blocks) /\ Len(s) = n
  BY SeqDef
<1>2. s = << >> <=> n = 0
  BY <1>1, EmptySeq
<1>3. ASSUME n > 0
      PROVE  Front(s) = [k \in 1 .. n - 1 |-> s[k]]
  <2>. DEFINE t == SubSeq(s, 1, n - 1)  u == [k \in 1 .. n - 1 |-> s[k]]
  <2>1. /\ t \in Seq(Blocks) /\ Len(t) = n - 1
        /\ \A k \in 1 .. n - 1 : t[k] = s[k]
    BY <1>1, <1>3, SubSeqProperties
  <2>2. u \in [1 .. n - 1 -> Blocks] /\ n - 1 \in Nat
    BY <1>3
  <2>3. u \in Seq(Blocks) /\ Len(u) = n - 1
    BY <2>2, SeqDef
  <2>4. t = u
    BY <2>1, <2>3, SeqEqual
  <2>. QED BY <1>1, <2>4 DEF Front
<1>4. ASSUME NEW c \in Blocks
      PROVE  Append(s, c) = [k \in 1 .. n + 1 |-> IF k <= n THEN s[k] ELSE c]
  <2>. DEFINE t == Append(s, c)  u == [k \in 1 .. n + 1 |-> IF k <= n THEN s[k] ELSE c]
  <2>1. /\ t \in Seq(Blocks) /\ Len(t) = n + 1
        /\ \A k \in 1..n : t[k] = s[k]
        /\ t[n + 1] = c
    BY <1>1, AppendProperties
  <2>2. u \in [1 .. n + 1 -> Blocks] /\ n + 1 \in Nat
    OBVIOUS
  <2>3. u \in Seq(Blocks) /\ Len(u) = n + 1
    BY <2>2, SeqDef
  <2>4. \A k \in 1 .. n + 1 : t[k] = u[k]
    BY <2>1
  <2>. HIDE DEF t, u
  <2>5. t = u
    BY <2>1, <2>3, <2>4, SeqEqual
  <2>. QED BY <2>5 DEF t, u
<1>. QED BY <1>1, <1>2, <1>3, <1>4 DEF Last

LEMMA OpenSame == ASSUME UNCHANGED <<ops, stack, depth>> PROVE Open' = Open /\ Direct' = Direct
BY DEF Open, Direct

LEMMA OpenCut ==
    ASSUME Inv, Balanced, Direct, NEW d \in Initial..depth, UNCHANGED ops, stack' = Kept(d), depth' = d
    PROVE  Open' = [k \in 1..Count(d) |-> Open[k]]
<1>. depth \in 0..Slots /\ depth >= Initial /\ Count(depth) \in Nat /\ depth \in Nat
  BY OpenIs, Bounds
<1>1. /\ depth \in 0..Slots /\ d \in 0..Slots /\ d \in Nat /\ Count(d) \in Nat
      /\ Count(depth) \in Nat /\ Count(d) <= Count(depth)
  <2>1. d \in Nat /\ d <= depth /\ d >= Initial /\ d \in 0..Slots
    BY Bounds
  <2>2. Count(d) \in Nat
    BY <2>1, Halves
  <2>3. Count(d) <= Count(depth)
    BY <2>1, Monotone
  <2>. QED BY <2>1, <2>2, <2>3
<1>2. ASSUME NEW k \in 1..Count(d)
      PROVE  stack'[Place(k)].block = Open[k]
  <2>1. Place(k) \in Initial + 1 .. d
    BY <1>1, Halves
  <2>2. Place(k) \in 1..Slots /\ Place(k) <= d
    BY <1>1, <2>1, Bounds
  <2>3. stack'[Place(k)] = stack[Place(k)]
    BY <1>1, <2>2, KeptStack DEF Inv
  <2>4. k \in 1..Count(depth)
    BY <1>1
  <2>. QED BY <2>3, <2>4, OpenIs
<1>3. Open' = [k \in 1..Count(d) |-> stack'[Place(k)].block]
  BY DEF Open, Direct, Count, Place
<1>. QED BY <1>2, <1>3

LEMMA OpenPush ==
    ASSUME Inv, Balanced, Direct, NEW base \in Initial..depth, base % 2 = 0, base + 2 <= Slots,
           NEW b \in Blocks, ops[b].next \in Blocks, UNCHANGED ops,
           stack' = Pair(base, b), depth' = base + 2
    PROVE  Open' = [k \in 1 .. Count(base) + 1 |-> IF k <= Count(base) THEN Open[k] ELSE ops[b].next]
<1>. depth \in 0..Slots /\ depth >= Initial /\ Count(depth) \in Nat /\ depth \in Nat
  BY OpenIs, Bounds
<1>1. /\ depth \in 0..Slots /\ base \in 0 .. Slots - 2 /\ base \in 0..Slots /\ base \in Nat
      /\ Count(depth) \in Nat /\ Count(base) \in Nat /\ Count(base) <= Count(depth)
  <2>1. base \in Nat /\ base <= depth /\ base >= Initial
    BY Bounds
  <2>2. base \in 0 .. Slots - 2 /\ base \in 0..Slots
    BY <2>1, Bounds
  <2>3. Count(base) \in Nat
    BY <2>1, Halves
  <2>4. Count(base) <= Count(depth)
    BY <2>1, Monotone
  <2>. QED BY <2>1, <2>2, <2>3, <2>4
<1>2. Count(base + 2) = Count(base) + 1 /\ base = Initial + 2 * Count(base)
  BY <1>1, Halves
<1>3. ASSUME NEW k \in 1..Count(base)
      PROVE  stack'[Place(k)].block = Open[k]
  <2>1. Place(k) \in Initial + 1 .. base
    BY <1>1, Halves
  <2>2. Place(k) \in 1..Slots /\ Place(k) <= base
    BY <1>1, <2>1, Bounds
  <2>3. stack'[Place(k)] = Kept(base)[Place(k)]
    BY <1>1, <2>2, PairStack DEF Inv
  <2>4. Kept(base)[Place(k)] = stack[Place(k)]
    BY <1>1, <2>2, KeptStack DEF Inv
  <2>5. k \in 1..Count(depth)
    BY <1>1
  <2>. QED BY <2>3, <2>4, <2>5, OpenIs
<1>4. stack'[Place(Count(base) + 1)].block = ops[b].next
  <2>1. Place(Count(base) + 1) = base + 1
    BY <1>1, <1>2, Bounds DEF Place
  <2>2. stack'[base + 1] = Guest(ops[b].next)
    BY <1>1, PairStack DEF Inv
  <2>. QED BY <2>1, <2>2 DEF Guest
<1>5. Open' = [k \in 1..Count(base + 2) |-> stack'[Place(k)].block]
  BY DEF Open, Direct, Count, Place
<1>6. \A k \in 1 .. Count(base) + 1 : stack'[Place(k)].block = IF k <= Count(base) THEN Open[k] ELSE ops[b].next
  <2>. TAKE k \in 1 .. Count(base) + 1
  <2>1. CASE k <= Count(base)
    BY <1>1, <1>3, <2>1
  <2>2. CASE k = Count(base) + 1
    BY <1>1, <1>4, <2>2
  <2>. QED BY <1>1, <2>1, <2>2
<1>. QED BY <1>2, <1>5, <1>6

LEMMA InitPredicts == Init => Predictor!Init
<1>. SUFFICES ASSUME Init PROVE Predictor!Init
  OBVIOUS
<1>1. Open = << >>
  <2>1. (depth - Initial) \div 2 = 0
    BY Bounds DEF Init
  <2>. QED BY <2>1 DEF Open
<1>2. ~ (host.at = "return") /\ guest \in Blocks
  BY DEF Init
<1>. QED BY <1>1, <1>2 DEF Predictor!Init

\* Every step that opens and closes no call.
LEMMA MovePredicts ==
    ASSUME guest' \in Addresses, Open' = Open,
           ~ (Direct /\ host.at = "block" /\ ops[host.block].kind = "return"),
           ~ (Direct' /\ host'.at = "return")
    PROVE  Predictor!Next
BY DEF Predictor!Next, Predictor!Move

LEMMA CallPredicts ==
    ASSUME Inv, Balanced, Direct, Inv', NEW b \in Blocks, Call(b)
    PROVE  Predictor!Next
<1>1. /\ ops[b].next \in Blocks /\ host = At("block", b) /\ ops[b].kind = "call"
      /\ guest' \in Addresses /\ Direct' = Direct /\ UNCHANGED ops
  BY Continuations DEF Call, Ends, Inv, TypeOK, Direct
<1>2. CASE Overflow
  BY <1>1, <1>2, OpenSame, MovePredicts DEF Overflow
<1>3. CASE ~ Overflow
  <2>1. Base + 2 <= Slots /\ stack' = Pair(Base, b) /\ depth' = Base + 2 /\ host' = At("block", guest')
    BY <1>3 DEF Call
  <2>2. Base \in Initial..depth /\ Base % 2 = 0
    BY <1>1, BaseBalanced
  <2>3. Open' = [k \in 1 .. Count(Base) + 1 |-> IF k <= Count(Base) THEN Open[k] ELSE ops[b].next]
    BY <1>1, <2>1, <2>2, OpenPush
  <2>4. Open' \in {Append(Open, ops[b].next), <<ops[b].next>>}
    <3>1. CASE Base = depth
      BY <1>1, <2>3, <3>1, OpenIs, OpenSeq
    <3>2. CASE Base = Initial
      <4>1. Count(Base) = 0
        BY <3>2, Bounds DEF Count
      <4>. QED BY <2>3, <4>1
    <3>. QED BY <3>1, <3>2 DEF Base
  <2>5. Predictor!Enter
    BY <1>1, <2>1, <2>4 DEF Predictor!Enter
  <2>. QED BY <2>5 DEF Predictor!Next
<1>. QED BY <1>2, <1>3

LEMMA ReturnPredicts ==
    ASSUME Inv, Balanced, Direct, NEW b \in Blocks, Return(b)
    PROVE  Predictor!Next
<1>1. /\ host = At("block", b) /\ ops[b].kind = "return" /\ guest' \in Addresses
      /\ Direct' = Direct /\ UNCHANGED ops
  BY DEF Return, Ends, Direct
<1>. DEFINE n == Count(depth)
<1>2. /\ depth \in 0..Slots /\ depth >= Initial /\ depth % 2 = 0 /\ n \in Nat
      /\ Open \in [1..n -> Blocks] /\ depth = Initial + 2 * n
  <2>1. /\ depth \in 0..Slots /\ depth \in Nat /\ depth >= Initial /\ n \in Nat /\ Open \in [1..n -> Blocks]
    BY OpenIs, Bounds
  <2>2. host.at # "return"
    BY <1>1 DEF At
  <2>3. depth % 2 = 0
    BY <2>1, <2>2, Parity DEF Balanced
  <2>4. depth = Initial + 2 * n
    BY <2>1, <2>3, Halves
  <2>. QED BY <2>1, <2>3, <2>4
<1>3. CASE Matches(guest')
  <2>1. depth > Initial /\ stack[depth].is = "host" /\ stack[depth - 1] = Guest(guest') /\ Slot(depth) = stack[depth]
    BY <1>1, <1>3, MatchedBalanced, Matched DEF Inv
  <2>2. stack' = Kept(depth - 1) /\ depth' = depth - 1 /\ host'.at = "return"
    BY <1>3, <2>1 DEF Return
  <2>3. n > 0 /\ Count(depth - 1) = n - 1 /\ Place(n) = depth - 1 /\ depth - 1 \in Initial..depth
    <3>1. depth \in Nat /\ Initial \in Nat /\ depth > Initial /\ n \in Nat /\ depth % 2 = 0
      BY <1>2, <2>1, Bounds
    <3>2. Count(depth - 1) = Count(depth) - 1 /\ Count(depth) >= 1
      <4>. HIDE DEF n
      <4>. QED BY <3>1, LastPair
    <3>3. Place(n) = depth - 1
      BY <1>2, <3>1 DEF Place
    <3>4. depth - 1 \in Initial..depth
      BY <3>1
    <3>. QED BY <3>1, <3>2, <3>3, <3>4
  <2>4. Open[n] = guest'
    BY <1>2, <2>1, <2>3, OpenIs DEF Guest
  <2>5. Open' = [k \in 1 .. n - 1 |-> Open[k]]
    BY <1>1, <2>2, <2>3, OpenCut
  <2>6. Open # << >> /\ Last(Open) = guest' /\ Open' = Front(Open)
    BY <1>2, <2>3, <2>4, <2>5, OpenSeq
  <2>7. Predictor!Leave(guest')
    <3>. DEFINE predicts == Direct /\ host.at = "return"
    <3>1. Direct /\ host.at = "block" /\ ops[host.block].kind = "return"
      BY <1>1 DEF At
    <3>2. predicts' = TRUE /\ (Open # << >> /\ Last(Open) = guest') = TRUE
      BY <1>1, <2>2, <2>6
    <3>3. predicts' = (Open # << >> /\ Last(Open) = guest')
      BY <3>2
    <3>4. Open' = IF predicts' THEN Front(Open) ELSE << >>
      BY <2>6, <3>2
    <3>. QED BY <3>1, <3>3, <3>4 DEF Predictor!Leave, Predictor!Last, Predictor!Front, Last, Front
  <2>. QED BY <1>1, <2>7 DEF Predictor!Next
<1>4. CASE ~ Matches(guest')
  <2>1. stack' = Kept(Initial) /\ depth' = Initial /\ host' = Lookup
    BY <1>4 DEF Return, Forgotten
  <2>2. Open' = << >>
    <3>1. Initial \in Initial..depth /\ Count(Initial) = 0
      BY <1>2, Bounds DEF Count
    <3>2. Open' = [k \in 1..0 |-> Open[k]]
      BY <1>1, <2>1, <3>1, OpenCut
    <3>. QED BY <3>2
  <2>3. ~ (Open # << >> /\ Last(Open) = guest')
    <3>1. SUFFICES ASSUME Open # << >>, Last(Open) = guest' PROVE FALSE
      OBVIOUS
    <3>2. n > 0 /\ Open[n] = guest' /\ guest' \in Blocks
      BY <1>2, <3>1, OpenSeq
    <3>3. Place(n) = depth - 1 /\ depth - 1 \in 1..Slots
      BY <1>2, <3>2, Bounds DEF Place
    <3>4. stack[depth - 1] = Guest(guest')
      BY <1>2, <3>2, <3>3, OpenIs
    <3>. QED BY <1>4, <3>2, <3>3, <3>4 DEF Matches, Slot
  <2>4. Predictor!Leave(guest')
    <3>. DEFINE predicts == Direct /\ host.at = "return"
    <3>1. Direct /\ host.at = "block" /\ ops[host.block].kind = "return"
      BY <1>1 DEF At
    <3>2. ~ predicts'
      BY <2>1 DEF Lookup, At
    <3>3. predicts' = (Open # << >> /\ Last(Open) = guest')
      BY <2>3, <3>2
    <3>4. Open' = IF predicts' THEN Front(Open) ELSE << >>
      BY <2>2, <3>2
    <3>. QED BY <3>1, <3>3, <3>4 DEF Predictor!Leave, Predictor!Last, Predictor!Front, Last, Front
  <2>. QED BY <1>1, <2>4 DEF Predictor!Next
<1>. QED BY <1>3, <1>4

LEMMA ResumePredicts ==
    ASSUME Inv, Balanced, Direct, Inv', NEW b \in Blocks, Resume(b)
    PROVE  Predictor!Next
<1>1. /\ host.at = "return" /\ host'.at = "block" /\ guest' \in Addresses
      /\ stack' = Kept(depth - 1) /\ depth' = depth - 1 /\ UNCHANGED ops /\ depth > 0
  BY DEF Resume, Inv, TypeOK
<1>2. /\ depth \in 0..Slots /\ depth >= Initial /\ depth % 2 = 1 /\ Count(depth) \in Nat
      /\ Open \in [1..Count(depth) -> Blocks]
  BY <1>1, OpenIs DEF Balanced
<1>3. depth - 1 \in Initial..depth /\ Count(depth - 1) = Count(depth)
  <2>1. depth \in Nat /\ Initial \in Nat /\ depth >= Initial /\ depth % 2 = 1 /\ Initial % 2 = 0
    BY <1>2, Bounds
  <2>2. Count(depth - 1) = Count(depth)
    BY <2>1, Halves
  <2>3. depth # Initial
    BY <2>1
  <2>. QED BY <2>1, <2>2, <2>3
<1>4. Open' = Open
  BY <1>1, <1>2, <1>3, OpenCut
<1>. QED BY <1>1, <1>4, MovePredicts

LEMMA StepPredicts == Inv /\ Balanced /\ Inv' /\ [Next]_vars => [Predictor!Next]_(Predictor!vars)
<1>. SUFFICES ASSUME Inv, Balanced, Inv', [Next]_vars
     PROVE  [Predictor!Next]_(Predictor!vars)
  OBVIOUS
<1>1. guest' \in Addresses
  BY DEF Inv, TypeOK
<1>2. CASE UNCHANGED vars
  BY <1>2 DEF vars, Predictor!vars, Open, Direct
<1>3. CASE Next /\ ~ Direct
  <2>1. UNCHANGED ops
    BY <1>3 DEF Next, Jump, IJump, Call, ICall, Return, Resume, Syscall, Resolve, Interpret, Gone, vars
  <2>2. ~ Direct' /\ Open = << >> /\ Open' = << >>
    BY <1>3, <2>1 DEF Direct, Open
  <2>. QED BY <1>1, <1>3, <2>2, MovePredicts
<1>4. CASE Next /\ Direct
  <2>1. ASSUME NEW b \in Blocks, Jump(b) \/ IJump(b) \/ Syscall(b) PROVE Predictor!Next
    BY <1>1, <2>1, OpenSame, MovePredicts DEF Jump, IJump, Syscall, Ends
  <2>2. ASSUME NEW b \in Blocks, Call(b) PROVE Predictor!Next
    BY <1>4, <2>2, CallPredicts
  <2>3. ASSUME NEW b \in Blocks, ICall(b) PROVE Predictor!Next
    BY <1>4, <2>3 DEF ICall, Ends, Direct
  <2>4. ASSUME NEW b \in Blocks, Return(b) PROVE Predictor!Next
    BY <1>4, <2>4, ReturnPredicts
  <2>5. ASSUME NEW b \in Blocks, Resume(b) PROVE Predictor!Next
    BY <1>4, <2>5, ResumePredicts
  <2>6. CASE Resolve \/ Interpret
    BY <1>1, <2>6, OpenSame, MovePredicts DEF Resolve, Interpret
  <2>7. CASE Gone
    BY <2>7 DEF Gone, vars, Predictor!vars, Open, Direct
  <2>. QED BY <1>4, <2>1, <2>2, <2>3, <2>4, <2>5, <2>6, <2>7 DEF Next
<1>. QED BY <1>2, <1>3, <1>4

\* The pairs on the stack implement the abstract return stack: the innermost open call is
\* returned to without a lookup, every other return forgets all open calls.
THEOREM Refinement == Spec => PredictsReturns
<1>1. Init => Balanced
  BY InitBalanced
<1>2. Inv /\ Balanced /\ [Next]_vars => Balanced'
  BY StepBalanced
<1>3. Init => Predictor!Init
  BY InitPredicts
<1>4. Inv /\ Balanced /\ Inv' /\ [Next]_vars => [Predictor!Next]_(Predictor!vars)
  BY StepPredicts
<1>. QED BY <1>1, <1>2, <1>3, <1>4, Inductive, PTL DEF Spec, PredictsReturns, Predictor!Spec
=============================================================================

--------------------------- MODULE RegAllocProofs ---------------------------
(***************************************************************************)
(* Theorems about RegAlloc, for every program the lifter may hand over and *)
(* any registers: the order in which groups of blocks are compiled, and    *)
(* the labels this leaves to jump to.                                      *)
(***************************************************************************)
EXTENDS RegAlloc, WellFoundedInduction, TLAPS

-----------------------------------------------------------------------------
(* Minima.                                                                 *)

(* The order of the natural numbers is well-founded. *)
LEMMA NatMin ==
  ASSUME NEW S \in SUBSET Nat, S # {}
  PROVE  \E x \in S : \A y \in S : x <= y
<1>1. PICK x \in S : \A y \in S : <<y, x>> \notin OpToRel(<, Nat)
  BY WFMin, NatLessThanWellFounded, Zenon
<1>2. \A y \in S : ~(y < x)
  BY <1>1, Zenon DEF OpToRel
<1> QED
  BY <1>2

-----------------------------------------------------------------------------
(* The inductive invariant.                                                *)

Calls == [b : Blocks, assembled : BOOLEAN, next : Nat]

(* The variables that steer the compilation. *)
Control ==
  /\ ProgramOk(program)
  /\ compiled \subseteq Blocks /\ manual \subseteq Blocks
  /\ {b \in Blocks : program[b].needsTrans} \subseteq needsTrans
  /\ group \in Seq(Blocks) /\ path \in Seq(Calls)

(* Only the last call of compile_block still assembles its block. *)
PathOk ==
  \A i \in DOMAIN path : ~path[i].assembled => i = Len(path) /\ path[i].next = 1

(* A group is written when its last call has returned. *)
GroupOk ==
  /\ Range(group) \subseteq compiled
  /\ cf # <<0, 0>> =>
       /\ path = <<>> /\ cf[1] \in DOMAIN group
       /\ cf[2] \in DOMAIN program[group[cf[1]]].cfs

(* A block that is compiled or about to be. *)
Begun(b) == b \in compiled \/ (Compiling /\ Top.b = b)

(* What a block of the group leads to has been begun, or some call of      *)
(* compile_block still has it in front of it.                              *)
Followed ==
  \A b \in Range(group) : \A j \in Items(b) :
    Visit(Item(b, j)) => Begun(Item(b, j).b) \/ \E i \in DOMAIN path : path[i].b = b /\ path[i].next <= j

(* A block that is entered by its label bN. *)
Entrance(b) == IsTopLevel(b) \/ program[b].callCont \/ b \in needsTrans

Labelled ==
  \A b \in Blocks : Begun(b) =>
    /\ Entrance(b) => Label("b", b) \in labels
    /\ ~IsTopLevel(b) => Label("reg_alloc", b) \in labels

Jumped == \A l \in jumps : l \in labels \/ \E b \in Blocks : Entrance(b) /\ l = Label("b", b)

IInv == Control /\ PathOk /\ GroupOk /\ Followed /\ Labelled /\ Jumped
-----------------------------------------------------------------------------
(* The program and the marks.                                              *)

LEMMA MinIn ==
  ASSUME NEW S \in SUBSET Nat, S # {}
  PROVE  Min(S) \in S /\ \A y \in S : Min(S) <= y
<1>1. \E x \in S : \A y \in S : x <= y
  BY NatMin
<1> QED
  BY <1>1 DEF Min

LEMMA FirstOk ==
  ASSUME Control, Pending # {}
  PROVE  First \in Pending
<1>1. Pending \in SUBSET Nat
  BY DEF Control, ProgramOk, Pending, Blocks
<1> DEFINE S == {b \in Pending : IsTopLevel(b)}
<1>2. S \in SUBSET Nat /\ S \subseteq Pending
  BY <1>1
<1>3. S # {} => Min(S) \in S
  BY <1>2, MinIn
<1>4. Min(Pending) \in Pending
  BY <1>1, MinIn
<1> QED
  BY <1>2, <1>3, <1>4 DEF First

(* No step changes the program. *)
LEMMA SameProgram ==
  ASSUME program' = program
  PROVE  /\ Blocks' = Blocks
         /\ \A b : /\ Predecessors(b)' = Predecessors(b) /\ Items(b)' = Items(b)
                   /\ \A j : Item(b, j)' = Item(b, j)
<1>1. Blocks' = Blocks
  BY DEF Blocks
<1>2. \A b : Successors(b)' = Successors(b)
  BY DEF Successors
<1>3. \A b : Predecessors(b)' = Predecessors(b)
  BY <1>1, <1>2 DEF Predecessors
<1>4. \A b : Items(b)' = Items(b) /\ \A j : Item(b, j)' = Item(b, j)
  BY DEF Items, Item
<1> QED
  BY <1>1, <1>3, <1>4

(* Marks are only set. *)
MarksGrow == program' = program /\ manual \subseteq manual' /\ needsTrans \subseteq needsTrans'

LEMMA TopLevelIs ==
  ASSUME MarksGrow, NEW b
  PROVE  /\ IsTopLevel(b)' <=> b \in manual' \/ IsTopLevel(b)
         /\ Entrance(b)' <=> b \in manual' \/ b \in needsTrans' \/ Entrance(b)
<1>1. program' = program /\ manual \subseteq manual' /\ needsTrans \subseteq needsTrans'
  BY DEF MarksGrow
<1>2. Predecessors(b)' = Predecessors(b)
  BY <1>1, SameProgram
<1>3. IsTopLevel(b)' <=> b \in manual' \/ IsTopLevel(b)
  BY <1>1, <1>2 DEF IsTopLevel
<1>4. Entrance(b)' <=> IsTopLevel(b)' \/ program[b].callCont \/ b \in needsTrans'
  BY <1>1 DEF Entrance
<1> QED
  BY <1>1, <1>3, <1>4 DEF Entrance

(* What is jumped to stays a label, or an entrance. *)
LEMMA JumpedStays ==
  ASSUME Jumped, MarksGrow, jumps' = jumps, labels \subseteq labels'
  PROVE  Jumped'
<1>1. \A b : Entrance(b) => Entrance(b)'
  BY TopLevelIs
<1>2. Blocks' = Blocks
  BY SameProgram DEF MarksGrow
<1> QED
  BY <1>1, <1>2 DEF Jumped, Label

(* The steps of which these variables are no part. *)
LEMMA Unaffected ==
  ASSUME IInv, UNCHANGED <<program, compiled, manual, needsTrans, path, group, cf, labels, jumps>>
  PROVE  IInv'
<1>1. /\ MarksGrow /\ Blocks' = Blocks
      /\ \A b : Items(b)' = Items(b) /\ \A j : Item(b, j)' = Item(b, j)
  BY SameProgram DEF MarksGrow
<1>2. \A b : /\ IsTopLevel(b)' = IsTopLevel(b) /\ Entrance(b)' = Entrance(b) /\ Begun(b)' = Begun(b)
  <2> TAKE b
  <2>1. IsTopLevel(b)' = IsTopLevel(b)
    BY SameProgram DEF IsTopLevel
  <2>2. Begun(b)' = Begun(b)
    BY DEF Begun, Compiling, Top
  <2> QED
    BY <2>1, <2>2 DEF Entrance
<1>3. \A x : Visit(x)' = Visit(x)
  BY <1>2 DEF Visit
<1>4. Control'
  BY <1>1 DEF IInv, Control, Calls
<1>5. PathOk' /\ GroupOk'
  BY DEF IInv, PathOk, GroupOk, Range
<1>6. Followed'
  BY <1>1, <1>2, <1>3 DEF IInv, Followed, Range
<1>7. Labelled'
  BY <1>1, <1>2 DEF IInv, Labelled, Label
<1>8. Jumped'
  BY <1>1, JumpedStays DEF IInv
<1> QED
  BY <1>4, <1>5, <1>6, <1>7, <1>8 DEF IInv

-----------------------------------------------------------------------------
(* Groups and calls of compile_block.                                      *)

LEMMA LastIn ==
  ASSUME NEW S, NEW s \in Seq(S), s # <<>>
  PROVE  Len(s) \in Nat \ {0} /\ DOMAIN s = 1..Len(s) /\ Len(s) \in DOMAIN s /\ s[Len(s)] \in S
OBVIOUS

LEMMA ReplaceIn ==
  ASSUME NEW S, NEW s \in Seq(S), NEW n \in DOMAIN s, NEW x \in S
  PROVE  /\ [s EXCEPT ![n] = x] \in Seq(S) /\ Len([s EXCEPT ![n] = x]) = Len(s)
         /\ DOMAIN [s EXCEPT ![n] = x] = DOMAIN s
         /\ \A i \in DOMAIN s : [s EXCEPT ![n] = x][i] = IF i = n THEN x ELSE s[i]
OBVIOUS

LEMMA TopOk ==
  ASSUME Control, path # <<>>
  PROVE  /\ Len(path) \in Nat \ {0} /\ DOMAIN path = 1..Len(path) /\ Len(path) \in DOMAIN path
         /\ Top \in Calls /\ Top.b \in Blocks /\ Top.assembled \in BOOLEAN /\ Top.next \in Nat
         /\ Top = path[Len(path)]
<1>1. path \in Seq(Calls)
  BY DEF Control
<1>2. Len(path) \in Nat \ {0} /\ DOMAIN path = 1..Len(path) /\ Len(path) \in DOMAIN path /\ Top \in Calls
  BY <1>1, LastIn DEF Top
<1> QED
  BY <1>2 DEF Calls, Top

LEMMA InitIInv == Init => IInv
<1> SUFFICES ASSUME Init
             PROVE  IInv
  OBVIOUS
<1>1. PICK name \in Names : program = Program(name)
  BY DEF Init
<1>2. ProgramOk(program)
  BY <1>1, ProgramsAssumption
<1>3. compiled = {} /\ manual = {} /\ path = <<>> /\ group = <<>> /\ cf = <<0, 0>> /\ jumps = {}
  BY DEF Init
<1>4. Control
  BY <1>2, <1>3 DEF Init, Control
<1>5. PathOk /\ GroupOk /\ Followed /\ Jumped
  BY <1>3 DEF PathOk, GroupOk, Followed, Jumped, Range
<1>6. Labelled
  BY <1>3 DEF Labelled, Begun, Compiling
<1> QED
  BY <1>4, <1>5, <1>6 DEF IInv

LEMMA StartGroupIInv ==
  ASSUME IInv, StartGroup
  PROVE  IInv'
<1>1. First \in Pending /\ Control
  BY FirstOk DEF IInv, StartGroup
<1> PICK f \in Pending : f = First
  BY <1>1
<1>2. /\ path = <<>> /\ group = <<>> /\ UNCHANGED <<program, compiled, needsTrans, group, cf, jumps>>
      /\ manual' = manual \cup (IF IsTopLevel(f) THEN {} ELSE {f})
      /\ path' = <<Entry(f)>> /\ labels' = labels \cup {Label("b", f)}
  BY DEF StartGroup, Idle
<1>3. f \in Blocks /\ f \notin compiled /\ f \notin compiled'
  BY <1>2 DEF Pending
<1>4. MarksGrow /\ Blocks' = Blocks
  BY <1>2, SameProgram DEF MarksGrow
<1>5. Compiling' /\ Top'.b = f /\ Len(path') = 1 /\ DOMAIN path' = {1}
      /\ path'[1] = Entry(f)
  BY <1>2 DEF Compiling, Top, Entry
<1>6. ~Compiling
  BY <1>2 DEF Compiling
<1>7. Control'
  <2>1. path' \in Seq(Calls)
    BY <1>2, <1>3, <1>4 DEF Entry, Calls
  <2> QED
    BY <1>1, <1>2, <1>3, <1>4, <2>1 DEF Control, Calls
<1>8. PathOk'
  BY <1>5 DEF PathOk, Entry
<1>9. GroupOk'
  BY <1>2 DEF IInv, GroupOk, Range
<1>10. Followed'
  BY <1>2 DEF Followed, Range
<1>11. Labelled'
  <2> SUFFICES ASSUME NEW b \in Blocks, Begun(b)'
               PROVE  /\ Entrance(b)' => Label("b", b) \in labels'
                      /\ ~IsTopLevel(b)' => Label("reg_alloc", b) \in labels'
    BY <1>4 DEF Labelled, Label
  <2>1. CASE b = f
    BY <1>2, <1>4, <2>1, TopLevelIs
  <2>2. CASE b # f
    <3>1. Begun(b)
      BY <1>2, <1>5, <2>2 DEF Begun
    <3>2. (IsTopLevel(b)' <=> IsTopLevel(b)) /\ (Entrance(b)' <=> Entrance(b))
      BY <1>2, <1>4, <2>2, TopLevelIs DEF Entrance, IsTopLevel
    <3> QED
      BY <1>2, <3>1, <3>2 DEF IInv, Labelled
  <2> QED
    BY <2>1, <2>2
<1>12. Jumped'
  BY <1>2, <1>4, JumpedStays DEF IInv
<1> QED
  BY <1>7, <1>8, <1>9, <1>10, <1>11, <1>12 DEF IInv

LEMMA FinishVarsIInv ==
  ASSUME IInv, FinishVars
  PROVE  IInv'
<1>1. Compiling /\ path # <<>> /\ Control
  BY DEF FinishVars, Compiling, IInv
<1> PICK n \in Nat \ {0} : n = Len(path)
  BY <1>1, TopOk
<1> PICK t \in Blocks : t = Top.b
  BY <1>1, TopOk
<1>2. /\ UNCHANGED <<program, manual, needsTrans, cf, labels, jumps>>
      /\ group' = Append(group, t) /\ compiled' = compiled \cup {t}
      /\ path' = [path EXCEPT ![n].assembled = TRUE]
  BY DEF FinishVars, Assembled
<1>3. n \in DOMAIN path /\ DOMAIN path = 1..n /\ path[n] = Top
  BY <1>1, TopOk
<1>4. /\ path \in Seq(Calls) /\ group \in Seq(Blocks)
      /\ compiled \subseteq Blocks
  BY <1>1 DEF Control
<1>5. /\ path' \in Seq(Calls) /\ Len(path') = n
      /\ DOMAIN path' = DOMAIN path
      /\ \A i \in DOMAIN path : path'[i].b = path[i].b /\ path'[i].next = path[i].next
      /\ \A i \in DOMAIN path : i # n => path'[i] = path[i]
      /\ path'[n].assembled
  <2>1. [Top EXCEPT !.assembled = TRUE] \in Calls
    BY <1>1, TopOk DEF Calls
  <2>2. path' = [path EXCEPT ![n] = [Top EXCEPT !.assembled = TRUE]]
    BY <1>2, <1>3
  <2>3. [Top EXCEPT !.assembled = TRUE].b = Top.b /\ [Top EXCEPT !.assembled = TRUE].next = Top.next
        /\ [Top EXCEPT !.assembled = TRUE].assembled
    BY <1>1, TopOk DEF Calls
    <2>4. path' \in Seq(Calls) /\ Len(path') = n /\ DOMAIN path' = DOMAIN path
        /\ \A i \in DOMAIN path : path'[i] = IF i = n THEN [Top EXCEPT !.assembled = TRUE] ELSE path[i]
    BY <1>3, <1>4, <2>1, <2>2, ReplaceIn
  <2> QED
    BY <1>3, <2>3, <2>4
<1>6. ~Compiling'
  BY <1>5 DEF Compiling, Top
<1>7. MarksGrow /\ Blocks' = Blocks /\ \A b : Items(b)' = Items(b) /\ \A j : Item(b, j)' = Item(b, j)
  BY <1>2, SameProgram DEF MarksGrow
<1>8. \A b : /\ IsTopLevel(b)' <=> IsTopLevel(b)
             /\ Entrance(b)' <=> Entrance(b)
             /\ Begun(b)' <=> Begun(b)
  <2> TAKE b
  <2>1. (IsTopLevel(b)' <=> IsTopLevel(b)) /\ (Entrance(b)' <=> Entrance(b))
    BY <1>2, <1>7, TopLevelIs DEF Entrance, IsTopLevel
  <2>2. Begun(b)' <=> Begun(b)
    BY <1>1, <1>2, <1>6 DEF Begun
  <2> QED
    BY <2>1, <2>2
<1>9. \A x : Visit(x)' => Visit(x)
  BY <1>2, <1>8 DEF Visit
<1>10. group' \in Seq(Blocks) /\ Range(group') = Range(group) \cup {t}
  <2>1. group' \in Seq(Blocks)
    BY <1>2, <1>4
  <2>2. /\ DOMAIN group' = DOMAIN group \cup {Len(group) + 1} /\ group'[Len(group) + 1] = t
        /\ \A i \in DOMAIN group : group'[i] = group[i]
    BY <1>2, <1>4
  <2>3. Range(group') = Range(group) \cup {t}
    BY <2>2 DEF Range
  <2> QED
    BY <2>1, <2>3
<1>11. Control'
  BY <1>1, <1>2, <1>4, <1>5, <1>7, <1>10 DEF Control, Calls
<1>12. PathOk'
  BY <1>3, <1>5 DEF IInv, PathOk
<1>13. GroupOk'
  <2>1. cf = <<0, 0>>
    BY <1>1 DEF IInv, GroupOk
  <2>2. Range(group') \subseteq compiled'
    BY <1>2, <1>10 DEF IInv, GroupOk
  <2> QED
    BY <1>2, <2>1, <2>2 DEF GroupOk, Range
<1>14. Followed'
  <2> SUFFICES ASSUME NEW b \in Range(group'), NEW j \in Items(b), Visit(Item(b, j))'
               PROVE  Begun(Item(b, j).b)' \/ \E i \in DOMAIN path' : path'[i].b = b /\ path'[i].next <= j
    BY <1>7 DEF Followed, Range
  <2>1. CASE b = t
    <3>1. path[n].next = 1
      BY <1>1, <1>3 DEF IInv, PathOk, Compiling
    <3>2. 1 <= j
      BY DEF Items
    <3> QED
      BY <1>3, <1>5, <2>1, <3>1, <3>2
  <2>2. CASE b \in Range(group)
    <3>1. Begun(Item(b, j).b) \/ \E i \in DOMAIN path : path[i].b = b /\ path[i].next <= j
      BY <1>7, <1>9, <2>2 DEF IInv, Followed
    <3> QED
      BY <1>5, <1>7, <1>8, <3>1
  <2> QED
    BY <1>10, <2>1, <2>2
<1>15. Labelled'
  BY <1>2, <1>7, <1>8 DEF IInv, Labelled, Label
<1>16. Jumped'
  BY <1>2, <1>7, JumpedStays DEF IInv
<1> QED
  BY <1>11, <1>12, <1>13, <1>14, <1>15, <1>16 DEF IInv

LEMMA ItemOk ==
  ASSUME Control, NEW b \in Blocks, NEW j \in Items(b)
  PROVE  /\ j \in Nat \ {0} /\ (j + 1) \div 2 \in DOMAIN program[b].cfs
         /\ Item(b, j).b \in Blocks \cup {NoBlock}
<1> DEFINE k == (j + 1) \div 2
<1>1. Len(program[b].cfs) \in Nat \ {0} /\ DOMAIN program[b].cfs = 1..Len(program[b].cfs)
      /\ \A l \in DOMAIN program[b].cfs : CfOk(program, program[b].cfs[l])
  BY DEF Control, ProgramOk, Blocks
<1>2. j \in Nat \ {0} /\ k \in 1..Len(program[b].cfs)
  <2> PICK n \in Nat : n = Len(program[b].cfs)
    BY <1>1
  <2>1. j \in 1..2 * n
    BY DEF Items
  <2> QED
    BY <2>1
<1>3. CfOk(program, program[b].cfs[k])
  BY <1>1, <1>2
<1>4. /\ program[b].cfs[k].target \in Blocks \cup {NoBlock}
      /\ program[b].cfs[k].cont \in Blocks \cup {NoBlock}
  BY <1>3 DEF CfOk, Blocks
<1>5. Item(b, j).b \in {program[b].cfs[k].target, program[b].cfs[k].cont}
  BY DEF Item
<1> QED
  BY <1>1, <1>2, <1>4, <1>5

(* Where the marks stay as they are. *)
LEMMA SameMarks ==
  ASSUME UNCHANGED <<program, manual, needsTrans>>
  PROVE  \A b : (IsTopLevel(b)' <=> IsTopLevel(b)) /\ (Entrance(b)' <=> Entrance(b))
<1>1. MarksGrow
  BY DEF MarksGrow
<1> QED
  BY <1>1, TopLevelIs DEF Entrance, IsTopLevel

LEMMA DescendIInv ==
  ASSUME IInv, Descend
  PROVE  IInv'
<1>1. Following /\ path # <<>> /\ Control /\ Visitable # {}
  BY DEF Descend, Following, IInv
<1> PICK n \in Nat \ {0} : n = Len(path)
  BY <1>1, TopOk
<1> PICK t \in Blocks : t = Top.b
  BY <1>1, TopOk
<1>2. Visitable \in SUBSET Nat /\ Visitable \subseteq Items(t)
  BY <1>1, ItemOk DEF Visitable
<1>3. Min(Visitable) \in Visitable /\ \A k \in Visitable : Min(Visitable) <= k
  BY <1>1, <1>2, MinIn
<1> PICK j \in Items(t) : j = Min(Visitable)
  BY <1>2, <1>3
<1>4. j \in Nat \ {0} /\ Visit(Item(t, j)) /\ \A k \in Visitable : j <= k
  BY <1>1, <1>3, ItemOk DEF Visitable
<1> PICK b \in Blocks : b = Item(t, j).b
  BY <1>1, <1>4, ItemOk DEF Visit
<1>5. /\ UNCHANGED <<program, compiled, manual, needsTrans, group, cf, jumps>>
      /\ path' = Append([path EXCEPT ![n].next = j + 1], Entry(b))
      /\ labels' = labels \cup {Label("reg_alloc", b)} \cup (IF HasTranslation(b) THEN {Label("b", b)} ELSE {})
  BY DEF Descend
<1>6. n \in DOMAIN path /\ DOMAIN path = 1..n /\ path[n] = Top /\ Top \in Calls /\ Top.assembled
  BY <1>1, TopOk DEF Following
<1>7. /\ path' \in Seq(Calls) /\ Len(path') = n + 1 /\ DOMAIN path' = 1..n + 1
      /\ \A i \in DOMAIN path : path'[i].b = path[i].b /\ path'[i].assembled = path[i].assembled
      /\ \A i \in DOMAIN path : i # n => path'[i] = path[i]
      /\ path'[n].next = j + 1 /\ path'[n + 1] = Entry(b)
  <2> PICK m \in Nat : m = j + 1
    BY <1>4
  <2> PICK x : x = [Top EXCEPT !.next = m]
    OBVIOUS
  <2> PICK p : p = [path EXCEPT ![n] = x]
    OBVIOUS
  <2>1. x \in Calls /\ x.b = Top.b /\ x.assembled = Top.assembled /\ x.next = m
    BY <1>6 DEF Calls
  <2>2. path' = Append(p, Entry(b))
    BY <1>5, <1>6
  <2>3. Entry(b) \in Calls
    BY DEF Entry, Calls
  <2>4. path \in Seq(Calls)
    BY <1>1 DEF Control
  <2>5. /\ p \in Seq(Calls) /\ Len(p) = n /\ DOMAIN p = DOMAIN path
        /\ \A i \in DOMAIN path : p[i] = IF i = n THEN x ELSE path[i]
    BY <1>6, <2>1, <2>4, ReplaceIn
  <2>6. /\ path' \in Seq(Calls) /\ Len(path') = n + 1 /\ DOMAIN path' = 1..n + 1
        /\ path'[n + 1] = Entry(b) /\ \A i \in DOMAIN path : path'[i] = p[i]
    BY <1>6, <2>2, <2>3, <2>5
  <2> QED
    BY <1>6, <2>1, <2>5, <2>6
<1>8. Compiling' /\ Top'.b = b
  BY <1>7 DEF Compiling, Top, Entry
<1>9. MarksGrow /\ Blocks' = Blocks /\ Calls' = Calls /\ \A z : Items(z)' = Items(z) /\ \A k : Item(z, k)' = Item(z, k)
  BY <1>5, SameProgram DEF MarksGrow, Calls
<1>10. \A z : /\ IsTopLevel(z)' <=> IsTopLevel(z)
              /\ Entrance(z)' <=> Entrance(z)
              /\ Begun(z)' <=> Begun(z) \/ z = b
  <2>1. ~Compiling
    BY <1>1 DEF Compiling, Following
  <2> QED
    BY <1>5, <1>8, <2>1, SameMarks DEF Begun
<1>11. \A z : Visit(z)' => Visit(z)
  BY <1>5, <1>10 DEF Visit
<1>12. Control'
  BY <1>1, <1>5, <1>7, <1>9 DEF Control
<1>13. PathOk'
  BY <1>6, <1>7 DEF IInv, PathOk, Entry
<1>14. GroupOk'
  BY <1>1, <1>5 DEF IInv, GroupOk, Range
<1>15. Followed'
  <2> SUFFICES ASSUME NEW x \in Range(group), NEW k \in Items(x), Visit(Item(x, k)),
                      NEW y, y = Item(x, k).b
               PROVE  Begun(y)' \/ \E i \in DOMAIN path' : path'[i].b = x /\ path'[i].next <= k
    BY <1>5, <1>9, <1>11 DEF Followed, Range
  <2>1. CASE Begun(y)
    BY <1>10, <2>1
  <2>2. CASE \E i \in DOMAIN path : i # n /\ path[i].b = x /\ path[i].next <= k
    BY <1>6, <1>7, <2>2
  <2>3. CASE x = t /\ path[n].next <= k
    <3>1. k \in Nat /\ k \in Visitable
      BY <1>1, <1>6, <2>3, ItemOk, TopOk DEF Visitable
    <3>2. CASE k = j
      BY <1>10, <2>3, <3>2
    <3>3. CASE k # j
      <4>1. j + 1 <= k
        BY <1>4, <3>1, <3>3
      <4> QED
        BY <1>6, <1>7, <2>3, <4>1
    <3> QED
      BY <3>2, <3>3
  <2> QED
    BY <1>6, <2>1, <2>2, <2>3 DEF IInv, Followed
<1>16. Labelled'
  <2> SUFFICES ASSUME NEW z \in Blocks, Begun(z)'
               PROVE  /\ Entrance(z) => Label("b", z) \in labels'
                      /\ ~IsTopLevel(z) => Label("reg_alloc", z) \in labels'
    BY <1>9, <1>10 DEF Labelled, Label
  <2>1. CASE z = b
    <3>1. ~IsTopLevel(b)
      BY <1>4 DEF Visit
    <3>2. Entrance(b) => HasTranslation(b)
      BY DEF Entrance, HasTranslation, IsJumpable
    <3> QED
      BY <1>5, <2>1, <3>1, <3>2
  <2>2. CASE z # b
    BY <1>5, <1>10, <2>2 DEF IInv, Labelled
  <2> QED
    BY <2>1, <2>2
<1>17. Jumped'
  BY <1>5, <1>9, JumpedStays DEF IInv
<1> QED
  BY <1>12, <1>13, <1>14, <1>15, <1>16, <1>17 DEF IInv

LEMMA AscendIInv ==
  ASSUME IInv, Ascend
  PROVE  IInv'
<1>1. Following /\ path # <<>> /\ Control /\ Visitable = {}
  BY DEF Ascend, Following, IInv
<1> PICK n \in Nat \ {0} : n = Len(path)
  BY <1>1, TopOk
<1> PICK t \in Blocks : t = Top.b
  BY <1>1, TopOk
<1>2. /\ UNCHANGED <<program, compiled, manual, needsTrans, group, cf, labels, jumps>>
      /\ path' = SubSeq(path, 1, n - 1)
  BY DEF Ascend
<1>3. n \in DOMAIN path /\ DOMAIN path = 1..n /\ path[n] = Top /\ Top.assembled
  BY <1>1, TopOk DEF Following
<1>4. /\ path' \in Seq(Calls) /\ Len(path') = n - 1 /\ DOMAIN path' = 1..n - 1
      /\ \A i \in 1..n - 1 : path'[i] = path[i]
  <2>1. path \in Seq(Calls)
    BY <1>1 DEF Control
  <2> QED
    BY <1>2, <2>1
<1>5. \A i \in DOMAIN path : path[i].assembled
  BY <1>3 DEF IInv, PathOk
<1>6. ~Compiling /\ ~Compiling'
  <2>1. ~Compiling
    BY <1>1 DEF Compiling, Following
  <2>2. path' # <<>> => Len(path') \in 1..n - 1
    BY <1>4
  <2>3. path' # <<>> => path'[Len(path')].assembled
    BY <1>3, <1>4, <1>5, <2>2
  <2> QED
    BY <2>1, <2>3 DEF Compiling, Top
<1>7. Blocks' = Blocks /\ Calls' = Calls /\ MarksGrow
      /\ \A z : Items(z)' = Items(z) /\ \A k : Item(z, k)' = Item(z, k)
  BY <1>2, SameProgram DEF Calls, MarksGrow
<1>8. \A z : /\ IsTopLevel(z)' <=> IsTopLevel(z)
             /\ Entrance(z)' <=> Entrance(z)
             /\ Begun(z)' <=> Begun(z)
  BY <1>2, <1>6, SameMarks DEF Begun
<1>9. \A z : Visit(z)' => Visit(z)
  BY <1>2, <1>8 DEF Visit
<1>10. Control'
  BY <1>1, <1>2, <1>4, <1>7 DEF Control
<1>11. PathOk'
  BY <1>3, <1>4, <1>5 DEF PathOk
<1>12. GroupOk'
  BY <1>1, <1>2 DEF IInv, GroupOk, Range
<1>13. Followed'
  <2> SUFFICES ASSUME NEW x \in Range(group), NEW k \in Items(x), Visit(Item(x, k)),
                      NEW y, y = Item(x, k).b
               PROVE  Begun(y)' \/ \E i \in DOMAIN path' : path'[i].b = x /\ path'[i].next <= k
    BY <1>2, <1>7, <1>9 DEF Followed, Range
  <2>1. ~(x = t /\ path[n].next <= k)
    BY <1>1, <1>3, TopOk DEF Visitable, Items
  <2>2. ASSUME NEW i \in DOMAIN path, path[i].b = x, path[i].next <= k
        PROVE  i \in DOMAIN path' /\ path'[i] = path[i]
    BY <1>3, <1>4, <2>1, <2>2
  <2> QED
    BY <1>8, <2>2 DEF IInv, Followed
<1>14. Labelled'
  BY <1>2, <1>7, <1>8 DEF IInv, Labelled, Label
<1>15. Jumped'
  BY <1>2, <1>7, JumpedStays DEF IInv
<1> QED
  BY <1>10, <1>11, <1>12, <1>13, <1>14, <1>15 DEF IInv

-----------------------------------------------------------------------------
(* The jumps of a group.                                                   *)

LEMMA FinishGroupIInv ==
  ASSUME IInv, FinishGroup
  PROVE  IInv'
<1>1. /\ path = <<>> /\ group # <<>> /\ Control
      /\ cf' = <<1, 1>> /\ UNCHANGED <<program, compiled, manual, needsTrans, path, group, labels, jumps>>
  BY DEF FinishGroup, IInv
<1>2. group \in Seq(Blocks) /\ 1 \in DOMAIN group /\ group[1] \in Blocks
  BY <1>1 DEF Control
<1>3. 1 \in DOMAIN program[group[1]].cfs
  <2> PICK n \in Nat \ {0} : DOMAIN program[group[1]].cfs = 1..n
    BY <1>1, <1>2 DEF Control, ProgramOk, Blocks
  <2> QED
    OBVIOUS
<1>4. MarksGrow /\ Blocks' = Blocks /\ Calls' = Calls
      /\ \A z : Items(z)' = Items(z) /\ \A k : Item(z, k)' = Item(z, k)
  BY <1>1, SameProgram DEF MarksGrow, Calls
<1>5. \A z : /\ IsTopLevel(z)' <=> IsTopLevel(z)
             /\ Entrance(z)' <=> Entrance(z)
             /\ Begun(z)' <=> Begun(z)
  BY <1>1, SameMarks DEF Begun, Compiling, Top
<1>6. \A z : Visit(z)' => Visit(z)
  BY <1>1, <1>5 DEF Visit
<1>7. Control'
  BY <1>1, <1>4 DEF Control
<1>8. PathOk'
  BY <1>1 DEF PathOk
<1>9. GroupOk'
  <2>1. Range(group') \subseteq compiled'
    BY <1>1 DEF IInv, GroupOk
  <2> QED
    BY <1>1, <1>2, <1>3, <2>1 DEF GroupOk, Range
<1>10. Followed'
  BY <1>1, <1>4, <1>5, <1>6 DEF IInv, Followed, Range
<1>11. Labelled'
  BY <1>1, <1>4, <1>5 DEF IInv, Labelled, Label
<1>12. Jumped'
  BY <1>1, <1>4, JumpedStays DEF IInv
<1> QED
  BY <1>7, <1>8, <1>9, <1>10, <1>11, <1>12 DEF IInv

(* When a group is written, all that its operations lead to is compiled,   *)
(* unless it is a group of its own or entered through a translation block. *)
LEMMA LeadsTo ==
  ASSUME IInv, path = <<>>, NEW b \in Range(group), NEW k \in DOMAIN program[b].cfs,
         NEW o, o = program[b].cfs[k]
  PROVE  /\ b \in Blocks /\ CfOk(program, o)
         /\ o.target # NoBlock /\ ~program[o.target].callCont => o.target \in compiled \/ IsTopLevel(o.target)
<1>1. Control /\ Range(group) \subseteq compiled /\ compiled \subseteq Blocks
  BY DEF IInv, Control, GroupOk
<1>2. b \in Blocks
  BY <1>1
<1> PICK n \in Nat \ {0} : n = Len(program[b].cfs)
  BY <1>1, <1>2 DEF Control, ProgramOk, Blocks
<1>3. DOMAIN program[b].cfs = 1..n /\ CfOk(program, program[b].cfs[k])
  BY <1>1, <1>2 DEF Control, ProgramOk, Blocks
<1>4. 2 * k - 1 \in Items(b) /\ ((2 * k - 1) + 1) \div 2 = k /\ (2 * k - 1) % 2 = 1
  <2>1. k \in 1..n
    BY <1>3
  <2>2. 2 * k - 1 \in 1..2 * n /\ ((2 * k - 1) + 1) \div 2 = k /\ (2 * k - 1) % 2 = 1
    BY <2>1
  <2> QED
    BY <2>2 DEF Items
<1> PICK j \in Items(b) : (j + 1) \div 2 = k /\ j % 2 = 1
  BY <1>4
<1>5. Item(b, j).b = o.target /\ ~Item(b, j).cont
  <2>1. Item(b, j) = [b |-> IF j % 2 = 1 THEN o.target ELSE o.cont, cont |-> j % 2 = 0]
    BY Zenon DEF Item
  <2>2. j % 2 = 1 /\ (j % 2 = 0) = FALSE
    OBVIOUS
  <2>3. (IF j % 2 = 1 THEN o.target ELSE o.cont) = o.target
    BY <2>2
  <2>4. Item(b, j) = [b |-> o.target, cont |-> FALSE]
    BY <2>1, <2>2, <2>3, Zenon
  <2> QED
    BY <2>4
<1>6. ASSUME o.target # NoBlock, ~program[o.target].callCont
      PROVE  o.target \in compiled \/ IsTopLevel(o.target)
  <2>1. Visit(Item(b, j)) => Begun(Item(b, j).b)
    BY DEF IInv, Followed
  <2>2. ~Compiling
    BY DEF Compiling
  <2> QED
    BY <1>5, <1>6, <2>1, <2>2 DEF Visit, Begun
<1> QED
  BY <1>2, <1>3, <1>6

(* What a jump may be to. *)
Reaches(x) ==
  /\ x.needsTrans \subseteq Blocks \ compiled
  /\ \A l \in x.jumps : l \in labels \/ \E b \in Blocks : (Entrance(b) \/ b \in x.needsTrans) /\ l = Label("b", b)

LEMMA EnteredReaches ==
  ASSUME IInv, path = <<>>, NEW T \in Blocks, T \in compiled \/ IsTopLevel(T), NEW s, NEW args
  PROVE  Reaches(Entered(s, T, args))
<1>1. Entered(s, T, args).needsTrans = {}
      /\ Entered(s, T, args).jumps = IF IsTopLevel(T) THEN {Label("b", T)} ELSE {Label("reg_alloc", T)}
  BY DEF Entered, Outcome
<1>2. ~IsTopLevel(T) => Label("reg_alloc", T) \in labels
  BY DEF IInv, Labelled, Begun
<1> QED
  BY <1>1, <1>2 DEF Reaches, Entrance

LEMMA JumpReaches ==
  ASSUME IInv, path = <<>>, NEW s, NEW o, o.target \in Blocks
  PROVE  Reaches(Jump(s, o))
<1> PICK T \in Blocks : T = o.target
  OBVIOUS
<1>1. CASE ~InGroup(T) /\ ~IsTopLevel(T) /\ T \notin compiled
  <2>1. Jump(s, o) = JumpOutOfGroup(s, o)
    BY <1>1 DEF Jump
  <2>2. JumpOutOfGroup(s, o).needsTrans = {T} /\ JumpOutOfGroup(s, o).jumps = {Label("b", T)}
    BY DEF JumpOutOfGroup, Outcome
  <2> QED
    BY <1>1, <2>1, <2>2 DEF Reaches
<1>2. CASE ~(~InGroup(T) /\ ~IsTopLevel(T) /\ T \notin compiled)
  <2>1. T \in compiled \/ IsTopLevel(T)
    BY <1>2 DEF IInv, GroupOk, InGroup
  <2>2. PICK s1, args : Jump(s, o) = Entered(s1, T, args)
    BY <1>2 DEF Jump, JumpCompiled
  <2> QED
    BY <2>1, <2>2, EnteredReaches
<1> QED
  BY <1>1, <1>2

LEMMA ContinuesReaches ==
  ASSUME IInv, path = <<>>, NEW b \in Blocks, program[b].callCont
  PROVE  \A l \in Continues(b).jumps : l \in labels \/ (l = Label("b", b) /\ Entrance(b))
<1>1. Continues(b).jumps = {Label(IF IsTopLevel(b) \/ ~InGroup(b) THEN "b" ELSE "reg_alloc", b)}
  BY DEF Continues
<1>2. ~IsTopLevel(b) /\ InGroup(b) => Label("reg_alloc", b) \in labels
  BY DEF IInv, Labelled, Begun, GroupOk, InGroup
<1> QED
  BY <1>1, <1>2 DEF Entrance

LEMMA CfReaches ==
  ASSUME IInv, path = <<>>, NEW b \in Range(group), NEW k \in DOMAIN program[b].cfs,
         NEW o, o = program[b].cfs[k], NEW s
  PROVE  Reaches(CfCompiled(s, o))
<1>1. b \in Blocks /\ CfOk(program, o)
  BY LeadsTo
<1>2. NoBlock \notin Blocks
  BY DEF IInv, Control, ProgramOk, Blocks
<1>3. CASE o.type \in {"jump", "cjump"}
  BY <1>1, <1>3, JumpReaches DEF CfOk, Direct, Blocks, CfCompiled
<1>4. CASE o.type = "ijump"
  BY <1>4 DEF CfCompiled, IJump, Outcome, Reaches
<1>5. CASE o.type = "return"
  BY <1>5 DEF CfCompiled, Return, Outcome, Reaches
<1>6. CASE o.type = "unreachable"
  BY <1>6 DEF CfCompiled, Outcome, Reaches
<1>7. CASE o.type = "syscall"
  <2>1. o.target \in Blocks /\ ~program[o.target].callCont
    BY <1>1, <1>7 DEF CfOk, Direct, Blocks
  <2>2. o.target \in compiled \/ IsTopLevel(o.target)
    BY <1>2, <2>1, LeadsTo
  <2>3. ~IsTopLevel(o.target) => Label("reg_alloc", o.target) \in labels
    BY <2>1, <2>2 DEF IInv, Labelled, Begun
  <2>4. /\ Syscall(s, o).needsTrans = {}
        /\ Syscall(s, o).jumps = {Label(IF IsTopLevel(o.target) THEN "b" ELSE "reg_alloc", o.target)}
    BY DEF Syscall, Outcome
  <2>5. CfCompiled(s, o) = Syscall(s, o)
    BY <1>7 DEF CfCompiled
  <2> QED
    BY <2>1, <2>3, <2>4, <2>5 DEF Reaches, Entrance
<1>8. CASE o.type = "call"
  <2>1. /\ o.target \in Blocks /\ program[o.target].callTarget
        /\ o.cont \in Blocks /\ program[o.cont].callCont
    BY <1>1, <1>8 DEF CfOk, Direct, Calling, Blocks
  <2>2. /\ Call(s, o).needsTrans = {}
        /\ Call(s, o).jumps = Continues(o.cont).jumps \cup {Label("b", o.target)}
    BY DEF Call, Outcome
  <2>3. CfCompiled(s, o) = Call(s, o)
    BY <1>8 DEF CfCompiled
  <2>4. Entrance(o.target)
    BY <2>1 DEF Entrance, IsTopLevel
  <2> QED
    BY <2>1, <2>2, <2>3, <2>4, ContinuesReaches DEF Reaches
<1>9. CASE o.type = "icall"
  <2>1. o.cont \in Blocks /\ program[o.cont].callCont
    BY <1>1, <1>9 DEF CfOk, Calling, Blocks
  <2>2. ICall(s, o).needsTrans = {} /\ ICall(s, o).jumps = Continues(o.cont).jumps
    BY DEF ICall, Outcome
  <2>3. CfCompiled(s, o) = ICall(s, o)
    BY <1>9 DEF CfCompiled
  <2> QED
    BY <2>1, <2>2, <2>3, ContinuesReaches DEF Reaches
<1> QED
  BY <1>1, <1>3, <1>4, <1>5, <1>6, <1>7, <1>8, <1>9 DEF CfOk, Direct, Calling

LEMMA CompileCfIInv ==
  ASSUME IInv, CompileCf
  PROVE  IInv'
<1>1. /\ cf # <<0, 0>> /\ path = <<>> /\ Control
      /\ cf[1] \in DOMAIN group /\ cf[2] \in DOMAIN program[group[cf[1]]].cfs
  BY DEF CompileCf, IInv, GroupOk
<1> PICK i \in DOMAIN group : i = cf[1]
  BY <1>1
<1> PICK b \in Range(group) : b = group[i]
  BY DEF Range
<1> PICK k \in DOMAIN program[b].cfs : k = cf[2]
  BY <1>1
<1>2. PICK s : Written(i, k, s, CfCompiled(s, program[b].cfs[k]))
  BY <1>1 DEF CompileCf
<1> PICK x : x = CfCompiled(s, program[b].cfs[k])
  OBVIOUS
<1>3. Reaches(x)
  BY <1>1, CfReaches
<1>4. /\ UNCHANGED <<program, compiled, manual, path, labels>>
      /\ jumps' = jumps \cup x.jumps /\ needsTrans' = needsTrans \cup x.needsTrans
      /\ group' = <<>> \/ group' = group
  BY <1>1, <1>2 DEF CompileCf, Written
<1>5. cf' # <<0, 0>> => /\ group' = group /\ cf'[1] \in DOMAIN group
                        /\ cf'[2] \in DOMAIN program[group[cf'[1]]].cfs
  <2> PICK m \in Nat : m = Len(group) /\ DOMAIN group = 1..m
    BY <1>1 DEF Control
  <2>1. b \in Blocks /\ \A l \in DOMAIN group : group[l] \in Blocks
    BY <1>1 DEF Control, Range
  <2>2. \A z \in Blocks : Len(program[z].cfs) \in Nat \ {0} /\ DOMAIN program[z].cfs = 1..Len(program[z].cfs)
    BY <1>1 DEF Control, ProgramOk, Blocks
  <2> PICK n \in Nat \ {0} : n = Len(program[b].cfs) /\ DOMAIN program[b].cfs = 1..n
    BY <2>1, <2>2
  <2>3. /\ cf' = CASE k # n -> <<i, k + 1>> [] k = n /\ i < m -> <<i + 1, 1>> [] k = n /\ i = m -> <<0, 0>>
        /\ ~(k = n /\ i = m) => group' = group
    BY <1>2 DEF Written
  <2>4. i \in 1..m /\ k \in 1..n
    OBVIOUS
  <2>5. CASE k # n
    <3>1. cf' = <<i, k + 1>> /\ k + 1 \in 1..n /\ group' = group
      BY <2>3, <2>4, <2>5
    <3> QED
      BY <3>1
  <2>6. CASE k = n /\ i < m
    <3>1. cf' = <<i + 1, 1>> /\ i + 1 \in 1..m /\ group' = group
      BY <2>3, <2>4, <2>6
    <3>2. 1 \in DOMAIN program[group[i + 1]].cfs
      BY <2>1, <2>2, <3>1
    <3> QED
      BY <3>1, <3>2
  <2>7. CASE k = n /\ i = m
    BY <2>3, <2>4, <2>7
  <2> QED
    BY <2>4, <2>5, <2>6, <2>7
<1>6. MarksGrow /\ Blocks' = Blocks /\ Calls' = Calls
      /\ \A z : Items(z)' = Items(z) /\ \A j : Item(z, j)' = Item(z, j)
  BY <1>4, SameProgram DEF MarksGrow, Calls
<1>7. \A z : /\ IsTopLevel(z)' <=> IsTopLevel(z)
             /\ Entrance(z)' <=> Entrance(z) \/ z \in x.needsTrans
             /\ Begun(z)' <=> z \in compiled
             /\ Begun(z) <=> z \in compiled
  BY <1>1, <1>4, <1>6, TopLevelIs DEF Begun, Compiling, Entrance, IsTopLevel
<1>8. \A z : Visit(z)' => Visit(z)
  BY <1>4, <1>7 DEF Visit
<1>9. Control'
  <2>1. group' \in Seq(Blocks)
    <3>1. <<>> \in Seq(Blocks)
      OBVIOUS
    <3>2. group \in Seq(Blocks)
      BY <1>1 DEF Control
    <3> QED
      BY <1>4, <3>1, <3>2, Zenon
  <2>2. path' \in Seq(Calls)
    BY <1>1, <1>4 DEF Control
  <2>3. ProgramOk(program')
    BY <1>1, <1>4 DEF Control
  <2>4. {z \in Blocks : program[z].needsTrans} \subseteq needsTrans'
    BY <1>1, <1>4 DEF Control
  <2> QED
    BY <1>1, <1>4, <1>6, <2>1, <2>2, <2>3, <2>4 DEF Control
<1>10. PathOk'
  BY <1>1, <1>4 DEF PathOk
<1>11. GroupOk'
  <2>1. Range(group') \subseteq compiled'
    BY <1>4 DEF IInv, GroupOk, Range
  <2> QED
    BY <1>1, <1>4, <1>5, <2>1 DEF GroupOk, Range
<1>12. Followed'
  <2>1. CASE group' = <<>>
    BY <2>1 DEF Followed, Range
  <2>2. CASE group' = group
    BY <1>4, <1>6, <1>7, <1>8, <2>2 DEF IInv, Followed, Range
  <2> QED
    BY <1>4, <2>1, <2>2
<1>13. Labelled'
  <2> SUFFICES ASSUME NEW z \in Blocks, z \in compiled
               PROVE  /\ Entrance(z)' => Label("b", z) \in labels
                      /\ ~IsTopLevel(z) => Label("reg_alloc", z) \in labels
    BY <1>4, <1>6, <1>7 DEF Labelled, Label
  <2>1. z \notin x.needsTrans
    BY <1>3 DEF Reaches
  <2> QED
    BY <1>7, <2>1 DEF IInv, Labelled
<1>14. Jumped'
  <2> SUFFICES ASSUME NEW l \in jumps'
               PROVE  l \in labels \/ \E z \in Blocks : Entrance(z)' /\ l = Label("b", z)
    BY <1>4, <1>6 DEF Jumped, Label
  <2>1. CASE l \in jumps
    BY <1>7, <2>1 DEF IInv, Jumped
  <2>2. CASE l \in x.jumps
    BY <1>3, <1>7, <2>2 DEF Reaches
  <2> QED
    BY <1>4, <2>1, <2>2
<1> QED
  BY <1>9, <1>10, <1>11, <1>12, <1>13, <1>14 DEF IInv

-----------------------------------------------------------------------------
(* The theorem.                                                            *)

LEMMA NextIInv == IInv /\ [Next]_vars => IInv'
<1> SUFFICES ASSUME IInv, [Next]_vars
             PROVE  IInv'
  OBVIOUS
<1>1. CASE StartGroup
  BY <1>1, StartGroupIInv
<1>2. CASE CompileVar
  BY <1>2, Unaffected DEF CompileVar
<1>3. CASE FinishVars
  BY <1>3, FinishVarsIInv
<1>4. CASE Descend
  BY <1>4, DescendIInv
<1>5. CASE Ascend
  BY <1>5, AscendIInv
<1>6. CASE FinishGroup
  BY <1>6, FinishGroupIInv
<1>7. CASE CompileCf
  BY <1>7, CompileCfIInv
<1>8. CASE Finished
  BY <1>8, Unaffected DEF Finished, vars
<1>9. CASE UNCHANGED vars
  BY <1>9, Unaffected DEF vars
<1> QED
  BY <1>1, <1>2, <1>3, <1>4, <1>5, <1>6, <1>7, <1>8, <1>9 DEF Next

(* When all blocks are compiled, every entrance has been printed. *)
LEMMA InTheEnd == IInv => LabelsExist
<1> SUFFICES ASSUME IInv, AllCompiled
             PROVE  /\ jumps \subseteq labels
                    /\ \A b \in Blocks :
                         program[b].callTarget \/ program[b].callCont \/ program[b].needsTrans
                           => Label("b", b) \in labels
  BY DEF LabelsExist
<1>1. \A b \in Blocks : Entrance(b) => Label("b", b) \in labels
  BY DEF AllCompiled, Pending, IInv, Labelled, Begun
<1>2. \A b \in Blocks : program[b].callTarget \/ program[b].callCont \/ program[b].needsTrans => Entrance(b)
  BY DEF IInv, Control, Entrance, IsTopLevel
<1> QED
  BY <1>1, <1>2 DEF IInv, Jumped

(* Whatever the blocks of a program, the options and the number of         *)
(* registers: when generate_blocks has compiled the last group, each label *)
(* that a jump, a call, a translation block or a table names was printed.  *)
(* The generator decides to print bN when it assembles a block, and to     *)
(* jump there, for blocks it has not reached yet, before that.             *)
THEOREM LabelsAlwaysExist == Spec => []LabelsExist
<1>1. Init => IInv
  BY InitIInv
<1>2. IInv /\ [Next]_vars => IInv'
  BY NextIInv
<1>3. IInv => LabelsExist
  BY InTheEnd
<1> QED
  BY <1>1, <1>2, <1>3, PTL DEF Spec

=============================================================================

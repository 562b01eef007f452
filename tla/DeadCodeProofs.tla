--------------------------- MODULE DeadCodeProofs ---------------------------
(***************************************************************************)
(* Theorems about DeadCode, for every program the lifter may hand over,    *)
(* any number of blocks and every order of the work list.                  *)
(***************************************************************************)
EXTENDS DeadCode, FiniteSetTheorems, TLAPS

-----------------------------------------------------------------------------
(* Minima.                                                                 *)

(* The order of the natural numbers is well-founded. *)
LEMMA NatMin ==
  ASSUME NEW S \in SUBSET Nat, S # {}
  PROVE  \E x \in S : \A y \in S : x <= y
<1>1. PICK x \in S : \A y \in S : <<y, x>> \notin OpToRel(<, Nat)
  BY WFMin, NatLessThanWellFounded, Zenon
<1>2. \A y \in S : ~(y < x)
  BY <1>1, Zenon DEF OpToRel
<1> QED
  BY <1>2

-----------------------------------------------------------------------------
(* What the stronger theorems assume of the program.                       *)

(* No block is listed twice as predecessor of another. *)
ListedOnce == \A t \in Blocks, p \in Blocks : preds[t][p] \in {0, 1}

(* The marks of the first loop as they follow from the program alone. *)
FirstMarks(b) ==
  Reached(b, SideEffects(b) \cup UNION {InVars(b)[w] : w \in Of(b, {"store"})}, InVars(b))

(* The first loop does not come upon a rounding mode that is a variable,   *)
(* other than one it marks anyhow.                                         *)
RoundingMarked ==
  \A b \in Blocks : \A v \in FirstMarks(b) \cup Of(b, {"store"}) : Refs(b)[v] \subseteq FirstMarks(b)

-----------------------------------------------------------------------------
(* The inductive invariant.                                                *)

(* What stays as it was handed over. *)
Given ==
  /\ prog \in Programs
  /\ preds \in [Blocks -> [Blocks -> 0..2]]
  /\ \A t \in Blocks, p \in Blocks : t \in Targets(p) => preds[t][p] > 0

(* An operation that enters no block passes no arguments. *)
NoTarget ==
  \A b \in Blocks : \A k \in DOMAIN Cfs(b) : Cfs(b)[k].type \notin Direct => args[b][k] = <<>>

StoresStay == \A b \in Blocks : Of(b, {"store"}) \subseteq alive[b]

(* The blocks whose parameters have been compared with the marks. *)
Compared(b) == phase \in {"erase", "done"} \/ (phase = "remove" /\ b < at)

UsedInputs == \A b \in Blocks : Compared(b) => RangeOf(inputs[b]) \subseteq usage[b]

(* Each of the loops begins with the first block. *)
AtFirst == phase = "propagate" => at = 1

(* The part that holds for every program. *)
Base == Given /\ TypeOK /\ AtFirst /\ NoTarget /\ StoresStay /\ UsedInputs /\ NothingDangles

(* The blocks the first loop has visited. *)
Tracked(b) == phase # "track" \/ b < at

(* The marks are what is needed so far, and refer to what is there. *)
Unmarked == \A b \in Blocks : ~Tracked(b) => usage[b] = {}

MarksClosed ==
  \A b \in Blocks : Tracked(b) =>
    /\ SideEffects(b) \subseteq usage[b]
    /\ \A v \in usage[b] \cup Of(b, {"store"}) : Refs(b)[v] \subseteq usage[b]
    /\ Pinned(b) => Params \subseteq usage[b]

MarksAlive == \A b \in Blocks : usage[b] \subseteq alive[b]

(* A block that must keep its parameters has them all. *)
PinnedKeeps == \A b \in Blocks : Pinned(b) => RangeOf(inputs[b]) = Params

(* A parameter that is gone is not referred to, and so never marked. *)
Referred(b) == CfRefs(b) \cup UNION {Refs(b)[v] : v \in alive[b]}

Passed ==
  \A b \in Blocks : /\ phase \in {"track", "propagate"} => Params \cap Referred(b) \subseteq RangeOf(inputs[b])
                    /\ Params \cap usage[b] \subseteq RangeOf(inputs[b])

(* The variable that enters a marked parameter is marked in each           *)
(* predecessor, or the predecessor is still in the work list.              *)
Settled ==
  /\ \A t \in Blocks : Tracked(t) =>
       \A p \in ValidPreds(t) : \A x \in usage[t] \cap Params :
         prog[p].out[x] \in usage[p] \/ p \in pending
  /\ phase \in {"remove", "erase", "done"} => pending = {}

(* Every mark is in each closed set. *)
Everything == UNION {{<<b, v>> : v \in Ids(b)} : b \in Blocks}

MarksNeeded ==
  \A K \in SUBSET Everything : Closed(K) => \A b \in Blocks : \A v \in usage[b] : <<b, v>> \in K

(* The blocks the last loop has visited hold what is marked, and stores. *)
Swept ==
  \A b \in Blocks : phase = "done" \/ (phase = "erase" /\ b < at) => alive[b] = usage[b] \cup Of(b, {"store"})

(* The part that holds where no block is listed twice and the first loop   *)
(* misses no rounding mode.                                                *)
Marks ==
  /\ RoundingMarked
  /\ Unmarked /\ MarksClosed /\ MarksAlive /\ PinnedKeeps /\ Passed /\ Settled /\ Swept
  /\ MarksNeeded

-----------------------------------------------------------------------------
(* remove_indices_sorted.                                                  *)

(* The j-th of the places that are kept. *)
Below(K, m) == {h \in K : h < m}
Nth(K, j)   == CHOOSE i \in K : Cardinality({h \in K : h < i}) = j - 1

LEMMA PlacesFinite ==
  ASSUME NEW n \in Nat, NEW K \in SUBSET (1..n)
  PROVE  IsFiniteSet(K) /\ Cardinality(K) \in Nat
<1>1. IsFiniteSet(1..n)
  BY FS_Interval
<1>2. IsFiniteSet(K)
  BY <1>1, FS_Subset
<1> QED
  BY <1>2, FS_CardinalityType

LEMMA BelowFinite ==
  ASSUME NEW n \in Nat, NEW K \in SUBSET (1..n), NEW m
  PROVE  IsFiniteSet(Below(K, m)) /\ Cardinality(Below(K, m)) \in Nat
<1>1. Below(K, m) \in SUBSET (1..n)
  BY DEF Below
<1> QED
  BY <1>1, PlacesFinite

LEMMA BelowNext ==
  ASSUME NEW n \in Nat, NEW K \in SUBSET (1..n), NEW m \in 1..n
  PROVE  Cardinality(Below(K, m + 1))
           = IF m \in K THEN Cardinality(Below(K, m)) + 1 ELSE Cardinality(Below(K, m))
<1>1. CASE m \in K
  <2>1. \A h \in K : h < m + 1 <=> h < m \/ h = m
    OBVIOUS
  <2>2. Below(K, m + 1) = Below(K, m) \cup {m}
    BY <1>1, <2>1, Zenon DEF Below
  <2>3. m \notin Below(K, m)
    BY DEF Below
  <2>4. IsFiniteSet(Below(K, m))
    BY BelowFinite
  <2> QED
    BY <1>1, <2>2, <2>3, <2>4, FS_AddElement
<1>2. CASE m \notin K
  <2>1. \A h \in K : h < m + 1 <=> h < m
    BY <1>2
  <2>2. Below(K, m + 1) = Below(K, m)
    BY <2>1, Zenon DEF Below
  <2> QED
    BY <1>2, <2>2
<1> QED
  BY <1>1, <1>2

LEMMA NthKept ==
  ASSUME NEW n \in Nat, NEW K \in SUBSET (1..n), NEW j \in 1..Cardinality(K)
  PROVE  Nth(K, j) \in K /\ Cardinality(Below(K, Nth(K, j))) = j - 1
<1> DEFINE T == {m \in 1..(n + 1) : j <= Cardinality(Below(K, m))}
<1>1. n + 1 \in T
  <2>1. \A h \in K : h < n + 1
    OBVIOUS
  <2>2. Below(K, n + 1) = K
    BY <2>1, Zenon DEF Below
  <2> QED
    BY <2>2, PlacesFinite
<1>2. PICK m \in T : \A l \in T : m <= l
  <2>1. \A h \in T : h \in Nat
    OBVIOUS
  <2> HIDE DEF T
  <2>2. T \in SUBSET Nat /\ T # {}
    BY <1>1, <2>1, Zenon
  <2> QED
    BY <2>2, NatMin
<1>3. m # 1
  <2>1. \A h \in K : ~(h < 1)
    OBVIOUS
  <2>2. Below(K, 1) = {}
    BY <2>1, Zenon DEF Below
  <2>3. Cardinality(Below(K, 1)) = 0
    BY <2>2, FS_EmptySet
  <2>4. j <= Cardinality(Below(K, m)) /\ j > 0
    BY <1>2
  <2> QED
    BY <2>3, <2>4
<1> DEFINE i == m - 1
<1>4. i \in 1..n /\ i + 1 = m /\ i \notin T
  BY <1>2, <1>3
<1>5. Cardinality(Below(K, i)) \in Nat /\ Cardinality(Below(K, m)) \in Nat
  BY BelowFinite
<1>6. j <= Cardinality(Below(K, i + 1)) /\ ~(j <= Cardinality(Below(K, i)))
  BY <1>2, <1>4
<1> HIDE DEF T, i
<1>7. i \in K
  BY <1>4, <1>6, BelowNext
<1>8. Cardinality(Below(K, i)) = j - 1
  <2>1. Cardinality(Below(K, i + 1)) = Cardinality(Below(K, i)) + 1
    BY <1>4, <1>7, BelowNext
  <2> QED
    BY <2>1, <1>5, <1>6
<1>9. Nth(K, j) = CHOOSE l \in K : Cardinality(Below(K, l)) = j - 1
  BY DEF Nth, Below
<1> QED
  BY <1>7, <1>8, <1>9

LEMMA NthOnly ==
  ASSUME NEW n \in Nat, NEW K \in SUBSET (1..n), NEW i \in K
  PROVE  \E j \in 1..Cardinality(K) : Nth(K, j) = i
<1> DEFINE c(l) == Cardinality(Below(K, l))
           j    == c(i) + 1
<1>1. IsFiniteSet(K) /\ Cardinality(K) \in Nat
  BY PlacesFinite
<1>2. \A l : c(l) \in Nat
  BY BelowFinite
<1>3. ASSUME NEW l \in K, NEW B \in SUBSET K, Below(K, l) \subseteq B, l \in B
      PROVE  c(l) + 1 <= Cardinality(B)
  <2>1. IsFiniteSet(B)
    BY <1>1, FS_Subset
  <2>2. l \notin Below(K, l)
    BY DEF Below
  <2>5. IsFiniteSet(Below(K, l))
    BY BelowFinite
  <2>3. Cardinality(Below(K, l) \cup {l}) = c(l) + 1
    BY <2>2, <2>5, FS_AddElement
  <2>4. Below(K, l) \cup {l} \in SUBSET B
    BY <1>3
  <2> QED
    BY <2>1, <2>3, <2>4, FS_Subset
<1>4. j \in 1..Cardinality(K)
  <2>1. Below(K, i) \subseteq K
    BY DEF Below
  <2>2. c(i) + 1 <= Cardinality(K)
    BY <1>3, <2>1
  <2>3. c(i) \in Nat
    BY <1>2
  <2> HIDE DEF c
  <2> QED
    BY <1>1, <2>2, <2>3
<1>5. ASSUME NEW l \in K, NEW k \in K, l < k
      PROVE  c(l) < c(k)
  <2>1. \A h \in K : h < l => h < k
    BY <1>5
  <2>2. Below(K, l) \subseteq Below(K, k) /\ Below(K, k) \in SUBSET K
    BY <2>1, Zenon DEF Below
  <2>3. l \in Below(K, k)
    BY <1>5 DEF Below
  <2>4. c(l) + 1 <= c(k)
    BY <1>3, <2>2, <2>3
  <2> QED
    BY <1>2, <2>4
<1>6. \A l \in K : c(l) = c(i) => l = i
  <2> SUFFICES ASSUME NEW l \in K, c(l) = c(i), l # i
               PROVE  FALSE
    OBVIOUS
  <2>1. l < i \/ i < l
    OBVIOUS
  <2>2. c(i) \in Nat
    BY <1>2
  <2> HIDE DEF c
  <2> QED
    BY <1>5, <2>1, <2>2
<1>7. Nth(K, j) \in K /\ c(Nth(K, j)) = j - 1
  BY <1>4, NthKept
<1>8. j - 1 = c(i)
  BY <1>2
<1> HIDE DEF c, j
<1> QED
  BY <1>4, <1>6, <1>7, <1>8

Kept(n, I) == (1..n) \ I

LEMMA WithoutIs ==
  ASSUME NEW n \in Nat, NEW s, DOMAIN s = 1..n, NEW I
  PROVE  /\ Cardinality(Kept(n, I)) \in Nat
         /\ Without(s, I) = [j \in 1..Cardinality(Kept(n, I)) |-> s[Nth(Kept(n, I), j)]]
         /\ \A j \in 1..Cardinality(Kept(n, I)) :
              Nth(Kept(n, I), j) \in Kept(n, I) /\ Nth(Kept(n, I), j) \in 1..n
<1>1. Kept(n, I) \in SUBSET (1..n)
  BY DEF Kept
<1>2. Cardinality(Kept(n, I)) \in Nat
  BY <1>1, PlacesFinite
<1>3. Without(s, I) = [j \in 1..Cardinality(Kept(n, I)) |-> s[Nth(Kept(n, I), j)]]
  BY DEF Without, Nth, Kept
<1>4. \A j \in 1..Cardinality(Kept(n, I)) :
        Nth(Kept(n, I), j) \in Kept(n, I) /\ Nth(Kept(n, I), j) \in 1..n
  BY <1>1, NthKept
<1> QED
  BY <1>2, <1>3, <1>4

(* What is left of a sequence is what stands at the places not removed. *)
LEMMA RangeWithout ==
  ASSUME NEW n \in Nat, NEW s, DOMAIN s = 1..n, NEW I
  PROVE  RangeOf(Without(s, I)) = {s[i] : i \in (1..n) \ I}
<1> DEFINE K == Kept(n, I)
           m == Cardinality(K)
<1>1. /\ Without(s, I) = [j \in 1..m |-> s[Nth(K, j)]]
      /\ \A j \in 1..m : Nth(K, j) \in K
  BY WithoutIs
<1>2. \A i \in K : \E j \in 1..m : Nth(K, j) = i
  <2>1. K \in SUBSET (1..n)
    BY DEF Kept
  <2> QED
    BY <2>1, NthOnly
<1> HIDE DEF K, m
<1>3. RangeOf(Without(s, I)) = {s[Nth(K, j)] : j \in 1..m}
  BY <1>1 DEF RangeOf
<1>4. K = (1..n) \ I
  BY DEF K, Kept
<1> QED
  BY <1>1, <1>2, <1>3, <1>4

LEMMA WithoutSeq ==
  ASSUME NEW T, NEW s \in Seq(T), NEW I
  PROVE  Without(s, I) \in Seq(T)
<1> DEFINE n == Len(s)
           K == Kept(n, I)
           m == Cardinality(K)
<1>1. n \in Nat /\ DOMAIN s = 1..n /\ \A i \in 1..n : s[i] \in T
  OBVIOUS
<1> HIDE DEF n
<1>2. /\ m \in Nat
      /\ Without(s, I) = [j \in 1..m |-> s[Nth(K, j)]]
      /\ \A j \in 1..m : Nth(K, j) \in 1..n
  BY <1>1, WithoutIs
<1> HIDE DEF m, K
<1>3. \A j \in 1..m : s[Nth(K, j)] \in T
  BY <1>1, <1>2
<1> QED
  BY <1>2, <1>3

(* Removing places from a sequence and from its image keeps them aligned. *)
Image(s, f) == [i \in DOMAIN s |-> f[s[i]]]

LEMMA WithoutMapped ==
  ASSUME NEW n \in Nat, NEW s, DOMAIN s = 1..n, NEW f, NEW I
  PROVE  Without(Image(s, f), I) = Image(Without(s, I), f)
<1> DEFINE K == Kept(n, I)
           m == Cardinality(K)
           g == Image(s, f)
<1>1. DOMAIN g = 1..n /\ \A i \in 1..n : g[i] = f[s[i]]
  BY DEF Image
<1>2. /\ Without(s, I) = [j \in 1..m |-> s[Nth(K, j)]]
      /\ \A j \in 1..m : Nth(K, j) \in 1..n
  BY WithoutIs
<1> HIDE DEF g
<1>3. Without(g, I) = [j \in 1..m |-> g[Nth(K, j)]]
  BY <1>1, WithoutIs
<1> HIDE DEF K, m
<1>4. \A j \in 1..m : g[Nth(K, j)] = f[Without(s, I)[j]]
  BY <1>1, <1>2
<1>5. DOMAIN Without(s, I) = 1..m
  BY <1>2
<1> QED
  BY <1>3, <1>4, <1>5 DEF g, Image

-----------------------------------------------------------------------------
(* What is reached along edges: the start, the ends of its edges, and      *)
(* nothing that a closed set leaves out.                                   *)

LEMMA ReachedIn ==
  ASSUME NEW b, NEW S, NEW E
  PROVE  Reached(b, S, E) \subseteq Ids(b)
BY DEF Reached

LEMMA ReachedHolds ==
  ASSUME NEW b, NEW S \in SUBSET Ids(b), NEW E
  PROVE  S \subseteq Reached(b, S, E)
BY Zenon DEF Reached

LEMMA ReachedClosed ==
  ASSUME NEW b, NEW S, NEW E, NEW v \in Reached(b, S, E), E[v] \subseteq Ids(b)
  PROVE  E[v] \subseteq Reached(b, S, E)
BY Zenon DEF Reached

LEMMA ReachedLeast ==
  ASSUME NEW b, NEW S, NEW E, NEW M \in SUBSET Ids(b), S \subseteq M,
         \A w \in M : E[w] \subseteq M
  PROVE  Reached(b, S, E) \subseteq M
BY Zenon DEF Reached

-----------------------------------------------------------------------------
(* The program.                                                            *)

LEMMA VarsOk ==
  ASSUME Given, NEW b \in Blocks
  PROVE  /\ Params \subseteq Ids(b)
         /\ DOMAIN Refs(b) = Ids(b) /\ DOMAIN InVars(b) = Ids(b)
         /\ \A v \in Ids(b) : /\ Refs(b)[v] \subseteq Ids(b)
                             /\ InVars(b)[v] \subseteq Refs(b)[v]
         /\ \A v \in Params : Refs(b)[v] = {} /\ v \in Of(b, {"static"})
         /\ \A v \in Of(b, {"static"}) : Refs(b)[v] = {}
<1> DEFINE c == prog[b]
           n == Len(c.vars)
<1>1. CodeOk(c)
  BY ProgramsAssumption DEF Given
<1>2. /\ Statics <= n /\ c.vars \in Seq(Var(n))
      /\ \A v \in 1..n : /\ c.vars[v].kind = "static" => c.vars[v].ins = {} /\ c.vars[v].rm = 0
                        /\ v <= Statics => c.vars[v].kind = "static"
  BY <1>1 DEF CodeOk
<1>3. n \in Nat /\ Statics \in Nat
  BY <1>2, SizesAssumption
<1>4. \A v \in 1..n : c.vars[v] \in Var(n)
  BY <1>2, <1>3
<1>5. \A v \in 1..n : c.vars[v].ins \subseteq 1..n /\ c.vars[v].rm \in 0..n
  BY <1>4 DEF Var
<1>14. \A v \in 1..n : c.vars[v].kind = "static" => c.vars[v].ins = {} /\ c.vars[v].rm = 0
  BY <1>1, Zenon DEF CodeOk
<1> HIDE DEF c, n
<1>6. Ids(b) = 1..n
  BY DEF Ids, n, c
<1>7. /\ Refs(b) = [v \in 1..n |-> c.vars[v].ins \cup ({c.vars[v].rm} \ {0})]
      /\ InVars(b) = [v \in 1..n |-> c.vars[v].ins]
      /\ Of(b, {"static"}) = {v \in 1..n : c.vars[v].kind = "static"}
  BY DEF Ids, n, c, Refs, InVars, Of
<1>8. Params \subseteq 1..n
  BY <1>2, <1>3 DEF Params
<1>9. \A v \in Params : v <= Statics
  BY <1>3 DEF Params
<1>10. \A v \in 1..n : Refs(b)[v] \subseteq 1..n
  <2> TAKE v \in 1..n
  <2>1. c.vars[v].ins \subseteq 1..n
    BY <1>5
  <2>2. {c.vars[v].rm} \ {0} \subseteq 1..n
    BY <1>3, <1>5
  <2> QED
    BY <2>1, <2>2, <1>7
<1>11. \A v \in 1..n : InVars(b)[v] \subseteq Refs(b)[v]
  BY <1>7
<1>12. ASSUME NEW v \in Of(b, {"static"})
      PROVE  Refs(b)[v] = {}
  <2>1. v \in 1..n /\ c.vars[v].kind = "static"
    BY <1>7
  <2>2. c.vars[v].kind = "static" => c.vars[v].ins = {} /\ c.vars[v].rm = 0
    BY <1>14, <2>1
  <2> QED
    BY <1>7, <2>1, <2>2
<1>13. \A v \in Params : v \in Of(b, {"static"})
  BY <1>2, <1>7, <1>8, <1>9
<1> QED
  BY <1>6, <1>7, <1>8, <1>10, <1>11, <1>12, <1>13

LEMMA CfsOk ==
  ASSUME Given, NEW b \in Blocks
  PROVE  /\ prog[b].out \in [Params -> Ids(b)]
         /\ \A k \in DOMAIN Cfs(b) :
              /\ Cfs(b)[k].ins \subseteq Ids(b)
              /\ Cfs(b)[k].type \in Direct => Cfs(b)[k].target \in Blocks /\ Cfs(b)[k].target \in Targets(b)
              /\ Cfs(b)[k].type \notin Direct => Cfs(b)[k].target \notin Blocks
         /\ SideEffects(b) \subseteq Ids(b)
<1> DEFINE c == prog[b]
           n == Len(c.vars)
<1>1. CodeOk(c)
  BY ProgramsAssumption DEF Given
<1>2. /\ c.cfs \in Seq(Cf(n)) /\ c.out \in [1..Statics -> 1..n]
      /\ \A k \in DOMAIN c.cfs : c.cfs[k].type \in Direct <=> c.cfs[k].target # Null
  BY <1>1 DEF CodeOk
<1>3. \A k \in DOMAIN c.cfs : c.cfs[k] \in Cf(n)
  BY <1>2
<1>4. \A k \in DOMAIN c.cfs : c.cfs[k].ins \subseteq 1..n /\ c.cfs[k].target \in Blocks \cup {Null}
  BY <1>3 DEF Cf
<1>5. Null \notin Blocks
  BY SizesAssumption DEF Null, Blocks
<1> HIDE DEF c, n
<1>6. Ids(b) = 1..n /\ Cfs(b) = c.cfs /\ Params = 1..Statics
  BY DEF Ids, Cfs, Params, n, c
<1>7. prog[b].out \in [Params -> Ids(b)]
  BY <1>2, <1>6 DEF c
<1>8. \A k \in DOMAIN Cfs(b) :
        /\ Cfs(b)[k].ins \subseteq Ids(b)
        /\ Cfs(b)[k].type \in Direct => Cfs(b)[k].target \in Blocks /\ Cfs(b)[k].target # Null
        /\ Cfs(b)[k].type \notin Direct => Cfs(b)[k].target \notin Blocks
  BY <1>2, <1>4, <1>5, <1>6
<1>9. \A k \in DOMAIN Cfs(b) : Cfs(b)[k].target # Null => Cfs(b)[k].target \in Targets(b)
  BY DEF Targets
<1>10. RangeOf(prog[b].out) \subseteq Ids(b)
  BY <1>7 DEF RangeOf
<1>11. SideEffects(b) \subseteq Ids(b)
  <2> SUFFICES ASSUME NEW k \in DOMAIN Cfs(b), NEW v,
                      v \in Cfs(b)[k].ins \cup (IF Cfs(b)[k].type \in Escaping THEN RangeOf(prog[b].out) ELSE {})
               PROVE  v \in Ids(b)
    BY Zenon DEF SideEffects
  <2> QED
    BY <1>8, <1>10
<1> QED
  BY <1>7, <1>8, <1>9, <1>11

(* The valid predecessors are the blocks with an operation that enters. *)
LEMMA PredsOk ==
  ASSUME Given, NEW t \in Blocks
  PROVE  ValidPreds(t) = {p \in Blocks : t \in Targets(p)}
BY DEF Given, ValidPreds

(* No step changes the program or the predecessors. *)
Same == UNCHANGED <<prog, preds>>

LEMMA SameProgram ==
  ASSUME Same, NEW b
  PROVE  /\ Ids(b)' = Ids(b) /\ Cfs(b)' = Cfs(b) /\ Refs(b)' = Refs(b) /\ InVars(b)' = InVars(b)
         /\ SideEffects(b)' = SideEffects(b) /\ Targets(b)' = Targets(b)
         /\ ValidPreds(b)' = ValidPreds(b) /\ Pinned(b)' = Pinned(b)
         /\ Of(b, {"static"})' = Of(b, {"static"}) /\ Of(b, {"store"})' = Of(b, {"store"})
<1>1. prog' = prog /\ preds' = preds
  BY DEF Same
<1>2. \A c : Ids(c)' = Ids(c) /\ Cfs(c)' = Cfs(c)
  BY <1>1 DEF Ids, Cfs
<1>3. Refs(b)' = Refs(b) /\ InVars(b)' = InVars(b)
  BY <1>1, <1>2 DEF Refs, InVars
<1>4. SideEffects(b)' = SideEffects(b)
  BY <1>1, <1>2 DEF SideEffects
<1>5. \A c : Targets(c)' = Targets(c)
  BY <1>1, <1>2 DEF Targets
<1>6. ValidPreds(b)' = ValidPreds(b)
  BY <1>1, <1>5 DEF ValidPreds
<1>7. \A p : Removable(p, b)' = Removable(p, b)
  BY <1>1, <1>2 DEF Removable
<1>8. Pinned(b)' = Pinned(b)
  BY <1>6, <1>7 DEF Pinned
<1>9. Of(b, {"static"})' = Of(b, {"static"}) /\ Of(b, {"store"})' = Of(b, {"store"})
  BY <1>1, <1>2 DEF Of
<1> QED
  BY <1>2, <1>3, <1>4, <1>5, <1>6, <1>8, <1>9

LEMMA GivenStays ==
  ASSUME Given, Same
  PROVE  Given'
<1>1. \A b : Targets(b)' = Targets(b)
  BY SameProgram
<1> QED
  BY <1>1 DEF Given, Same

-----------------------------------------------------------------------------
(* remove_target_inputs and remove_indices_sorted.                         *)

(* The shape of inputs and args. *)
Lists ==
  /\ DOMAIN inputs = Blocks /\ DOMAIN args = Blocks
  /\ \A b \in Blocks : /\ inputs[b] \in Seq(Params)
                      /\ DOMAIN args[b] = DOMAIN Cfs(b)
                      /\ \A k \in DOMAIN Cfs(b) : args[b][k] \in Seq(Ids(b))

LEMMA ShortenedArg ==
  ASSUME Given, Lists, NEW t \in Blocks, NEW I, Remove(t, I),
         NEW p \in Blocks, NEW k \in DOMAIN Cfs(p)
  PROVE  /\ args'[p][k] \in Seq(Ids(p)) /\ RangeOf(args'[p][k]) \subseteq RangeOf(args[p][k])
         /\ Cfs(p)[k].type \notin Direct => args'[p][k] = args[p][k]
<1>1. args'[p][k] = IF p \in ValidPreds(t) /\ Cfs(p)[k].target = t
                    THEN IF preds[t][p] = 1 THEN Without(args[p][k], I)
                                            ELSE Without(Without(args[p][k], I), I)
                    ELSE args[p][k]
  BY DEF Remove, Shorten
<1>2. ASSUME NEW s \in Seq(Ids(p))
      PROVE  Without(s, I) \in Seq(Ids(p)) /\ RangeOf(Without(s, I)) \subseteq RangeOf(s)
  <2>1. Len(s) \in Nat /\ DOMAIN s = 1..Len(s)
    OBVIOUS
  <2>2. RangeOf(Without(s, I)) = {s[i] : i \in (1..Len(s)) \ I}
    BY <2>1, RangeWithout
  <2> QED
    BY <2>1, <2>2, WithoutSeq DEF RangeOf
<1>3. args[p][k] \in Seq(Ids(p))
  BY DEF Lists
<1>4. /\ Without(args[p][k], I) \in Seq(Ids(p))
      /\ RangeOf(Without(args[p][k], I)) \subseteq RangeOf(args[p][k])
  BY <1>2, <1>3
<1>5. /\ Without(Without(args[p][k], I), I) \in Seq(Ids(p))
      /\ RangeOf(Without(Without(args[p][k], I), I)) \subseteq RangeOf(Without(args[p][k], I))
  BY <1>2, <1>4
<1>6. Cfs(p)[k].type \notin Direct => Cfs(p)[k].target # t
  BY CfsOk
<1> QED
  BY <1>1, <1>3, <1>4, <1>5, <1>6

LEMMA Removed ==
  ASSUME Given, Lists, NoTarget, Same, NEW t \in Blocks, NEW I, Remove(t, I)
  PROVE  /\ Lists' /\ NoTarget'
         /\ RangeOf(inputs'[t]) = {inputs[t][i] : i \in DOMAIN inputs[t] \ I}
         /\ \A b \in Blocks : b # t => inputs'[b] = inputs[b]
         /\ \A b \in Blocks : CfRefs(b)' \subseteq CfRefs(b)
<1>1. /\ inputs' = [inputs EXCEPT ![t] = Without(inputs[t], I)]
      /\ args' = Shorten(t, I)
  BY DEF Remove
<1>2. DOMAIN inputs' = Blocks /\ inputs'[t] = Without(inputs[t], I)
      /\ \A b \in Blocks : b # t => inputs'[b] = inputs[b]
  BY <1>1 DEF Lists
<1>3. DOMAIN args' = Blocks /\ \A b \in Blocks : DOMAIN args'[b] = DOMAIN Cfs(b)
  BY <1>1 DEF Shorten
<1>4. \A b : Cfs(b)' = Cfs(b) /\ Ids(b)' = Ids(b) /\ SideEffects(b)' = SideEffects(b)
  BY SameProgram
<1>5. inputs[t] \in Seq(Params)
  BY DEF Lists
<1>6. inputs'[t] \in Seq(Params)
  BY <1>2, <1>5, WithoutSeq
<1>7. \A b \in Blocks : inputs'[b] \in Seq(Params)
  BY <1>2, <1>6 DEF Lists
<1>8. \A b \in Blocks : \A k \in DOMAIN Cfs(b) :
        /\ args'[b][k] \in Seq(Ids(b)) /\ RangeOf(args'[b][k]) \subseteq RangeOf(args[b][k])
        /\ Cfs(b)[k].type \notin Direct => args'[b][k] = args[b][k]
  BY ShortenedArg
<1>9. Lists'
  BY <1>2, <1>3, <1>4, <1>7, <1>8 DEF Lists
<1>10. NoTarget'
  BY <1>4, <1>8 DEF NoTarget
<1>11. RangeOf(inputs'[t]) = {inputs[t][i] : i \in DOMAIN inputs[t] \ I}
  <2>1. Len(inputs[t]) \in Nat /\ DOMAIN inputs[t] = 1..Len(inputs[t])
    BY <1>5
  <2> QED
    BY <1>2, <2>1, RangeWithout
<1>12. ASSUME NEW b \in Blocks
       PROVE  CfRefs(b)' \subseteq CfRefs(b)
  <2>1. CfRefs(b)' = SideEffects(b) \cup UNION {RangeOf(args'[b][k]) : k \in DOMAIN Cfs(b)}
    BY <1>4 DEF CfRefs, RangeOf
  <2>2. CfRefs(b) = SideEffects(b) \cup UNION {RangeOf(args[b][k]) : k \in DOMAIN Cfs(b)}
    BY DEF CfRefs
  <2>3. \A k \in DOMAIN Cfs(b) : RangeOf(args'[b][k]) \subseteq RangeOf(args[b][k])
    BY <1>8
  <2> QED
    BY <2>1, <2>2, <2>3, Zenon
<1> QED
  BY <1>2, <1>9, <1>10, <1>11, <1>12

LEMMA ListsShrink ==
  ASSUME Given, Lists, NoTarget, Same, NEW t \in Blocks, NEW I,
         Remove(t, I) \/ UNCHANGED <<args, inputs>>
  PROVE  /\ Lists' /\ NoTarget'
         /\ \A b \in Blocks : RangeOf(inputs'[b]) \subseteq RangeOf(inputs[b])
         /\ \A b \in Blocks : CfRefs(b)' \subseteq CfRefs(b)
<1>1. CASE Remove(t, I)
  <2>1. {inputs[t][i] : i \in DOMAIN inputs[t] \ I} \subseteq RangeOf(inputs[t])
    BY DEF RangeOf
  <2> QED
    BY <1>1, <2>1, Removed
<1>2. CASE UNCHANGED <<args, inputs>>
  <2>1. \A b : Cfs(b)' = Cfs(b) /\ Ids(b)' = Ids(b) /\ SideEffects(b)' = SideEffects(b)
    BY SameProgram
  <2>2. Lists' /\ NoTarget'
    BY <1>2, <2>1 DEF Lists, NoTarget
  <2>3. \A b : CfRefs(b)' = CfRefs(b)
    BY <1>2, <2>1 DEF CfRefs, RangeOf
  <2> QED
    BY <1>2, <2>2, <2>3
<1> QED
  BY <1>1, <1>2

-----------------------------------------------------------------------------
(* The part of the invariant that holds for every program.                 *)

(* The loops over the blocks. *)
LEMMA NextBlockOk ==
  ASSUME at \in Blocks, NEW then, NextBlock(then)
  PROVE  /\ at' \in Blocks
         /\ \/ at' = at + 1 /\ phase' = phase
            \/ at' = 1 /\ phase' = then /\ \A b \in Blocks : b < at \/ b = at
BY SizesAssumption DEF NextBlock, Blocks

LEMMA BaseLists ==
  ASSUME TypeOK
  PROVE  Lists
BY DEF TypeOK, Lists

LEMMA FunctionIsSeq ==
  ASSUME NEW m \in Nat, NEW S, NEW f \in [1..m -> S]
  PROVE  f \in Seq(S) /\ RangeOf(f) \subseteq S
BY DEF RangeOf

LEMMA InitBase == Init => Base
<1> SUFFICES ASSUME Init
             PROVE  Base
  OBVIOUS
<1>1. prog \in Programs
  BY DEF Init
<1>2. PICK r \in [Blocks -> [Blocks -> Repeats]] :
        preds = [t \in Blocks |-> [p \in Blocks |-> IF t \in Connected(prog, p) THEN r[t][p] ELSE 0]]
  BY DEF Init
<1>3. \A t \in Blocks, p \in Blocks : r[t][p] \in {1, 2}
  BY RepeatsAssumption
<1>4. /\ preds \in [Blocks -> [Blocks -> 0..2]]
      /\ \A t \in Blocks, p \in Blocks : t \in Connected(prog, p) => preds[t][p] > 0
  <2>1. \A t \in Blocks, p \in Blocks :
          preds[t][p] = IF t \in Connected(prog, p) THEN r[t][p] ELSE 0
    BY <1>2
  <2>2. \A t \in Blocks, p \in Blocks : (IF t \in Connected(prog, p) THEN r[t][p] ELSE 0) \in 0..2
    BY <1>3
  <2> QED
    BY <1>2, <1>3, <2>1, <2>2
<1>5. \A t, p \in Blocks : t \in Targets(p) => t \in Connected(prog, p)
  BY DEF Targets, Connected, Cfs
<1>6. Given
  BY <1>1, <1>4, <1>5 DEF Given
<1>7. /\ inputs = [b \in Blocks |-> [i \in Params |-> i]]
      /\ args = [b \in Blocks |-> [k \in DOMAIN Cfs(b) |->
                  IF Cfs(b)[k].type \in Direct THEN prog[b].out ELSE <<>>]]
      /\ alive = [b \in Blocks |-> Ids(b)]
      /\ usage = [b \in Blocks |-> {}]
      /\ pending = {} /\ phase = "track" /\ at = 1
  BY DEF Init, InitialArgs, Cfs
<1>8. Params = 1..Statics /\ Statics \in Nat /\ 1 \in Blocks
  BY SizesAssumption DEF Params, Blocks
<1>9. \A b \in Blocks : inputs[b] \in Seq(Params) /\ RangeOf(inputs[b]) = Params
  BY <1>7, <1>8 DEF RangeOf
<1>10. \A b \in Blocks : \A k \in DOMAIN Cfs(b) :
         args[b][k] \in Seq(Ids(b)) /\ RangeOf(args[b][k]) \subseteq Ids(b)
  <2> TAKE b \in Blocks
  <2> TAKE k \in DOMAIN Cfs(b)
  <2>1. args[b][k] = IF Cfs(b)[k].type \in Direct THEN prog[b].out ELSE <<>>
    BY <1>7
  <2>2. prog[b].out \in [1..Statics -> Ids(b)]
    BY <1>6, <1>8, CfsOk
  <2>3. prog[b].out \in Seq(Ids(b)) /\ RangeOf(prog[b].out) \subseteq Ids(b)
    BY <2>2, <1>8, FunctionIsSeq
  <2>4. <<>> \in Seq(Ids(b)) /\ RangeOf(<<>>) \subseteq Ids(b)
    BY DEF RangeOf
  <2> QED
    BY <2>1, <2>3, <2>4
<1>11. TypeOK
  <2>1. \A b \in Blocks : DOMAIN args[b] = DOMAIN Cfs(b) /\ alive[b] = Ids(b) /\ usage[b] = {}
    BY <1>7
  <2>2. DOMAIN inputs = Blocks /\ DOMAIN args = Blocks /\ DOMAIN alive = Blocks /\ DOMAIN usage = Blocks
    BY <1>7
  <2> QED
    BY <1>4, <1>7, <1>8, <1>9, <1>10, <2>1, <2>2 DEF TypeOK
<1>12. NoTarget
  BY <1>7 DEF NoTarget
<1>13. StoresStay
  BY <1>7 DEF StoresStay, Of
<1>14. UsedInputs
  BY <1>7 DEF UsedInputs, Compared
<1>16. AtFirst
  BY <1>7 DEF AtFirst
<1>15. NothingDangles
  <2> SUFFICES ASSUME NEW b \in Blocks
               PROVE  RangeOf(inputs[b]) \cup CfRefs(b) \cup UNION {Refs(b)[v] : v \in alive[b]} \subseteq alive[b]
    BY DEF NothingDangles
  <2>1. alive[b] = Ids(b)
    BY <1>7
  <2>2. CfRefs(b) \subseteq Ids(b)
    BY <1>6, <1>10, CfsOk DEF CfRefs
  <2>3. UNION {Refs(b)[v] : v \in alive[b]} \subseteq Ids(b)
    BY <1>6, <2>1, VarsOk
  <2>4. RangeOf(inputs[b]) \subseteq Ids(b)
    BY <1>6, <1>9, VarsOk
  <2> QED
    BY <2>1, <2>2, <2>3, <2>4
<1> QED
  BY <1>6, <1>11, <1>12, <1>13, <1>14, <1>15, <1>16 DEF Base

(* A sweep keeps what it spares and what is referred to. *)
LEMMA SurvivorsOk ==
  ASSUME Base, NEW b \in Blocks, NEW spared
  PROVE  /\ Survivors(b, spared) \subseteq alive[b]
         /\ alive[b] \cap spared \subseteq Survivors(b, spared)
         /\ CfRefs(b) \subseteq Survivors(b, spared)
         /\ \A v \in Survivors(b, spared) : Refs(b)[v] \subseteq Survivors(b, spared)
<1> DEFINE S == alive[b] \cap (spared \cup CfRefs(b))
           R == Reached(b, S, Refs(b))
<1>1. Survivors(b, spared) = alive[b] \cap R
  BY DEF Survivors
<1>2. alive[b] \subseteq Ids(b) /\ CfRefs(b) \subseteq alive[b] /\ \A v \in alive[b] : Refs(b)[v] \subseteq alive[b]
  BY DEF Base, TypeOK, NothingDangles
<1>3. S \subseteq R
  <2>1. S \in SUBSET Ids(b)
    BY <1>2
  <2> QED
    BY <2>1, ReachedHolds
<1>4. \A v \in R : Refs(b)[v] \subseteq R
  <2>1. R \subseteq Ids(b)
    BY ReachedIn
  <2>2. \A v \in R : Refs(b)[v] \subseteq Ids(b)
    BY <2>1, VarsOk DEF Base
  <2> QED
    BY <2>2, ReachedClosed
<1> HIDE DEF R
<1> QED
  BY <1>1, <1>2, <1>3, <1>4

(* The type invariant and what dangles, from the parts a step leaves. *)
LEMMA TypeStays ==
  ASSUME Base, Same, Lists',
         DOMAIN alive' = Blocks, DOMAIN usage' = Blocks,
         \A b \in Blocks : alive'[b] \subseteq Ids(b) /\ usage'[b] \subseteq Ids(b),
         pending' \subseteq Blocks, at' \in Blocks,
         phase' \in {"track", "propagate", "remove", "erase", "done"}
  PROVE  TypeOK'
<1>1. \A b : Ids(b)' = Ids(b) /\ Cfs(b)' = Cfs(b)
  BY SameProgram
<1>2. preds' \in [Blocks -> [Blocks -> 0..2]]
  BY DEF Same, Base, Given
<1>3. /\ DOMAIN inputs' = Blocks /\ DOMAIN args' = Blocks
      /\ \A b \in Blocks : /\ inputs'[b] \in Seq(Params)
                          /\ DOMAIN args'[b] = DOMAIN Cfs(b)
                          /\ \A k \in DOMAIN Cfs(b) : args'[b][k] \in Seq(Ids(b))
  BY <1>1 DEF Lists
<1> QED
  BY <1>1, <1>2, <1>3 DEF TypeOK

LEMMA DanglesNot ==
  ASSUME Base, Same,
         \A b \in Blocks : /\ RangeOf(inputs'[b]) \subseteq alive'[b]
                         /\ CfRefs(b)' \subseteq alive'[b]
                         /\ \A v \in alive'[b] : Refs(b)[v] \subseteq alive'[b]
  PROVE  NothingDangles'
<1> SUFFICES ASSUME NEW b \in Blocks
             PROVE  RangeOf(inputs'[b]) \cup CfRefs(b)' \cup UNION {Refs(b)'[v] : v \in alive'[b]} \subseteq alive'[b]
  BY DEF NothingDangles, RangeOf
<1>1. Refs(b)' = Refs(b)
  BY SameProgram
<1> QED
  BY <1>1, Zenon

LEMMA TrackBase ==
  ASSUME Base, Track
  PROVE  Base'
<1> DEFINE b     == at
           left  == Survivors(b, Of(b, {"static", "store"}))
           marks == Marked(b) \cup (IF Pinned(b) THEN RangeOf(inputs[b]) ELSE {})
<1>1. b \in Blocks /\ Given /\ Lists /\ NoTarget
  BY BaseLists DEF Base, TypeOK
<1>2. /\ phase = "track" /\ Same
      /\ alive' = [alive EXCEPT ![b] = left]
      /\ usage' = [usage EXCEPT ![b] = marks]
      /\ pending' = pending \/ pending' = pending \cup ValidPreds(b)
      /\ NextBlock("propagate")
  BY DEF Track, Same
<1>3. PICK I : Remove(b, I) \/ UNCHANGED <<args, inputs>>
  BY DEF Track
<1>4. Given'
  BY <1>1, <1>2, GivenStays
<1>5. /\ Lists' /\ NoTarget'
      /\ \A c \in Blocks : RangeOf(inputs'[c]) \subseteq RangeOf(inputs[c])
      /\ \A c \in Blocks : CfRefs(c)' \subseteq CfRefs(c)
  BY <1>1, <1>2, <1>3, ListsShrink
<1>6. at' \in Blocks /\ phase' \in {"track", "propagate"} /\ AtFirst'
  BY <1>1, <1>2, NextBlockOk DEF AtFirst
<1>7. /\ left \subseteq alive[b] /\ CfRefs(b) \subseteq left
      /\ alive[b] \cap Of(b, {"static", "store"}) \subseteq left
      /\ \A v \in left : Refs(b)[v] \subseteq left
  BY <1>1, SurvivorsOk
<1>8. /\ DOMAIN alive = Blocks /\ DOMAIN usage = Blocks
      /\ \A c \in Blocks : alive[c] \subseteq Ids(c) /\ usage[c] \subseteq Ids(c)
      /\ pending \subseteq Blocks
  BY DEF Base, TypeOK
<1>9. marks \subseteq Ids(b)
  <2>1. RangeOf(inputs[b]) \subseteq Ids(b)
    BY <1>1, <1>8 DEF Base, NothingDangles
  <2>2. Marked(b) \subseteq Ids(b)
    BY ReachedIn DEF Marked
  <2> QED
    BY <2>1, <2>2
<1>10. RangeOf(inputs[b]) \subseteq left
  <2>1. RangeOf(inputs[b]) \subseteq Params
    BY <1>1 DEF Lists, RangeOf
  <2>2. \A v \in Params : v \in Of(b, {"static"})
    BY <1>1, VarsOk
  <2>3. Of(b, {"static"}) \subseteq Of(b, {"static", "store"})
    BY DEF Of
  <2>4. RangeOf(inputs[b]) \subseteq alive[b]
    BY <1>1 DEF Base, NothingDangles
  <2> QED
    BY <1>7, <2>1, <2>2, <2>3, <2>4
<1>11. Of(b, {"store"}) \subseteq left
  <2>1. Of(b, {"store"}) \subseteq alive[b]
    BY <1>1 DEF Base, StoresStay
  <2>2. Of(b, {"store"}) \subseteq Of(b, {"static", "store"})
    BY DEF Of
  <2> QED
    BY <1>7, <2>1, <2>2
<1> HIDE DEF left, marks, b
<1>12. /\ DOMAIN alive' = Blocks /\ DOMAIN usage' = Blocks
       /\ \A c \in Blocks : /\ alive'[c] = IF c = b THEN left ELSE alive[c]
                           /\ usage'[c] = IF c = b THEN marks ELSE usage[c]
  BY <1>2, <1>8
<1>13. TypeOK'
  <2>1. \A c \in Blocks : alive'[c] \subseteq Ids(c) /\ usage'[c] \subseteq Ids(c)
    BY <1>7, <1>8, <1>9, <1>12
  <2>2. pending' \subseteq Blocks
    BY <1>2, <1>8 DEF ValidPreds
  <2> QED
    BY <1>2, <1>5, <1>6, <1>12, <2>1, <2>2, TypeStays
<1>14. NothingDangles'
  <2> SUFFICES ASSUME NEW c \in Blocks
               PROVE  /\ RangeOf(inputs'[c]) \subseteq alive'[c] /\ CfRefs(c)' \subseteq alive'[c]
                      /\ \A v \in alive'[c] : Refs(c)[v] \subseteq alive'[c]
    BY <1>2, DanglesNot
  <2>1. /\ RangeOf(inputs[c]) \subseteq alive[c] /\ CfRefs(c) \subseteq alive[c]
        /\ \A v \in alive[c] : Refs(c)[v] \subseteq alive[c]
    BY DEF Base, NothingDangles
  <2>2. RangeOf(inputs'[c]) \subseteq RangeOf(inputs[c]) /\ CfRefs(c)' \subseteq CfRefs(c)
    BY <1>5
  <2>3. CASE c = b
    BY <1>7, <1>10, <1>12, <2>2, <2>3
  <2>4. CASE c # b
    BY <1>12, <2>1, <2>2, <2>4
  <2> QED
    BY <2>3, <2>4
<1>15. StoresStay'
  <2>1. \A c : Of(c, {"store"})' = Of(c, {"store"})
    BY <1>2, SameProgram
  <2> QED
    BY <1>11, <1>12, <2>1 DEF Base, StoresStay
<1>16. UsedInputs'
  BY <1>6 DEF UsedInputs, Compared
<1> QED
  BY <1>4, <1>5, <1>6, <1>13, <1>14, <1>15, <1>16 DEF Base

(* The steps that leave variables, parameters and arguments alone. *)
LEMMA MarkingBase ==
  ASSUME Base, Same, UNCHANGED <<inputs, args, alive>>,
         DOMAIN usage' = Blocks,
         \A b \in Blocks : usage[b] \subseteq usage'[b] /\ usage'[b] \subseteq Ids(b),
         pending' \subseteq Blocks, at' \in Blocks,
         phase' \in {"track", "propagate", "remove", "erase", "done"},
         \A b \in Blocks : Compared(b)' => Compared(b), AtFirst'
  PROVE  Base'
<1>1. Given /\ Given' /\ Lists /\ NoTarget
  BY GivenStays, BaseLists DEF Base
<1>2. \A b : /\ Ids(b)' = Ids(b) /\ Cfs(b)' = Cfs(b) /\ Of(b, {"store"})' = Of(b, {"store"})
            /\ SideEffects(b)' = SideEffects(b)
  BY SameProgram
<1>3. Lists' /\ NoTarget' /\ \A b \in Blocks : CfRefs(b)' = CfRefs(b)
  BY <1>1, <1>2 DEF Lists, NoTarget, CfRefs, RangeOf
<1>4. TypeOK'
  <2>1. DOMAIN alive' = Blocks /\ \A b \in Blocks : alive'[b] \subseteq Ids(b)
    BY DEF Base, TypeOK
  <2> QED
    BY <1>3, <2>1, TypeStays
<1>5. NothingDangles'
  <2>1. \A b \in Blocks : /\ RangeOf(inputs[b]) \subseteq alive[b] /\ CfRefs(b) \subseteq alive[b]
                        /\ \A v \in alive[b] : Refs(b)[v] \subseteq alive[b]
    BY DEF Base, NothingDangles
  <2> QED
    BY <1>3, <2>1, DanglesNot
<1>6. StoresStay'
  BY <1>2 DEF Base, StoresStay
<1>7. UsedInputs'
  BY DEF Base, UsedInputs, RangeOf
<1> QED
  BY <1>1, <1>3, <1>4, <1>5, <1>6, <1>7 DEF Base

(* What a visit of the work list marks. *)
NewMarks(b) == Reached(b, AskedFor(b) \ usage[b], [v \in Ids(b) |-> Refs(b)[v] \ usage[b]])

LEMMA PropagateIs ==
  ASSUME TypeOK, NEW b \in Blocks, Propagate(b)
  PROVE  /\ phase = "propagate" /\ phase' = phase /\ Same /\ UNCHANGED <<inputs, args, alive, at>>
         /\ DOMAIN usage' = Blocks
         /\ \A c \in Blocks : usage'[c] = IF c = b THEN usage[c] \cup NewMarks(c) ELSE usage[c]
         /\ pending' = (pending \ {b}) \cup (IF Requeue(b, NewMarks(b)) THEN ValidPreds(b) ELSE {})
BY DEF Propagate, NewMarks, Same, TypeOK

LEMMA PropagateBase ==
  ASSUME Base, NEW b \in Blocks, Propagate(b)
  PROVE  Base'
<1>1. TypeOK
  BY DEF Base
<1>2. /\ phase = "propagate" /\ phase' = phase /\ Same /\ UNCHANGED <<inputs, args, alive, at>>
      /\ DOMAIN usage' = Blocks
      /\ \A c \in Blocks : usage'[c] = IF c = b THEN usage[c] \cup NewMarks(c) ELSE usage[c]
      /\ pending' = (pending \ {b}) \cup (IF Requeue(b, NewMarks(b)) THEN ValidPreds(b) ELSE {})
  BY <1>1, PropagateIs
<1>3. NewMarks(b) \subseteq Ids(b)
  BY ReachedIn DEF NewMarks
<1>4. \A c \in Blocks : usage[c] \subseteq usage'[c] /\ usage'[c] \subseteq Ids(c)
  BY <1>1, <1>2, <1>3 DEF TypeOK
<1>5. pending' \subseteq Blocks
  BY <1>1, <1>2 DEF TypeOK, ValidPreds
<1>6. at' \in Blocks /\ AtFirst' /\ \A c \in Blocks : Compared(c)' => Compared(c)
  BY <1>1, <1>2 DEF TypeOK, Compared, Base, AtFirst
<1> QED
  BY <1>2, <1>4, <1>5, <1>6, MarkingBase

LEMMA PropagatedBase ==
  ASSUME Base, Propagated
  PROVE  Base'
<1>1. /\ Same /\ UNCHANGED <<inputs, args, alive, usage, pending, at>>
      /\ phase = "propagate" /\ phase' = "remove"
  BY DEF Propagated, Same
<1>2. /\ DOMAIN usage' = Blocks /\ pending' \subseteq Blocks /\ at' \in Blocks
      /\ \A b \in Blocks : usage[b] \subseteq usage'[b] /\ usage'[b] \subseteq Ids(b)
  BY <1>1 DEF Base, TypeOK
<1>3. AtFirst' /\ \A b \in Blocks : Compared(b)' => Compared(b)
  <2>1. at' = 1
    BY <1>1 DEF Base, AtFirst
  <2> QED
    BY <1>1, <2>1, SizesAssumption DEF AtFirst, Compared, Blocks
<1> QED
  BY <1>1, <1>2, <1>3, MarkingBase

LEMMA RemoveInputsBase ==
  ASSUME Base, RemoveInputs
  PROVE  Base'
<1> DEFINE b      == at
           unused == {i \in DOMAIN inputs[b] : inputs[b][i] \notin usage[b]}
<1>1. b \in Blocks /\ Given /\ Lists /\ NoTarget /\ TypeOK
  BY BaseLists DEF Base, TypeOK
<1>2. /\ phase = "remove" /\ Same /\ UNCHANGED <<alive, pending>> /\ NextBlock("erase")
      /\ \/ unused # {} /\ ~Pinned(b) /\ Remove(b, unused)
         \/ ~(unused # {} /\ ~Pinned(b)) /\ UNCHANGED <<args, inputs>>
      /\ usage' = IF unused # {} /\ Pinned(b)
                  THEN [usage EXCEPT ![b] = @ \cup RangeOf(inputs[b])] ELSE usage
  BY DEF RemoveInputs, Same
<1>3. Remove(b, unused) \/ UNCHANGED <<args, inputs>>
  BY <1>2
<1>4. /\ Lists' /\ NoTarget' /\ Given'
      /\ \A c \in Blocks : RangeOf(inputs'[c]) \subseteq RangeOf(inputs[c])
      /\ \A c \in Blocks : CfRefs(c)' \subseteq CfRefs(c)
  BY <1>1, <1>2, <1>3, ListsShrink, GivenStays
<1>5. RangeOf(inputs'[b]) \subseteq usage'[b]
  <2>1. CASE unused # {} /\ ~Pinned(b)
    <3>1. RangeOf(inputs'[b]) = {inputs[b][i] : i \in DOMAIN inputs[b] \ unused}
      BY <1>1, <1>2, <2>1, Removed
    <3>2. usage' = usage
      BY <1>2, <2>1
    <3> QED
      BY <3>1, <3>2
  <2>2. CASE unused # {} /\ Pinned(b)
    <3>1. inputs' = inputs /\ usage'[b] = usage[b] \cup RangeOf(inputs[b])
      BY <1>1, <1>2, <2>2 DEF TypeOK
    <3> QED
      BY <3>1
  <2>3. CASE unused = {}
    <3>1. inputs' = inputs /\ usage' = usage
      BY <1>2, <2>3
    <3> QED
      BY <2>3, <3>1 DEF RangeOf
  <2> QED
    BY <2>1, <2>2, <2>3
<1>6. /\ DOMAIN usage' = Blocks
      /\ \A c \in Blocks : usage[c] \subseteq usage'[c] /\ usage'[c] \subseteq Ids(c)
  <2>1. RangeOf(inputs[b]) \subseteq Ids(b) /\ \A c \in Blocks : usage[c] \subseteq Ids(c)
    BY <1>1 DEF Base, NothingDangles, TypeOK
  <2>2. DOMAIN usage = Blocks
    BY <1>1 DEF TypeOK
  <2>3. \/ usage' = usage
        \/ usage' = [usage EXCEPT ![b] = usage[b] \cup RangeOf(inputs[b])]
    BY <1>2
  <2> HIDE DEF b
  <2> QED
    BY <2>1, <2>2, <2>3
<1> HIDE DEF unused
<1>7. /\ at' \in Blocks
      /\ \A c \in Blocks : Compared(c)' => Compared(c) \/ c = b
      /\ phase' \in {"remove", "erase"}
  <2>1. /\ at' \in Blocks
        /\ \/ at' = at + 1 /\ phase' = phase
           \/ at' = 1 /\ phase' = "erase" /\ \A c \in Blocks : c < at \/ c = at
    BY <1>1, <1>2, NextBlockOk
  <2>2. \A c \in Blocks : c < at + 1 => c < at \/ c = at
    BY <1>1, SizesAssumption DEF Blocks
  <2> QED
    BY <1>2, <2>1, <2>2 DEF Compared
<1>8. TypeOK'
  <2>1. DOMAIN alive' = Blocks /\ \A c \in Blocks : alive'[c] \subseteq Ids(c)
    BY <1>1, <1>2 DEF TypeOK
  <2>2. pending' \subseteq Blocks
    BY <1>1, <1>2 DEF TypeOK
  <2> QED
    BY <1>2, <1>4, <1>6, <1>7, <2>1, <2>2, TypeStays
<1>9. NothingDangles'
  <2> SUFFICES ASSUME NEW c \in Blocks
               PROVE  /\ RangeOf(inputs'[c]) \subseteq alive'[c] /\ CfRefs(c)' \subseteq alive'[c]
                      /\ \A v \in alive'[c] : Refs(c)[v] \subseteq alive'[c]
    BY <1>2, DanglesNot
  <2>1. /\ RangeOf(inputs[c]) \subseteq alive[c] /\ CfRefs(c) \subseteq alive[c]
        /\ \A v \in alive[c] : Refs(c)[v] \subseteq alive[c]
    BY DEF Base, NothingDangles
  <2>2. RangeOf(inputs'[c]) \subseteq RangeOf(inputs[c]) /\ CfRefs(c)' \subseteq CfRefs(c)
    BY <1>4
  <2>3. alive' = alive
    BY <1>2
  <2> QED
    BY <2>1, <2>2, <2>3
<1>10. StoresStay'
  <2>1. \A c : Of(c, {"store"})' = Of(c, {"store"})
    BY <1>2, SameProgram
  <2> QED
    BY <1>2, <2>1 DEF Base, StoresStay
<1>11. UsedInputs'
  <2> SUFFICES ASSUME NEW c \in Blocks, Compared(c)'
               PROVE  RangeOf(inputs'[c]) \subseteq usage'[c]
    BY DEF UsedInputs, RangeOf
  <2>1. CASE c = b
    BY <1>5, <2>1
  <2>2. CASE c # b
    <3>1. RangeOf(inputs[c]) \subseteq usage[c]
      BY <1>7, <2>2 DEF Base, UsedInputs
    <3> QED
      BY <1>4, <1>6, <3>1
  <2> QED
    BY <2>1, <2>2
<1>12. AtFirst'
  BY <1>7 DEF AtFirst
<1> QED
  BY <1>4, <1>8, <1>9, <1>10, <1>11, <1>12 DEF Base

LEMMA EraseBase ==
  ASSUME Base, Erase
  PROVE  Base'
<1> DEFINE b    == at
           left == Survivors(b, usage[b] \cup Of(b, {"store"}))
<1>1. b \in Blocks /\ Given /\ Lists /\ NoTarget /\ TypeOK
  BY BaseLists DEF Base, TypeOK
<1>2. /\ phase = "erase" /\ Same /\ UNCHANGED <<inputs, args, usage, pending>> /\ NextBlock("done")
      /\ alive' = [alive EXCEPT ![b] = left]
  BY DEF Erase, Same
<1>3. /\ Lists' /\ NoTarget' /\ Given'
      /\ \A c \in Blocks : CfRefs(c)' \subseteq CfRefs(c)
  BY <1>1, <1>2, ListsShrink, GivenStays
<1>4. at' \in Blocks /\ phase' \in {"erase", "done"}
  BY <1>1, <1>2, NextBlockOk
<1>5. /\ left \subseteq alive[b] /\ CfRefs(b) \subseteq left
      /\ alive[b] \cap (usage[b] \cup Of(b, {"store"})) \subseteq left
      /\ \A v \in left : Refs(b)[v] \subseteq left
  BY <1>1, SurvivorsOk
<1>6. RangeOf(inputs[b]) \subseteq left
  <2>1. RangeOf(inputs[b]) \subseteq usage[b]
    BY <1>1, <1>2 DEF Base, UsedInputs, Compared
  <2>2. RangeOf(inputs[b]) \subseteq alive[b]
    BY <1>1 DEF Base, NothingDangles
  <2> QED
    BY <1>5, <2>1, <2>2
<1>7. Of(b, {"store"}) \subseteq left
  BY <1>1, <1>5 DEF Base, StoresStay
<1> HIDE DEF left, b
<1>8. DOMAIN alive' = Blocks /\ \A c \in Blocks : alive'[c] = IF c = b THEN left ELSE alive[c]
  BY <1>1, <1>2 DEF TypeOK
<1>9. TypeOK'
  <2>1. \A c \in Blocks : alive'[c] \subseteq Ids(c)
    BY <1>1, <1>5, <1>8 DEF TypeOK
  <2>2. pending' \subseteq Blocks /\ DOMAIN usage' = Blocks /\ \A c \in Blocks : usage'[c] \subseteq Ids(c)
    BY <1>1, <1>2 DEF TypeOK
  <2> QED
    BY <1>2, <1>3, <1>4, <1>8, <2>1, <2>2, TypeStays
<1>10. NothingDangles'
  <2> SUFFICES ASSUME NEW c \in Blocks
               PROVE  /\ RangeOf(inputs'[c]) \subseteq alive'[c] /\ CfRefs(c)' \subseteq alive'[c]
                      /\ \A v \in alive'[c] : Refs(c)[v] \subseteq alive'[c]
    BY <1>2, DanglesNot
  <2>1. /\ RangeOf(inputs[c]) \subseteq alive[c] /\ CfRefs(c) \subseteq alive[c]
        /\ \A v \in alive[c] : Refs(c)[v] \subseteq alive[c]
    BY DEF Base, NothingDangles
  <2>2. inputs' = inputs /\ CfRefs(c)' \subseteq CfRefs(c)
    BY <1>2, <1>3
  <2>3. CASE c = b
    BY <1>5, <1>6, <1>8, <2>2, <2>3
  <2>4. CASE c # b
    BY <1>8, <2>1, <2>2, <2>4
  <2> QED
    BY <2>3, <2>4
<1>11. StoresStay'
  <2>1. \A c : Of(c, {"store"})' = Of(c, {"store"})
    BY <1>2, SameProgram
  <2> QED
    BY <1>7, <1>8, <2>1 DEF Base, StoresStay
<1>12. UsedInputs'
  BY <1>2 DEF Base, UsedInputs, RangeOf, Compared
<1>13. AtFirst'
  BY <1>4 DEF AtFirst
<1> QED
  BY <1>3, <1>9, <1>10, <1>11, <1>12, <1>13 DEF Base

LEMMA NextBase ==
  ASSUME Base, [Next]_vars
  PROVE  Base'
<1>1. ASSUME NEW b \in Blocks, Propagate(b)
      PROVE  Base'
  BY <1>1, PropagateBase
<1>2. CASE UNCHANGED vars
  <2>1. /\ Same /\ UNCHANGED <<inputs, args, alive>>
        /\ usage' = usage /\ pending' = pending /\ at' = at /\ phase' = phase
    BY <1>2 DEF vars, Same
  <2>2. /\ DOMAIN usage' = Blocks /\ \A b \in Blocks : usage[b] \subseteq usage'[b] /\ usage'[b] \subseteq Ids(b)
        /\ pending' \subseteq Blocks /\ at' \in Blocks
        /\ phase' \in {"track", "propagate", "remove", "erase", "done"}
        /\ \A b \in Blocks : Compared(b)' => Compared(b)
        /\ AtFirst'
    BY <2>1 DEF Base, TypeOK, Compared, AtFirst
  <2> QED
    BY <2>1, <2>2, MarkingBase
<1> QED
  BY <1>1, <1>2, TrackBase, PropagatedBase, RemoveInputsBase, EraseBase DEF Next

(* The base of the invariant holds in every reachable state. *)
LEMMA BaseHolds == Spec => []Base
<1>1. Init => Base
  BY InitBase
<1>2. Base /\ [Next]_vars => Base'
  BY NextBase
<1> QED
  BY <1>1, <1>2, PTL DEF Spec

(* Every field keeps to the block it belongs to. *)
THEOREM TypeCorrect == Spec => []TypeOK
<1>1. Base => TypeOK
  BY DEF Base
<1> QED
  BY <1>1, BaseHolds, PTL

(* At no step does a parameter, a control flow operation or a variable     *)
(* that is left refer to one that has been erased, whatever the program.   *)
THEOREM NothingEverDangles == Spec => []NothingDangles
<1>1. Base => NothingDangles
  BY DEF Base
<1> QED
  BY <1>1, BaseHolds, PTL

-----------------------------------------------------------------------------
(* Arguments and parameters, where no block is listed twice.               *)

LEMMA OnceListed ==
  ASSUME Repeats = {1}
  PROVE  Init => ListedOnce
<1> SUFFICES ASSUME Init
             PROVE  ListedOnce
  OBVIOUS
<1>1. PICK r \in [Blocks -> [Blocks -> Repeats]] :
        preds = [t \in Blocks |-> [p \in Blocks |-> IF t \in Connected(prog, p) THEN r[t][p] ELSE 0]]
  BY DEF Init
<1>2. \A t \in Blocks, p \in Blocks : r[t][p] = 1
  OBVIOUS
<1>3. \A t \in Blocks, p \in Blocks : preds[t][p] = IF t \in Connected(prog, p) THEN r[t][p] ELSE 0
  BY <1>1
<1> QED
  BY <1>2, <1>3 DEF ListedOnce

LEMMA OnceStays ==
  ASSUME ListedOnce, Same
  PROVE  ListedOnce'
BY DEF ListedOnce, Same

LEMMA AlignedRemove ==
  ASSUME Given, Lists, ListedOnce, ArgsFollowInputs, Same, NEW t \in Blocks, NEW I,
         Remove(t, I) \/ UNCHANGED <<args, inputs>>
  PROVE  ArgsFollowInputs'
<1>1. \A b : Cfs(b)' = Cfs(b)
  BY SameProgram
<1>2. prog' = prog
  BY DEF Same
<1>3. CASE UNCHANGED <<args, inputs>>
  BY <1>1, <1>2, <1>3 DEF ArgsFollowInputs
<1>4. CASE Remove(t, I)
  <2> SUFFICES ASSUME NEW b \in Blocks, NEW k \in DOMAIN Cfs(b), Cfs(b)[k].type \in Direct
               PROVE  args'[b][k] = [i \in DOMAIN inputs'[Cfs(b)[k].target] |->
                                       prog[b].out[inputs'[Cfs(b)[k].target][i]]]
    BY <1>1, <1>2 DEF ArgsFollowInputs
  <2> DEFINE u == Cfs(b)[k].target
             f == prog[b].out
  <2>1. u \in Blocks /\ u \in Targets(b)
    BY CfsOk
  <2>2. args[b][k] = [i \in DOMAIN inputs[u] |-> f[inputs[u][i]]]
    BY DEF ArgsFollowInputs
  <2>3. /\ args'[b][k] = IF b \in ValidPreds(t) /\ u = t
                         THEN IF preds[t][b] = 1 THEN Without(args[b][k], I)
                                                 ELSE Without(Without(args[b][k], I), I)
                         ELSE args[b][k]
        /\ inputs'[u] = IF u = t THEN Without(inputs[u], I) ELSE inputs[u]
    BY <1>4, <2>1 DEF Remove, Shorten, Lists
  <2>4. CASE u # t
    BY <2>2, <2>3, <2>4
  <2>5. CASE u = t
    <3>1. b \in ValidPreds(t)
      BY <2>1, <2>5, PredsOk
    <3>2. preds[t][b] = 1
      BY <3>1 DEF ListedOnce, ValidPreds
    <3>3. inputs[u] \in Seq(Params)
      BY <2>1 DEF Lists
    <3>4. Len(inputs[u]) \in Nat /\ DOMAIN inputs[u] = 1..Len(inputs[u])
      BY <3>3
    <3> HIDE DEF u, f
    <3>5. Without(Image(inputs[u], f), I) = Image(Without(inputs[u], I), f)
      BY <3>4, WithoutMapped
    <3>6. args[b][k] = Image(inputs[u], f)
      BY <2>2 DEF Image
    <3>7. args'[b][k] = Image(inputs'[u], f)
      BY <2>3, <2>5, <3>1, <3>2, <3>5, <3>6
    <3> QED
      BY <3>7 DEF u, f, Image
  <2> QED
    BY <2>4, <2>5
<1> QED
  BY <1>3, <1>4

LEMMA InitAligned == Init => ArgsFollowInputs
<1> SUFFICES ASSUME Init, NEW b \in Blocks, NEW k \in DOMAIN Cfs(b), Cfs(b)[k].type \in Direct
             PROVE  args[b][k] = [i \in DOMAIN inputs[Cfs(b)[k].target] |->
                                    prog[b].out[inputs[Cfs(b)[k].target][i]]]
  BY DEF ArgsFollowInputs
<1>1. Cfs(b)[k].target \in Blocks /\ prog[b].out \in [Params -> Ids(b)]
  BY InitBase, CfsOk DEF Base
<1>2. inputs[Cfs(b)[k].target] = [i \in Params |-> i]
  BY <1>1 DEF Init
<1>3. args[b][k] = prog[b].out
  BY DEF Init, InitialArgs, Cfs
<1> QED
  BY <1>1, <1>2, <1>3

LEMMA NextAligned ==
  ASSUME Base, ListedOnce, ArgsFollowInputs, [Next]_vars
  PROVE  ListedOnce' /\ ArgsFollowInputs'
<1>1. Given /\ Lists /\ at \in Blocks
  BY BaseLists DEF Base, TypeOK
<1>2. Same
  BY DEF Next, Track, Propagate, Propagated, RemoveInputs, Erase, vars, Same
<1>3. \E t \in Blocks : \E I : Remove(t, I) \/ UNCHANGED <<args, inputs>>
  BY <1>1 DEF Next, Track, Propagate, Propagated, RemoveInputs, Erase, vars
<1> QED
  BY <1>1, <1>2, <1>3, AlignedRemove, OnceStays

(* Where no block is listed twice as predecessor of another, the i-th      *)
(* argument of every jump, call and syscall stays the variable mapped to   *)
(* the static of the i-th parameter (the assertions of dce.cpp).           *)
THEOREM ArgsAlwaysFollow == Spec /\ ListedOnce => []ArgsFollowInputs
<1>1. Init => ArgsFollowInputs
  BY InitAligned
<1>2. Base /\ ListedOnce /\ ArgsFollowInputs /\ [Next]_vars => ListedOnce' /\ ArgsFollowInputs'
  BY NextAligned
<1> QED
  BY <1>1, <1>2, BaseHolds, PTL DEF Spec

-----------------------------------------------------------------------------
(* The marks.                                                              *)

(* The arguments asked for are those of the marked parameters. *)
LEMMA AskedHas ==
  ASSUME Base, ArgsFollowInputs, NEW t \in Blocks, NEW b \in ValidPreds(t),
         NEW x \in usage[t], x \in RangeOf(inputs[t])
  PROVE  prog[b].out[x] \in AskedFor(b)
<1>1. b \in Blocks /\ t \in Targets(b) /\ Given
  BY DEF ValidPreds, Base
<1>2. PICK k \in DOMAIN Cfs(b) : Cfs(b)[k].target = t
  BY <1>1 DEF Targets
<1>3. Cfs(b)[k].type \in Direct
  BY <1>1, <1>2, CfsOk
<1>4. PICK i \in DOMAIN inputs[t] : inputs[t][i] = x
  BY DEF RangeOf
<1>5. args[b][k] = [j \in DOMAIN inputs[t] |-> prog[b].out[inputs[t][j]]]
  BY <1>1, <1>2, <1>3 DEF ArgsFollowInputs
<1>6. i \in DOMAIN args[b][k] /\ args[b][k][i] = prog[b].out[x]
  BY <1>4, <1>5
<1>7. args[b][k][i] \in {args[b][k][j] : j \in {l \in DOMAIN args[b][k] :
                           inputs[Cfs(b)[k].target][l] \in usage[Cfs(b)[k].target]}}
  BY <1>2, <1>4, <1>6
<1> QED
  BY <1>6, <1>7, Zenon DEF AskedFor

LEMMA AskedOnly ==
  ASSUME Base, ArgsFollowInputs, NEW b \in Blocks, NEW v \in AskedFor(b)
  PROVE  /\ v \in CfRefs(b)
         /\ \E t \in Blocks : b \in ValidPreds(t)
              /\ \E x \in usage[t] \cap RangeOf(inputs[t]) : v = prog[b].out[x]
<1>1. Given /\ Lists /\ NoTarget
  BY BaseLists DEF Base
<1>2. PICK k \in DOMAIN Cfs(b) :
        v \in {args[b][k][i] : i \in {j \in DOMAIN args[b][k] :
                inputs[Cfs(b)[k].target][j] \in usage[Cfs(b)[k].target]}}
  BY Zenon DEF AskedFor
<1>3. PICK i \in DOMAIN args[b][k] :
        v = args[b][k][i] /\ inputs[Cfs(b)[k].target][i] \in usage[Cfs(b)[k].target]
  BY <1>2
<1>4. v \in RangeOf(args[b][k])
  BY <1>3 DEF RangeOf
<1>5. v \in CfRefs(b)
  BY <1>4, Zenon DEF CfRefs
<1>6. Cfs(b)[k].type \in Direct
  <2> SUFFICES ASSUME Cfs(b)[k].type \notin Direct
               PROVE  FALSE
    OBVIOUS
  <2>1. args[b][k] = <<>>
    BY <1>1 DEF NoTarget
  <2> QED
    BY <1>3, <2>1
<1> DEFINE t == Cfs(b)[k].target
<1>7. t \in Blocks /\ t \in Targets(b)
  BY <1>1, <1>6, CfsOk
<1>8. b \in ValidPreds(t)
  BY <1>1, <1>7, PredsOk
<1>9. args[b][k] = [j \in DOMAIN inputs[t] |-> prog[b].out[inputs[t][j]]]
  BY <1>6 DEF ArgsFollowInputs
<1>10. v = prog[b].out[inputs[t][i]] /\ inputs[t][i] \in usage[t] /\ inputs[t][i] \in RangeOf(inputs[t])
  BY <1>3, <1>9 DEF RangeOf
<1> QED
  BY <1>5, <1>7, <1>8, <1>10

(* The marks of the first loop hold what has side effects and what that    *)
(* refers to, and are in every such set.                                   *)
LEMMA FirstMarksOk ==
  ASSUME Given, RoundingMarked, NEW b \in Blocks
  PROVE  /\ FirstMarks(b) \subseteq Ids(b) /\ SideEffects(b) \subseteq FirstMarks(b)
         /\ \A v \in FirstMarks(b) \cup Of(b, {"store"}) : Refs(b)[v] \subseteq FirstMarks(b)
<1> DEFINE S == SideEffects(b) \cup UNION {InVars(b)[w] : w \in Of(b, {"store"})}
<1>1. S \subseteq Ids(b)
  <2>1. \A w \in Of(b, {"store"}) : InVars(b)[w] \subseteq Ids(b)
    BY VarsOk DEF Of
  <2>2. SideEffects(b) \subseteq Ids(b)
    BY CfsOk
  <2> QED
    BY <2>1, <2>2
<1>2. S \subseteq FirstMarks(b)
  BY <1>1, ReachedHolds DEF FirstMarks
<1>3. FirstMarks(b) \subseteq Ids(b)
  BY ReachedIn DEF FirstMarks
<1> QED
  BY <1>2, <1>3 DEF RoundingMarked

LEMMA FirstMarksLeast ==
  ASSUME Given, NEW b \in Blocks, NEW M \in SUBSET Ids(b), SideEffects(b) \subseteq M,
         \A w \in M \cup Of(b, {"store"}) : Refs(b)[w] \subseteq M
  PROVE  FirstMarks(b) \subseteq M
<1>1. \A w \in Ids(b) : InVars(b)[w] \subseteq Refs(b)[w]
  BY VarsOk
<1>2. Of(b, {"store"}) \subseteq Ids(b)
  BY DEF Of
<1>3. SideEffects(b) \cup UNION {InVars(b)[w] : w \in Of(b, {"store"})} \subseteq M
  BY <1>1, <1>2
<1>4. \A w \in M : InVars(b)[w] \subseteq M
  BY <1>1
<1> QED
  BY <1>3, <1>4, ReachedLeast DEF FirstMarks

LEMMA MarkedIs ==
  ASSUME StoresStay, NEW b \in Blocks
  PROVE  Marked(b) = FirstMarks(b)
<1>1. alive[b] \cap Of(b, {"store"}) = Of(b, {"store"})
  BY DEF StoresStay
<1> QED
  BY <1>1 DEF Marked, FirstMarks

(* What a visit marks, with what was marked, is closed, and in every set   *)
(* that is and has what is asked for.                                      *)
LEMMA NewMarksOk ==
  ASSUME Base, ArgsFollowInputs, NEW b \in Blocks, \A v \in usage[b] : Refs(b)[v] \subseteq usage[b]
  PROVE  /\ NewMarks(b) \subseteq Ids(b)
         /\ AskedFor(b) \subseteq usage[b] \cup NewMarks(b)
         /\ \A v \in usage[b] \cup NewMarks(b) : Refs(b)[v] \subseteq usage[b] \cup NewMarks(b)
<1> DEFINE S == AskedFor(b) \ usage[b]
           E == [v \in Ids(b) |-> Refs(b)[v] \ usage[b]]
<1>1. NewMarks(b) = Reached(b, S, E)
  BY DEF NewMarks
<1>2. S \subseteq Ids(b)
  BY AskedOnly DEF Base, TypeOK, NothingDangles
<1>3. \A v \in Ids(b) : E[v] = Refs(b)[v] \ usage[b] /\ E[v] \subseteq Ids(b)
  BY VarsOk DEF Base
<1> HIDE DEF S, E
<1>4. NewMarks(b) \subseteq Ids(b)
  BY <1>1, ReachedIn
<1>5. S \subseteq NewMarks(b)
  BY <1>1, <1>2, ReachedHolds
<1>6. \A v \in NewMarks(b) : E[v] \subseteq NewMarks(b)
  BY <1>1, <1>3, <1>4, ReachedClosed
<1>7. ASSUME NEW v \in NewMarks(b)
      PROVE  Refs(b)[v] \subseteq usage[b] \cup NewMarks(b)
  BY <1>3, <1>4, <1>6
<1> QED
  BY <1>4, <1>5, <1>7 DEF S

LEMMA NewMarksLeast ==
  ASSUME NEW b \in Blocks, NEW M \in SUBSET Ids(b), AskedFor(b) \subseteq M,
         \A w \in M : Refs(b)[w] \subseteq M
  PROVE  NewMarks(b) \subseteq M
<1> DEFINE S == AskedFor(b) \ usage[b]
           E == [v \in Ids(b) |-> Refs(b)[v] \ usage[b]]
<1>1. S \subseteq M /\ \A w \in M : E[w] \subseteq M
  OBVIOUS
<1> HIDE DEF S, E
<1>2. Reached(b, S, E) \subseteq M
  BY <1>1, ReachedLeast
<1> QED
  BY <1>2 DEF NewMarks, S, E

(* What is needed. *)
LEMMA ClosedHas ==
  ASSUME NEW K, Closed(K), NEW b \in Blocks
  PROVE  /\ \A v \in SideEffects(b) \cup Of(b, {"store"}) : <<b, v>> \in K
         /\ Pinned(b) => \A v \in Params : <<b, v>> \in K
         /\ \A v : <<b, v>> \in K => \A w \in Refs(b)[v] : <<b, w>> \in K
         /\ \A x \in Params : <<b, x>> \in K => \A p \in ValidPreds(b) : <<p, prog[p].out[x]>> \in K
<1>1. Seeds \subseteq K /\ \A x \in K : Feeds(x) \subseteq K
  BY DEF Closed
<1>2. \A v \in SideEffects(b) \cup Of(b, {"store"}) \cup (IF Pinned(b) THEN Params ELSE {}) : <<b, v>> \in Seeds
  BY DEF Seeds
<1>3. ASSUME NEW v, <<b, v>> \in K
      PROVE  /\ \A w \in Refs(b)[v] : <<b, w>> \in K
             /\ v \in Params => \A p \in ValidPreds(b) : <<p, prog[p].out[v]>> \in K
  <2>1. Feeds(<<b, v>>) \subseteq K
    BY <1>1, <1>3
  <2>2. Feeds(<<b, v>>) = {<<b, w>> : w \in Refs(b)[v]}
          \cup (IF v \in Params THEN {<<p, prog[p].out[v]>> : p \in ValidPreds(b)} ELSE {})
    BY DEF Feeds
  <2> QED
    BY <2>1, <2>2
<1> QED
  BY <1>1, <1>2, <1>3

LEMMA NeededStays ==
  ASSUME Same
  PROVE  /\ \A b : FirstMarks(b)' = FirstMarks(b)
         /\ RoundingMarked => RoundingMarked'
         /\ Everything' = Everything
         /\ \A K : Closed(K)' = Closed(K)
<1>1. \A b : /\ Ids(b)' = Ids(b) /\ InVars(b)' = InVars(b) /\ Refs(b)' = Refs(b)
            /\ SideEffects(b)' = SideEffects(b) /\ ValidPreds(b)' = ValidPreds(b)
            /\ Pinned(b)' = Pinned(b) /\ Of(b, {"store"})' = Of(b, {"store"})
  BY SameProgram
<1>2. prog' = prog
  BY DEF Same
<1>3. \A b : FirstMarks(b)' = FirstMarks(b)
  BY <1>1 DEF FirstMarks, Reached
<1>4. RoundingMarked => RoundingMarked'
  BY <1>1, <1>3 DEF RoundingMarked
<1>5. Everything' = Everything
  BY <1>1 DEF Everything
<1>6. Seeds' = Seeds
  BY <1>1 DEF Seeds
<1>7. \A x : Feeds(x)' = Feeds(x)
  BY <1>1, <1>2 DEF Feeds
<1>8. \A K : Closed(K)' = Closed(K)
  BY <1>6, <1>7 DEF Closed
<1> QED
  BY <1>3, <1>4, <1>5, <1>8

(* The whole invariant. *)
Full == Base /\ ListedOnce /\ ArgsFollowInputs /\ Marks

(* What the visit of a block by the first loop leaves and marks. *)
Rest(b)    == Survivors(b, Of(b, {"static", "store"}))
OwnMarks(b) == Marked(b) \cup (IF Pinned(b) THEN RangeOf(inputs[b]) ELSE {})

LEMMA TrackIs ==
  ASSUME Base, Track
  PROVE  /\ at \in Blocks /\ phase = "track" /\ Same
         /\ \A c \in Blocks : alive'[c] = IF c = at THEN Rest(at) ELSE alive[c]
         /\ \A c \in Blocks : usage'[c] = IF c = at THEN OwnMarks(at) ELSE usage[c]
         /\ \A c \in Blocks : CfRefs(c)' \subseteq CfRefs(c)
         /\ \A c \in Blocks : c # at => inputs'[c] = inputs[c]
         /\ RangeOf(inputs'[at]) \subseteq RangeOf(inputs[at])
         /\ \A v \in RangeOf(inputs[at]) \ RangeOf(inputs'[at]) :
              ~Pinned(at) /\ v \notin CfRefs(at) /\ \A w \in Rest(at) : v \notin Refs(at)[w]
         /\ pending \subseteq pending'
         /\ RangeOf(inputs[at]) \cap OwnMarks(at) # {} => ValidPreds(at) \subseteq pending'
         /\ \A c \in Blocks : Tracked(c)' => Tracked(c) \/ c = at
         /\ phase' \in {"track", "propagate"}
<1> DEFINE b      == at
           unused == {i \in DOMAIN inputs[b] :
                        /\ inputs[b][i] \notin CfRefs(b)
                        /\ \A w \in Rest(b) : inputs[b][i] \notin Refs(b)[w]}
<1>1. b \in Blocks /\ Given /\ Lists /\ NoTarget /\ DOMAIN alive = Blocks /\ DOMAIN usage = Blocks
  BY BaseLists DEF Base, TypeOK
<1>2. /\ phase = "track" /\ Same
      /\ alive' = [alive EXCEPT ![b] = Rest(b)]
      /\ usage' = [usage EXCEPT ![b] = OwnMarks(b)]
      /\ \/ ~Pinned(b) /\ Remove(b, unused)
         \/ UNCHANGED <<args, inputs>>
      /\ pending \subseteq pending'
      /\ RangeOf(inputs[b]) \cap OwnMarks(b) # {} => pending' = pending \cup ValidPreds(b)
      /\ NextBlock("propagate")
  BY DEF Track, Same, Rest, OwnMarks
<1>3. /\ \A c \in Blocks : RangeOf(inputs'[c]) \subseteq RangeOf(inputs[c])
      /\ \A c \in Blocks : CfRefs(c)' \subseteq CfRefs(c)
  BY <1>1, <1>2, ListsShrink
<1>4. \A c \in Blocks : c # b => inputs'[c] = inputs[c]
  BY <1>1, <1>2, Removed
<1>5. ASSUME NEW v \in RangeOf(inputs[b]), v \notin RangeOf(inputs'[b])
      PROVE  ~Pinned(b) /\ v \notin CfRefs(b) /\ \A w \in Rest(b) : v \notin Refs(b)[w]
  <2>1. ~Pinned(b) /\ Remove(b, unused)
    BY <1>2, <1>5
  <2>2. RangeOf(inputs'[b]) = {inputs[b][i] : i \in DOMAIN inputs[b] \ unused}
    BY <1>1, <1>2, <2>1, Removed
  <2>3. PICK i \in DOMAIN inputs[b] : v = inputs[b][i]
    BY DEF RangeOf
  <2>4. i \in unused
    BY <1>5, <2>2, <2>3
  <2> QED
    BY <2>1, <2>3, <2>4
<1>6. /\ \A c \in Blocks : Tracked(c)' => Tracked(c) \/ c = b
      /\ phase' \in {"track", "propagate"}
  <2>1. \/ at' = at + 1 /\ phase' = phase
        \/ at' = 1 /\ phase' = "propagate" /\ \A c \in Blocks : c < at \/ c = at
    BY <1>1, <1>2, NextBlockOk
  <2>2. \A c \in Blocks : c < at + 1 => c < at \/ c = at
    BY <1>1, SizesAssumption DEF Blocks
  <2> QED
    BY <1>2, <2>1, <2>2 DEF Tracked
<1>7. /\ \A c \in Blocks : alive'[c] = IF c = b THEN Rest(b) ELSE alive[c]
      /\ \A c \in Blocks : usage'[c] = IF c = b THEN OwnMarks(b) ELSE usage[c]
  BY <1>1, <1>2
<1> QED
  BY <1>1, <1>2, <1>3, <1>4, <1>5, <1>6, <1>7

LEMMA TrackMarks ==
  ASSUME Full, Track
  PROVE  Marks'
<1>1. Given /\ Lists /\ TypeOK /\ Base /\ RoundingMarked
  BY BaseLists DEF Full, Base, Marks
<1> PICK b \in Blocks : b = at
  BY <1>1 DEF TypeOK
<1>2. /\ phase = "track" /\ Same
      /\ \A c \in Blocks : alive'[c] = IF c = b THEN Rest(b) ELSE alive[c]
      /\ \A c \in Blocks : usage'[c] = IF c = b THEN OwnMarks(b) ELSE usage[c]
      /\ \A c \in Blocks : CfRefs(c)' \subseteq CfRefs(c)
      /\ \A c \in Blocks : c # b => inputs'[c] = inputs[c]
      /\ RangeOf(inputs'[b]) \subseteq RangeOf(inputs[b])
      /\ \A v \in RangeOf(inputs[b]) \ RangeOf(inputs'[b]) :
           ~Pinned(b) /\ v \notin CfRefs(b) /\ \A w \in Rest(b) : v \notin Refs(b)[w]
      /\ pending \subseteq pending'
      /\ RangeOf(inputs[b]) \cap OwnMarks(b) # {} => ValidPreds(b) \subseteq pending'
      /\ \A c \in Blocks : Tracked(c)' => Tracked(c) \/ c = b
      /\ phase' \in {"track", "propagate"}
  BY <1>1, TrackIs
<1>3. \A c : /\ Ids(c)' = Ids(c) /\ Refs(c)' = Refs(c) /\ SideEffects(c)' = SideEffects(c)
            /\ ValidPreds(c)' = ValidPreds(c) /\ Pinned(c)' = Pinned(c)
            /\ Of(c, {"store"})' = Of(c, {"store"})
  BY <1>2, SameProgram
<1>4. OwnMarks(b) = FirstMarks(b) \cup (IF Pinned(b) THEN RangeOf(inputs[b]) ELSE {})
  BY <1>1, <1>2, MarkedIs DEF OwnMarks, Base
<1>5. /\ FirstMarks(b) \subseteq Ids(b) /\ SideEffects(b) \subseteq FirstMarks(b)
      /\ \A v \in FirstMarks(b) \cup Of(b, {"store"}) : Refs(b)[v] \subseteq FirstMarks(b)
  BY <1>1, <1>2, FirstMarksOk
<1>6. /\ Params \subseteq Ids(b) /\ \A v \in Params : Refs(b)[v] = {}
      /\ RangeOf(inputs[b]) \subseteq Params
      /\ Pinned(b) => RangeOf(inputs[b]) = Params
  BY <1>1, <1>2, VarsOk DEF Lists, RangeOf, Full, Marks, PinnedKeeps
<1>7. /\ Rest(b) \subseteq alive[b] /\ CfRefs(b) \subseteq Rest(b)
      /\ alive[b] \cap Of(b, {"static", "store"}) \subseteq Rest(b)
      /\ \A v \in Rest(b) : Refs(b)[v] \subseteq Rest(b)
  BY <1>1, <1>2, SurvivorsOk DEF Rest
<1>8. Of(b, {"store"}) \subseteq Rest(b) /\ RangeOf(inputs[b]) \subseteq Rest(b)
  <2>1. Of(b, {"store"}) \subseteq alive[b] /\ RangeOf(inputs[b]) \subseteq alive[b]
    BY <1>1, <1>2 DEF Base, StoresStay, NothingDangles
  <2>2. Of(b, {"store"}) \subseteq Of(b, {"static", "store"}) /\ Of(b, {"static"}) \subseteq Of(b, {"static", "store"})
    BY DEF Of
  <2>3. Params \subseteq Of(b, {"static"})
    BY <1>1, <1>2, VarsOk
  <2> QED
    BY <1>6, <1>7, <2>1, <2>2, <2>3
<1>9. SideEffects(b) \subseteq CfRefs(b)' /\ SideEffects(b) \subseteq Rest(b) /\ Rest(b) \subseteq Ids(b)
  <2>1. SideEffects(b) \subseteq CfRefs(b)'
    BY <1>3 DEF CfRefs
  <2> QED
    BY <1>1, <1>2, <1>7, <2>1 DEF TypeOK
<1>10. Params \cap Referred(b)' \subseteq RangeOf(inputs'[b])
  <2> SUFFICES ASSUME NEW v \in Params, v \in Referred(b)'
               PROVE  v \in RangeOf(inputs'[b])
    OBVIOUS
  <2>1. v \in CfRefs(b) \/ \E w \in Rest(b) : v \in Refs(b)[w]
    BY <1>2, <1>3 DEF Referred
  <2>2. v \in Referred(b)
    BY <1>7, <2>1 DEF Referred
  <2>3. v \in RangeOf(inputs[b])
    BY <1>2, <2>2 DEF Full, Marks, Passed
  <2> QED
    BY <1>2, <2>1, <2>3
<1>11. \A v \in FirstMarks(b) : v \in Rest(b) /\ (v \in Params => v \in RangeOf(inputs'[b]))
  <2> DEFINE M == {v \in Rest(b) : v \in Params => v \in RangeOf(inputs'[b])}
  <2>1. SideEffects(b) \subseteq M
    BY <1>9, <1>10 DEF Referred
  <2>2. ASSUME NEW w \in Rest(b)
        PROVE  Refs(b)[w] \subseteq M
    <3>1. Refs(b)[w] \subseteq Referred(b)'
      BY <1>2, <1>3 DEF Referred
    <3> QED
      BY <1>7, <1>10, <3>1
  <2>3. M \in SUBSET Ids(b)
    BY <1>9
  <2>4. \A w \in M \cup Of(b, {"store"}) : Refs(b)[w] \subseteq M
    BY <1>8, <2>2
  <2> HIDE DEF M
  <2>5. FirstMarks(b) \subseteq M
    BY <1>1, <1>2, <2>1, <2>3, <2>4, FirstMarksLeast
  <2> QED
    BY <2>5 DEF M
<1>12. Pinned(b) => RangeOf(inputs'[b]) = Params
  BY <1>2, <1>6
<1>13. Params \cap OwnMarks(b) \subseteq RangeOf(inputs'[b])
  BY <1>4, <1>11, <1>12
<1>14. RoundingMarked'
  BY <1>1, <1>2, NeededStays
<1>15. Unmarked'
  <2> SUFFICES ASSUME NEW c \in Blocks, ~Tracked(c)'
               PROVE  usage'[c] = {}
    BY DEF Unmarked
  <2>1. phase' = "track" /\ at' = at + 1 /\ ~(c < at')
    BY <1>1, <1>2, NextBlockOk DEF Tracked, Track, TypeOK
  <2>2. ~(c < at) /\ c # b
    BY <1>2, <2>1, SizesAssumption DEF Blocks
  <2>3. ~Tracked(c) /\ c # b
    BY <1>2, <2>2 DEF Tracked
  <2> QED
    BY <1>2, <2>3 DEF Full, Marks, Unmarked
<1>16. MarksClosed'
  <2> SUFFICES ASSUME NEW c \in Blocks, Tracked(c)'
               PROVE  /\ SideEffects(c) \subseteq usage'[c]
                      /\ \A v \in usage'[c] \cup Of(c, {"store"}) : Refs(c)[v] \subseteq usage'[c]
                      /\ Pinned(c) => Params \subseteq usage'[c]
    BY <1>3 DEF MarksClosed
  <2>1. CASE c = b
    <3>1. usage'[c] = FirstMarks(b) \cup (IF Pinned(b) THEN RangeOf(inputs[b]) ELSE {})
      BY <1>2, <1>4, <2>1
    <3>2. \A v \in RangeOf(inputs[b]) : Refs(b)[v] = {}
      BY <1>6
    <3> QED
      BY <1>5, <1>6, <2>1, <3>1, <3>2
  <2>2. CASE c # b
    <3>1. usage'[c] = usage[c] /\ Tracked(c)
      BY <1>2, <2>2
    <3> QED
      BY <3>1 DEF Full, Marks, MarksClosed
  <2> QED
    BY <2>1, <2>2
<1>17. MarksAlive'
  <2> SUFFICES ASSUME NEW c \in Blocks
               PROVE  usage'[c] \subseteq alive'[c]
    BY DEF MarksAlive
  <2>1. CASE c = b
    BY <1>2, <1>4, <1>8, <1>11, <2>1
  <2>2. CASE c # b
    BY <1>2, <2>2 DEF Full, Marks, MarksAlive
  <2> QED
    BY <2>1, <2>2
<1>18. PinnedKeeps'
  <2> SUFFICES ASSUME NEW c \in Blocks, Pinned(c)
               PROVE  RangeOf(inputs'[c]) = Params
    BY <1>3 DEF PinnedKeeps, RangeOf
  <2> QED
    BY <1>2, <1>12 DEF Full, Marks, PinnedKeeps
<1>19. Passed'
  <2> SUFFICES ASSUME NEW c \in Blocks
               PROVE  /\ Params \cap Referred(c)' \subseteq RangeOf(inputs'[c])
                      /\ Params \cap usage'[c] \subseteq RangeOf(inputs'[c])
    BY DEF Passed, RangeOf
  <2>1. CASE c = b
    BY <1>2, <1>10, <1>13, <2>1
  <2>2. CASE c # b
    <3>1. Referred(c)' \subseteq Referred(c)
      <4>1. alive'[c] = alive[c] /\ CfRefs(c)' \subseteq CfRefs(c) /\ Refs(c)' = Refs(c)
        BY <1>2, <1>3, <2>2
      <4> QED
        BY <4>1, Zenon DEF Referred
    <3>2. /\ Params \cap Referred(c) \subseteq RangeOf(inputs[c])
          /\ Params \cap usage[c] \subseteq RangeOf(inputs[c])
      BY <1>2 DEF Full, Marks, Passed
    <3> QED
      BY <1>2, <2>2, <3>1, <3>2
  <2> QED
    BY <2>1, <2>2
<1>20. Settled'
  <2>1. ASSUME NEW t \in Blocks, Tracked(t)', NEW p \in ValidPreds(t), NEW x \in usage'[t] \cap Params
        PROVE  prog[p].out[x] \in usage'[p] \/ p \in pending'
    <3>1. p \in Blocks
      BY DEF ValidPreds
    <3>2. CASE t = b
      <4>1. x \in RangeOf(inputs[b]) \cap OwnMarks(b)
        BY <1>2, <1>13, <2>1, <3>2
      <4> QED
        BY <1>2, <2>1, <3>2, <4>1
    <3>3. CASE t # b
      <4>1. Tracked(t) /\ x \in usage[t]
        BY <1>2, <2>1, <3>3
      <4>2. prog[p].out[x] \in usage[p] \/ p \in pending
        BY <2>1, <4>1 DEF Full, Marks, Settled
      <4>3. p = b => usage[p] = {}
        BY <1>1, <1>2, SizesAssumption DEF Full, Marks, Unmarked, Tracked, Blocks
      <4> QED
        BY <1>2, <3>1, <4>2, <4>3
    <3> QED
      BY <3>2, <3>3
  <2>2. prog' = prog
    BY <1>2 DEF Same
  <2> QED
    BY <1>2, <1>3, <2>1, <2>2 DEF Settled
<1>21. Swept'
  BY <1>2 DEF Swept
<1>22. MarksNeeded'
  <2> SUFFICES ASSUME NEW K \in SUBSET Everything, Closed(K), NEW c \in Blocks, NEW v \in usage'[c]
               PROVE  <<c, v>> \in K
    BY <1>2, NeededStays DEF MarksNeeded
  <2>1. CASE c # b
    BY <1>2, <2>1 DEF Full, Marks, MarksNeeded
  <2>2. CASE c = b
    <3> DEFINE M == {w \in Ids(b) : <<b, w>> \in K}
    <3>1. /\ \A w \in SideEffects(b) \cup Of(b, {"store"}) : <<b, w>> \in K
          /\ Pinned(b) => \A w \in Params : <<b, w>> \in K
          /\ \A w : <<b, w>> \in K => \A u \in Refs(b)[w] : <<b, u>> \in K
      BY ClosedHas
    <3>2. \A w \in Ids(b) : Refs(b)[w] \subseteq Ids(b)
      BY <1>1, VarsOk
    <3>3. SideEffects(b) \subseteq M /\ M \in SUBSET Ids(b)
      BY <1>9, <3>1
    <3>4. Of(b, {"store"}) \subseteq Ids(b)
      BY DEF Of
    <3>5. \A w \in M \cup Of(b, {"store"}) : Refs(b)[w] \subseteq M
      BY <3>1, <3>2, <3>4
    <3> HIDE DEF M
    <3>6. FirstMarks(b) \subseteq M
      BY <1>1, <3>3, <3>5, FirstMarksLeast
    <3> QED
      BY <1>2, <1>4, <1>6, <2>2, <3>1, <3>6 DEF M
  <2> QED
    BY <2>1, <2>2
<1> QED
  BY <1>14, <1>15, <1>16, <1>17, <1>18, <1>19, <1>20, <1>21, <1>22 DEF Marks

(* The other steps leave the program, and as long as the work list runs    *)
(* also variables, parameters and arguments.                               *)
LEMMA PropagateMarks ==
  ASSUME Full, NEW b \in Blocks, Propagate(b)
  PROVE  Marks'
<1>1. Given /\ Lists /\ TypeOK /\ Base /\ RoundingMarked /\ ArgsFollowInputs
  BY BaseLists DEF Full, Base, Marks
<1>2. /\ phase = "propagate" /\ phase' = phase /\ Same /\ UNCHANGED <<inputs, args, alive, at>>
      /\ \A c \in Blocks : usage'[c] = IF c = b THEN usage[c] \cup NewMarks(c) ELSE usage[c]
      /\ pending' = (pending \ {b}) \cup (IF Requeue(b, NewMarks(b)) THEN ValidPreds(b) ELSE {})
  BY <1>1, PropagateIs
<1>3. \A c : /\ Ids(c)' = Ids(c) /\ Refs(c)' = Refs(c) /\ SideEffects(c)' = SideEffects(c)
            /\ ValidPreds(c)' = ValidPreds(c) /\ Pinned(c)' = Pinned(c) /\ Cfs(c)' = Cfs(c)
            /\ Of(c, {"store"})' = Of(c, {"store"})
  BY <1>2, SameProgram
<1>4. \A c \in Blocks : Tracked(c)
  BY <1>2 DEF Tracked
<1>5. \A c \in Blocks :
        /\ SideEffects(c) \subseteq usage[c]
        /\ \A v \in usage[c] \cup Of(c, {"store"}) : Refs(c)[v] \subseteq usage[c]
        /\ Pinned(c) => Params \subseteq usage[c]
        /\ usage[c] \subseteq alive[c]
        /\ Params \cap Referred(c) \subseteq RangeOf(inputs[c])
        /\ Params \cap usage[c] \subseteq RangeOf(inputs[c])
  BY <1>2, <1>4 DEF Full, Marks, MarksClosed, MarksAlive, Passed
<1>6. /\ NewMarks(b) \subseteq Ids(b)
      /\ AskedFor(b) \subseteq usage[b] \cup NewMarks(b)
      /\ \A v \in usage[b] \cup NewMarks(b) : Refs(b)[v] \subseteq usage[b] \cup NewMarks(b)
  BY <1>1, <1>5, NewMarksOk
<1>7. \A v \in NewMarks(b) : v \in alive[b] /\ (v \in Params => v \in RangeOf(inputs[b]))
  <2> DEFINE M == {v \in alive[b] : v \in Params => v \in RangeOf(inputs[b])}
  <2>1. /\ CfRefs(b) \subseteq alive[b] /\ alive[b] \subseteq Ids(b)
        /\ \A w \in alive[b] : Refs(b)[w] \subseteq alive[b]
    BY <1>1 DEF Base, NothingDangles, TypeOK
  <2>2. CfRefs(b) \subseteq Referred(b) /\ \A w \in alive[b] : Refs(b)[w] \subseteq Referred(b)
    BY DEF Referred
  <2>3. AskedFor(b) \subseteq M
    BY <1>1, <1>5, <2>1, <2>2, AskedOnly
  <2>4. M \in SUBSET Ids(b) /\ \A w \in M : Refs(b)[w] \subseteq M
    BY <1>5, <2>1, <2>2
  <2> HIDE DEF M
  <2>5. NewMarks(b) \subseteq M
    BY <2>3, <2>4, NewMarksLeast
  <2> QED
    BY <2>5 DEF M
<1>8. RoundingMarked'
  BY <1>1, <1>2, NeededStays
<1>9. Unmarked' /\ Swept'
  BY <1>2 DEF Unmarked, Swept, Tracked
<1>10. MarksClosed'
  <2> SUFFICES ASSUME NEW c \in Blocks
               PROVE  /\ SideEffects(c) \subseteq usage'[c]
                      /\ \A v \in usage'[c] \cup Of(c, {"store"}) : Refs(c)[v] \subseteq usage'[c]
                      /\ Pinned(c) => Params \subseteq usage'[c]
    BY <1>3 DEF MarksClosed
  <2>1. CASE c = b
    <3>1. usage'[c] = usage[b] \cup NewMarks(b)
      BY <1>2, <2>1
    <3> QED
      BY <1>5, <1>6, <2>1, <3>1
  <2>2. CASE c # b
    <3>1. usage'[c] = usage[c]
      BY <1>2, <2>2
    <3> QED
      BY <1>5, <3>1
  <2> QED
    BY <2>1, <2>2
<1>11. MarksAlive'
  BY <1>2, <1>5, <1>7 DEF MarksAlive
<1>12. PinnedKeeps'
  BY <1>2, <1>3 DEF PinnedKeeps, RangeOf, Full, Marks
<1>13. Passed'
  <2> SUFFICES ASSUME NEW c \in Blocks
               PROVE  /\ Params \cap Referred(c)' \subseteq RangeOf(inputs[c])
                      /\ Params \cap usage'[c] \subseteq RangeOf(inputs[c])
    BY <1>2 DEF Passed, RangeOf
  <2>1. Referred(c)' = Referred(c)
    BY <1>2, <1>3 DEF Referred, CfRefs, RangeOf
  <2> QED
    BY <1>2, <1>5, <1>7, <2>1
<1>14. Settled'
  <2>1. ASSUME NEW t \in Blocks, NEW p \in ValidPreds(t), NEW x \in usage'[t] \cap Params
        PROVE  prog[p].out[x] \in usage'[p] \/ p \in pending'
    <3>1. p \in Blocks
      BY DEF ValidPreds
    <3>2. CASE x \in usage[t]
      <4>1. prog[p].out[x] \in usage[p] \/ p \in pending
        BY <1>4, <2>1, <3>2 DEF Full, Marks, Settled
      <4>2. p = b => prog[b].out[x] \in AskedFor(b)
        BY <1>1, <1>5, <2>1, <3>2, AskedHas
      <4> QED
        BY <1>2, <1>6, <3>1, <4>1, <4>2
    <3>3. CASE x \notin usage[t]
      <4>1. t = b /\ x \in NewMarks(b)
        BY <1>2, <2>1, <3>3
      <4>2. x \in Of(b, {"static"})
        BY <1>1, <2>1, VarsOk
      <4>3. Requeue(b, NewMarks(b))
        BY <4>1, <4>2 DEF Requeue
      <4> QED
        BY <1>2, <2>1, <4>1, <4>3
    <3> QED
      BY <3>2, <3>3
  <2>2. prog' = prog
    BY <1>2 DEF Same
  <2> QED
    BY <1>2, <1>3, <2>1, <2>2 DEF Settled
<1>15. MarksNeeded'
  <2> SUFFICES ASSUME NEW K \in SUBSET Everything, Closed(K), NEW c \in Blocks, NEW v \in usage'[c]
               PROVE  <<c, v>> \in K
    BY <1>2, NeededStays DEF MarksNeeded
  <2>1. \A t \in Blocks : \A x \in usage[t] : <<t, x>> \in K
    BY DEF Full, Marks, MarksNeeded
  <2>2. CASE c # b
    BY <1>2, <2>1, <2>2
  <2>3. CASE c = b
    <3> DEFINE M == {w \in Ids(b) : <<b, w>> \in K}
    <3>1. \A w : <<b, w>> \in K => \A u \in Refs(b)[w] : <<b, u>> \in K
      BY ClosedHas
    <3>2. \A w \in Ids(b) : Refs(b)[w] \subseteq Ids(b)
      BY <1>1, VarsOk
    <3>3. ASSUME NEW w \in AskedFor(b)
          PROVE  w \in M
      <4>1. PICK t \in Blocks : b \in ValidPreds(t)
                  /\ \E x \in usage[t] \cap RangeOf(inputs[t]) : w = prog[b].out[x]
        BY <1>1, AskedOnly
      <4>2. PICK x \in usage[t] \cap RangeOf(inputs[t]) : w = prog[b].out[x]
        BY <4>1
      <4>3. x \in Params /\ <<t, x>> \in K
        BY <1>1, <2>1 DEF Lists, RangeOf
      <4>4. <<b, w>> \in K
        BY <4>1, <4>2, <4>3, ClosedHas
      <4>5. w \in Ids(b)
        BY <1>1, AskedOnly DEF Base, NothingDangles, TypeOK
      <4> QED
        BY <4>4, <4>5
    <3>4. M \in SUBSET Ids(b) /\ \A w \in M : Refs(b)[w] \subseteq M
      BY <3>1, <3>2
    <3> HIDE DEF M
    <3>5. NewMarks(b) \subseteq M
      BY <3>3, <3>4, NewMarksLeast
    <3> QED
      BY <1>2, <2>1, <2>3, <3>5 DEF M
  <2> QED
    BY <2>2, <2>3
<1> QED
  BY <1>8, <1>9, <1>10, <1>11, <1>12, <1>13, <1>14, <1>15 DEF Marks

(* Behind the work list the marks stay what they are. *)
LEMMA MarksStay ==
  ASSUME Full, Same, UNCHANGED <<usage, pending>>, phase # "track", phase' # "track",
         phase' \in {"remove", "erase", "done"} => pending = {}
  PROVE  RoundingMarked' /\ Unmarked' /\ MarksClosed' /\ Settled' /\ MarksNeeded'
<1>1. \A c : /\ Refs(c)' = Refs(c) /\ SideEffects(c)' = SideEffects(c) /\ ValidPreds(c)' = ValidPreds(c)
            /\ Pinned(c)' = Pinned(c) /\ Of(c, {"store"})' = Of(c, {"store"})
  BY SameProgram
<1>2. \A c \in Blocks : Tracked(c) /\ Tracked(c)'
  BY DEF Tracked
<1>3. RoundingMarked'
  BY NeededStays DEF Full, Marks
<1>4. Unmarked'
  BY <1>2 DEF Unmarked
<1>5. MarksClosed'
  BY <1>1, <1>2 DEF Full, Marks, MarksClosed
<1>6. Settled'
  <2>1. \A t \in Blocks : \A p \in ValidPreds(t) : \A x \in usage[t] \cap Params :
          prog[p].out[x] \in usage[p] \/ p \in pending
    BY <1>2 DEF Full, Marks, Settled
  <2>2. prog' = prog
    BY DEF Same
  <2> QED
    BY <1>1, <2>1, <2>2 DEF Settled
<1>7. MarksNeeded'
  BY NeededStays DEF Full, Marks, MarksNeeded
<1> QED
  BY <1>3, <1>4, <1>5, <1>6, <1>7

LEMMA PropagatedMarks ==
  ASSUME Full, Propagated
  PROVE  Marks'
<1>1. /\ Same /\ UNCHANGED <<inputs, args, alive, usage, pending, at>>
      /\ phase = "propagate" /\ phase' = "remove" /\ pending = {}
  BY DEF Propagated, Same
<1>2. \A c : Pinned(c)' = Pinned(c)
  BY <1>1, SameProgram
<1>3. MarksAlive' /\ Swept'
  BY <1>1 DEF Full, Marks, MarksAlive, Swept
<1>4. PinnedKeeps'
  BY <1>1, <1>2 DEF Full, Marks, PinnedKeeps, RangeOf
<1>5. Passed'
  BY <1>1 DEF Full, Marks, Passed, RangeOf
<1>6. RoundingMarked' /\ Unmarked' /\ MarksClosed' /\ Settled' /\ MarksNeeded'
  BY <1>1, MarksStay
<1> QED
  BY <1>3, <1>4, <1>5, <1>6 DEF Marks

(* A block that must keep its parameters has them all marked, so the loop  *)
(* that removes parameters finds nothing to do in it.                      *)
LEMMA RemoveInputsMarks ==
  ASSUME Full, RemoveInputs
  PROVE  Marks'
<1>1. Given /\ Lists /\ NoTarget /\ TypeOK
  BY BaseLists DEF Full, Base
<1> PICK b \in Blocks : b = at
  BY <1>1 DEF TypeOK
<1> DEFINE unused == {i \in DOMAIN inputs[b] : inputs[b][i] \notin usage[b]}
<1>2. /\ phase = "remove" /\ Same /\ UNCHANGED <<alive, pending>> /\ NextBlock("erase")
      /\ \/ unused # {} /\ ~Pinned(b) /\ Remove(b, unused)
         \/ ~(unused # {} /\ ~Pinned(b)) /\ UNCHANGED <<args, inputs>>
      /\ usage' = IF unused # {} /\ Pinned(b)
                  THEN [usage EXCEPT ![b] = @ \cup RangeOf(inputs[b])] ELSE usage
  BY DEF RemoveInputs, Same
<1>3. Pinned(b) => unused = {}
  <2>1. RangeOf(inputs[b]) \subseteq Params
    BY <1>1 DEF Lists, RangeOf
  <2>2. Tracked(b)
    BY <1>2 DEF Tracked
  <2>3. Pinned(b) => Params \subseteq usage[b]
    BY <2>2 DEF Full, Marks, MarksClosed
  <2> QED
    BY <2>1, <2>3 DEF RangeOf
<1>4. usage' = usage
  BY <1>2, <1>3
<1>5. \/ at' = at + 1 /\ phase' = "remove"
      \/ at' = 1 /\ phase' = "erase"
  BY <1>1, <1>2, NextBlockOk DEF TypeOK
<1>6. pending = {}
  BY <1>2 DEF Full, Marks, Settled
<1>7. RoundingMarked' /\ Unmarked' /\ MarksClosed' /\ Settled' /\ MarksNeeded'
  BY <1>2, <1>4, <1>5, <1>6, MarksStay
<1>8. MarksAlive'
  BY <1>2, <1>4 DEF Full, Marks, MarksAlive
<1>9. Swept'
  <2>1. \A c \in Blocks : ~(c < 1)
    BY SizesAssumption DEF Blocks
  <2> QED
    BY <1>5, <2>1 DEF Swept
<1>10. \A c \in Blocks : /\ c # b \/ Pinned(b) => inputs'[c] = inputs[c]
                        /\ RangeOf(inputs[c]) \cap usage[c] \subseteq RangeOf(inputs'[c])
  <2>1. CASE UNCHANGED <<args, inputs>>
    BY <2>1 DEF RangeOf
  <2>2. CASE ~Pinned(b) /\ Remove(b, unused)
    <3>1. /\ RangeOf(inputs'[b]) = {inputs[b][i] : i \in DOMAIN inputs[b] \ unused}
          /\ \A c \in Blocks : c # b => inputs'[c] = inputs[c]
      BY <1>1, <1>2, <2>2, Removed
    <3>2. RangeOf(inputs[b]) \cap usage[b] \subseteq RangeOf(inputs'[b])
      BY <3>1 DEF RangeOf
    <3>3. \A c \in Blocks : c # b => RangeOf(inputs'[c]) = RangeOf(inputs[c])
      BY <3>1 DEF RangeOf
    <3> QED
      BY <2>2, <3>1, <3>2, <3>3
  <2> QED
    BY <1>2, <2>1, <2>2
<1>11. PinnedKeeps'
  <2> SUFFICES ASSUME NEW c \in Blocks, Pinned(c)
               PROVE  RangeOf(inputs'[c]) = Params
    BY <1>2, SameProgram DEF PinnedKeeps, RangeOf
  <2>1. inputs'[c] = inputs[c]
    BY <1>10
  <2> QED
    BY <2>1 DEF Full, Marks, PinnedKeeps, RangeOf
<1>12. Passed'
  <2>1. \A c \in Blocks : Params \cap usage'[c] \subseteq RangeOf(inputs'[c])
    BY <1>4, <1>10 DEF Full, Marks, Passed
  <2> QED
    BY <1>5, <2>1 DEF Passed, RangeOf
<1> QED
  BY <1>7, <1>8, <1>9, <1>11, <1>12 DEF Marks

(* Behind the loop that removes parameters, the marks of a block and its   *)
(* stores hold all that is referred to.                                    *)
LEMMA MarksHoldAll ==
  ASSUME Full, phase = "erase", NEW b \in Blocks
  PROVE  /\ CfRefs(b) \subseteq usage[b]
         /\ \A v \in usage[b] \cup Of(b, {"store"}) : Refs(b)[v] \subseteq usage[b]
<1>1. Given /\ Lists /\ NoTarget /\ Tracked(b) /\ pending = {}
  BY BaseLists DEF Full, Base, Marks, Settled, Tracked
<1>2. /\ SideEffects(b) \subseteq usage[b]
      /\ \A v \in usage[b] \cup Of(b, {"store"}) : Refs(b)[v] \subseteq usage[b]
  BY <1>1 DEF Full, Marks, MarksClosed
<1>3. ASSUME NEW k \in DOMAIN Cfs(b)
      PROVE  RangeOf(args[b][k]) \subseteq usage[b]
  <2>1. CASE Cfs(b)[k].type \notin Direct
    BY <1>1, <2>1 DEF NoTarget, RangeOf
  <2>2. CASE Cfs(b)[k].type \in Direct
    <3> DEFINE t == Cfs(b)[k].target
    <3>1. t \in Blocks /\ t \in Targets(b)
      BY <1>1, <2>2, CfsOk
    <3>2. b \in ValidPreds(t)
      BY <1>1, <3>1, PredsOk
    <3>3. args[b][k] = [i \in DOMAIN inputs[t] |-> prog[b].out[inputs[t][i]]]
      BY <2>2 DEF Full, ArgsFollowInputs
    <3>4. RangeOf(inputs[t]) \subseteq usage[t] /\ RangeOf(inputs[t]) \subseteq Params
      BY <1>1, <3>1 DEF Full, Base, UsedInputs, Compared, Lists, RangeOf
    <3>5. \A x \in usage[t] \cap Params : prog[b].out[x] \in usage[b]
      BY <1>1, <3>1, <3>2 DEF Full, Marks, Settled, Tracked
    <3> HIDE DEF t
    <3>6. \A i \in DOMAIN inputs[t] : inputs[t][i] \in usage[t] \cap Params
      BY <3>4 DEF RangeOf
    <3> QED
      BY <3>3, <3>5, <3>6 DEF RangeOf
  <2> QED
    BY <2>1, <2>2
<1> QED
  BY <1>2, <1>3, Zenon DEF CfRefs

LEMMA EraseMarks ==
  ASSUME Full, Erase
  PROVE  Marks'
<1>1. Given /\ Lists /\ TypeOK /\ Base
  BY BaseLists DEF Full, Base
<1> PICK b \in Blocks : b = at
  BY <1>1 DEF TypeOK
<1> DEFINE left == Survivors(b, usage[b] \cup Of(b, {"store"}))
<1>2. /\ phase = "erase" /\ Same /\ UNCHANGED <<inputs, args, usage, pending>> /\ NextBlock("done")
      /\ alive' = [alive EXCEPT ![b] = left]
  BY DEF Erase, Same
<1>3. \A c \in Blocks : alive'[c] = IF c = b THEN left ELSE alive[c]
  BY <1>1, <1>2 DEF TypeOK
<1>4. usage[b] \subseteq alive[b] /\ Of(b, {"store"}) \subseteq alive[b] /\ alive[b] \subseteq Ids(b)
  BY <1>1 DEF Full, Marks, MarksAlive, Base, StoresStay, TypeOK
<1>5. left = usage[b] \cup Of(b, {"store"})
  <2>1. usage[b] \cup Of(b, {"store"}) \subseteq left
    BY <1>1, <1>4, SurvivorsOk
  <2> DEFINE M == usage[b] \cup Of(b, {"store"})
             S == alive[b] \cap (usage[b] \cup Of(b, {"store"}) \cup CfRefs(b))
  <2>2. /\ CfRefs(b) \subseteq usage[b]
        /\ \A v \in M : Refs(b)[v] \subseteq usage[b]
    BY <1>2, MarksHoldAll
  <2>3. M \in SUBSET Ids(b) /\ S \subseteq M /\ \A v \in M : Refs(b)[v] \subseteq M
    BY <1>4, <2>2
  <2>4. left = alive[b] \cap Reached(b, S, Refs(b))
    BY DEF Survivors
  <2> HIDE DEF S, M, left
  <2>5. Reached(b, S, Refs(b)) \subseteq M
    BY <2>3, ReachedLeast
  <2> QED
    BY <2>1, <2>4, <2>5 DEF M
<1> HIDE DEF left
<1>6. /\ at' \in Blocks
      /\ \/ at' = at + 1 /\ phase' = "erase"
         \/ at' = 1 /\ phase' = "done" /\ \A c \in Blocks : c < at \/ c = at
  BY <1>1, <1>2, NextBlockOk DEF TypeOK
<1>7. pending = {}
  BY <1>2 DEF Full, Marks, Settled
<1>8. RoundingMarked' /\ Unmarked' /\ MarksClosed' /\ Settled' /\ MarksNeeded'
  BY <1>2, <1>6, <1>7, MarksStay
<1>9. MarksAlive'
  BY <1>2, <1>3, <1>5 DEF Full, Marks, MarksAlive
<1>10. PinnedKeeps'
  BY <1>2, SameProgram DEF Full, Marks, PinnedKeeps, RangeOf
<1>11. Passed'
  BY <1>2, <1>6 DEF Full, Marks, Passed, RangeOf
<1>12. Swept'
  <2> SUFFICES ASSUME NEW c \in Blocks, phase' = "done" \/ (phase' = "erase" /\ c < at')
               PROVE  alive'[c] = usage[c] \cup Of(c, {"store"})
    BY <1>2, SameProgram DEF Swept
  <2>1. c < at \/ c = at
    BY <1>1, <1>6, SizesAssumption DEF Blocks
  <2>2. CASE c = b
    BY <1>3, <1>5, <2>2
  <2>3. CASE c # b
    BY <1>2, <1>3, <2>1, <2>3 DEF Full, Marks, Swept
  <2> QED
    BY <2>2, <2>3
<1> QED
  BY <1>8, <1>9, <1>10, <1>11, <1>12 DEF Marks

LEMMA StutterMarks ==
  ASSUME Full, UNCHANGED vars
  PROVE  Marks'
<1>1. /\ Same /\ UNCHANGED <<inputs, args, alive, usage, pending, phase, at>>
  BY DEF vars, Same
<1>2. \A c : /\ Refs(c)' = Refs(c) /\ SideEffects(c)' = SideEffects(c) /\ ValidPreds(c)' = ValidPreds(c)
            /\ Pinned(c)' = Pinned(c) /\ Of(c, {"store"})' = Of(c, {"store"}) /\ Cfs(c)' = Cfs(c)
  BY <1>1, SameProgram
<1>3. RoundingMarked' /\ MarksNeeded'
  BY <1>1, NeededStays DEF Full, Marks, MarksNeeded
<1>4. \A c : Referred(c)' = Referred(c) /\ (Tracked(c)' <=> Tracked(c))
  BY <1>1, <1>2 DEF Referred, CfRefs, RangeOf, Tracked
<1>5. Unmarked' /\ MarksAlive'
  BY <1>1, <1>4 DEF Full, Marks, Unmarked, MarksAlive
<1>6. MarksClosed'
  BY <1>1, <1>2, <1>4 DEF Full, Marks, MarksClosed
<1>7. PinnedKeeps'
  BY <1>1, <1>2 DEF Full, Marks, PinnedKeeps, RangeOf
<1>8. Passed'
  BY <1>1, <1>4 DEF Full, Marks, Passed, RangeOf
<1>9. Settled'
  <2>1. prog' = prog
    BY <1>1 DEF Same
  <2> QED
    BY <1>1, <1>2, <1>4, <2>1 DEF Full, Marks, Settled
<1>10. Swept'
  BY <1>1, <1>2 DEF Full, Marks, Swept
<1> QED
  BY <1>3, <1>5, <1>6, <1>7, <1>8, <1>9, <1>10 DEF Marks

LEMMA InitMarks ==
  ASSUME Init, RoundingMarked
  PROVE  Marks
<1>1. Given
  BY InitBase DEF Base
<1>2. /\ inputs = [b \in Blocks |-> [i \in Params |-> i]]
      /\ usage = [b \in Blocks |-> {}]
      /\ pending = {} /\ phase = "track" /\ at = 1
  BY DEF Init
<1>3. \A b \in Blocks : usage[b] = {} /\ ~Tracked(b)
  BY <1>2, SizesAssumption DEF Tracked, Blocks
<1>4. \A b \in Blocks : RangeOf(inputs[b]) = Params
  BY <1>2 DEF RangeOf
<1>5. Unmarked /\ MarksClosed /\ MarksAlive /\ MarksNeeded
  BY <1>3 DEF Unmarked, MarksClosed, MarksAlive, MarksNeeded
<1>6. PinnedKeeps /\ Passed
  BY <1>4 DEF PinnedKeeps, Passed
<1>7. Settled /\ Swept
  BY <1>2, <1>3 DEF Settled, Swept
<1> QED
  BY <1>5, <1>6, <1>7 DEF Marks

LEMMA NextFull ==
  ASSUME Full, [Next]_vars
  PROVE  Full'
<1>1. Base' /\ ListedOnce' /\ ArgsFollowInputs'
  BY NextBase, NextAligned DEF Full
<1>2. ASSUME NEW b \in Blocks, Propagate(b)
      PROVE  Marks'
  BY <1>2, PropagateMarks
<1>3. Marks'
  BY <1>2, TrackMarks, PropagatedMarks, RemoveInputsMarks, EraseMarks, StutterMarks DEF Next
<1> QED
  BY <1>1, <1>3 DEF Full

LEMMA FullHolds == Spec /\ ListedOnce /\ RoundingMarked => []Full
<1>1. Init /\ ListedOnce /\ RoundingMarked => Full
  BY InitBase, InitAligned, InitMarks DEF Full
<1>2. Full /\ [Next]_vars => Full'
  BY NextFull
<1> QED
  BY <1>1, <1>2, PTL DEF Spec

(* In the end the parameters of a block are its marked ones, and what is   *)
(* left in it are the marked variables and the stores.                     *)
LEMMA AtTheEnd ==
  ASSUME Full, phase = "done", NEW b \in Blocks
  PROVE  /\ alive[b] = usage[b] \cup Of(b, {"store"})
         /\ alive[b] \cap Params = usage[b] \cap Params
         /\ RangeOf(inputs[b]) = alive[b] \cap Params
<1>1. Given /\ Lists
  BY BaseLists DEF Full, Base
<1>2. alive[b] = usage[b] \cup Of(b, {"store"})
  BY DEF Full, Marks, Swept
<1>3. \A v \in Params : v \notin Of(b, {"store"})
  <2>1. \A v \in Params : v \in Of(b, {"static"})
    BY <1>1, VarsOk
  <2>2. Of(b, {"static"}) \cap Of(b, {"store"}) = {}
    BY DEF Of
  <2> QED
    BY <2>1, <2>2
<1>4. RangeOf(inputs[b]) \subseteq usage[b] /\ RangeOf(inputs[b]) \subseteq Params
  BY <1>1 DEF Full, Base, UsedInputs, Compared, Lists, RangeOf
<1>5. Params \cap usage[b] \subseteq RangeOf(inputs[b])
  BY DEF Full, Marks, Passed
<1> QED
  BY <1>2, <1>3, <1>4, <1>5

LEMMA LeftIsClosed ==
  ASSUME Full, phase = "done"
  PROVE  Closed(Left)
<1>1. Given /\ pending = {} /\ \A b \in Blocks : Tracked(b)
  BY DEF Full, Base, Marks, Settled, Tracked
<1>2. \A b \in Blocks : \A v : <<b, v>> \in Left <=> v \in alive[b]
  BY DEF Left
<1>3. \A b \in Blocks :
        /\ SideEffects(b) \subseteq usage[b]
        /\ \A v \in usage[b] \cup Of(b, {"store"}) : Refs(b)[v] \subseteq usage[b]
        /\ Pinned(b) => Params \subseteq usage[b]
        /\ alive[b] = usage[b] \cup Of(b, {"store"})
        /\ alive[b] \cap Params = usage[b] \cap Params
  BY <1>1, AtTheEnd DEF Full, Marks, MarksClosed
<1>4. ASSUME NEW x \in Seeds
      PROVE  x \in Left
  <2>1. PICK b \in Blocks : \E v \in SideEffects(b) \cup Of(b, {"store"}) \cup (IF Pinned(b) THEN Params ELSE {}) :
                               x = <<b, v>>
    BY <1>4 DEF Seeds
  <2>2. PICK v \in SideEffects(b) \cup Of(b, {"store"}) \cup (IF Pinned(b) THEN Params ELSE {}) : x = <<b, v>>
    BY <2>1
  <2>3. v \in alive[b]
    BY <1>3, <2>2
  <2> QED
    BY <1>2, <2>2, <2>3
<1>5. ASSUME NEW x \in Left, NEW y \in Feeds(x)
      PROVE  y \in Left
  <2>5. PICK b \in Blocks : \E v \in alive[b] : x = <<b, v>>
    BY <1>5 DEF Left
  <2>1. PICK v \in alive[b] : x = <<b, v>>
    BY <2>5
  <2>2. y \in {<<b, w>> : w \in Refs(b)[v]}
             \cup (IF v \in Params THEN {<<p, prog[p].out[v]>> : p \in ValidPreds(b)} ELSE {})
    BY <1>5, <2>1 DEF Feeds
  <2>3. CASE y \in {<<b, w>> : w \in Refs(b)[v]}
    <3>1. PICK w \in Refs(b)[v] : y = <<b, w>>
      BY <2>3
    <3>2. w \in alive[b]
      BY <1>3, <3>1
    <3> QED
      BY <1>2, <3>1, <3>2
  <2>4. CASE v \in Params /\ y \in {<<p, prog[p].out[v]>> : p \in ValidPreds(b)}
    <3>1. PICK p \in ValidPreds(b) : y = <<p, prog[p].out[v]>>
      BY <2>4
    <3>2. p \in Blocks
      BY DEF ValidPreds
    <3>3. v \in usage[b] \cap Params
      BY <1>3, <2>4
    <3>4. prog[p].out[v] \in usage[p]
      BY <1>1, <3>3 DEF Full, Marks, Settled
    <3>5. prog[p].out[v] \in alive[p]
      BY <1>3, <3>2, <3>4
    <3> QED
      BY <1>2, <3>1, <3>2, <3>5
  <2> QED
    BY <2>2, <2>3, <2>4
<1> QED
  BY <1>4, <1>5 DEF Closed

LEMMA LeftIsLeast ==
  ASSUME Full, phase = "done", NEW M \in SUBSET (Left \ Seeds), Closed(Left \ M)
  PROVE  M = {}
<1>1. \A b \in Blocks : alive[b] = usage[b] \cup Of(b, {"store"}) /\ alive[b] \subseteq Ids(b)
  BY AtTheEnd DEF Full, Base, TypeOK
<1>2. Left \ M \in SUBSET Everything
  BY <1>1 DEF Left, Everything
<1>3. \A b \in Blocks : \A v \in usage[b] : <<b, v>> \in Left \ M
  BY <1>2 DEF Full, Marks, MarksNeeded
<1>4. \A b \in Blocks : \A v \in Of(b, {"store"}) : <<b, v>> \in Seeds
  BY DEF Seeds
<1> SUFFICES ASSUME NEW x \in M
             PROVE  FALSE
  OBVIOUS
<1>5. PICK b \in Blocks : \E v \in alive[b] : x = <<b, v>>
  BY DEF Left
<1>6. PICK v \in alive[b] : x = <<b, v>>
  BY <1>5
<1> QED
  BY <1>1, <1>3, <1>4, <1>6

(* Whatever the order of the work list, the pass leaves exactly the        *)
(* variables that some side effect needs, and as parameters those of them  *)
(* that are parameters, where no block is listed twice and the first loop  *)
(* misses no rounding mode.                                                *)
THEOREM LeavesExactlyTheNeeded == Spec /\ ListedOnce /\ RoundingMarked => []LeavesTheNeeded
<1>1. Full => LeavesTheNeeded
  BY LeftIsClosed, LeftIsLeast, AtTheEnd DEF LeavesTheNeeded
<1> QED
  BY <1>1, FullHolds, PTL

(* Under the same conditions, what is left of a block reads no static that *)
(* is not a parameter of it any more.                                      *)
THEOREM ReadsAlwaysPassed == Spec /\ ListedOnce /\ RoundingMarked => []ReadsArePassed
<1>1. ASSUME Full, phase = "done", NEW b \in Blocks
      PROVE  Params \cap (CfRefs(b) \cup UNION {Refs(b)[v] : v \in alive[b]}) \subseteq RangeOf(inputs[b])
  <2>1. CfRefs(b) \cup UNION {Refs(b)[v] : v \in alive[b]} \subseteq alive[b]
    BY <1>1 DEF Full, Base, NothingDangles
  <2>2. RangeOf(inputs[b]) = alive[b] \cap Params
    BY <1>1, AtTheEnd
  <2> QED
    BY <2>1, <2>2
<1>2. Full => ReadsArePassed
  BY <1>1 DEF ReadsArePassed
<1> QED
  BY <1>2, FullHolds, PTL
=============================================================================

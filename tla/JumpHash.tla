------------------------------ MODULE JumpHash ------------------------------
(***************************************************************************)
(* The lookup of indirect jump targets: HashtableBuilder::fill and build,  *)
(* the retries in Generator::compile_ijump_lookup, the lookup code that    *)
(* print_ijump_lookup emits, the flat table used instead of the hash table *)
(* and calc_target, through which the interpreter reads either.            *)
(*                                                                         *)
(* An address counts half words: jumps are masked to even addresses, and   *)
(* blocks start at them.  The hash function is an arbitrary function from  *)
(* addresses to three numbers, reduced to the sizes of the tables.         *)
(***************************************************************************)
EXTENDS Integers, FiniteSets, FiniteSetsExt

CONSTANTS
  Addrs,   (* Addresses that are looked up; 0 is none of them.              *)
  Lo, Hi,  (* The program is lifted from address Lo up to below Hi.         *)
  Hashes,  (* The triples spookey_hash may compute.                         *)
  Steps,   (* bucket_size at the start, and how often load_factor can be    *)
           (* lowered: both go down one step per retry.  10 in the code.    *)
  MaxIdx   (* UINT16_MAX: combination_idx stops there.                      *)

Program == {a \in Addrs : Lo <= a /\ a < Hi}

ASSUME AddrsAssumption  == IsFiniteSet(Addrs) /\ Addrs \subseteq Nat \ {0}
ASSUME RangeAssumption  == Lo \in Nat /\ Hi \in Nat /\ Lo <= Hi
ASSUME HashesAssumption == Hashes \subseteq [h0 : Nat, h1 : Nat, h2 : Nat]
ASSUME StepsAssumption  == Steps \in Nat \ {0}
ASSUME MaxIdxAssumption == MaxIdx \in Nat \ {0}

VARIABLES
  useHash,   (* ~OPT_NO_HASH_LOOKUP.                                        *)
  keys,      (* ijump_hasher.keys: the start addresses of the blocks.       *)
  jumpable,  (* Those with a block that is_block_jumpable.                  *)
  hash,      (* spookey_hash before the reduction.                          *)
  phase,     (* What the generator executes.                                *)
  load,      (* bucket_size; load_factor is load / Steps.                   *)
  left,      (* Indices of the buckets build has not come to.               *)
  bucket,    (* The bucket being placed.                                    *)
  stored,    (* Its keys not yet placed with the current combination.       *)
  placed,    (* valid_idxs.                                                 *)
  d0, d1,    (* The current combination,                                    *)
  idx,       (* combination_idx, its number.                                *)
  table,     (* hash_table, 0 in the bins that are not occupied.            *)
  idxs,      (* hash_idxs.                                                  *)
  last       (* The last lookup at run time.                                *)

builder == <<useHash, keys, jumpable, hash>>
vars    == <<builder, phase, load, left, bucket, stored, placed, d0, d1, idx, table, idxs, last>>

Interpreter == 0
NoLookup    == [by |-> "none", addr |-> Interpreter, answer |-> Interpreter]

-----------------------------------------------------------------------------
(* fill: the sizes of the two tables.                                      *)

SizeFor(n)    == (Steps * Cardinality(keys)) \div n + 1
BucketsFor(n) == Cardinality(keys) \div n + 1

Size    == SizeFor(load)
Buckets == BucketsFor(load)

BucketOf(a)  == hash[a].h0 % Buckets
Members(b)   == {k \in keys : BucketOf(k) = b}

(* The bin of address a under a combination. *)
Bin(a, e0, e1) == ((hash[a].h1 % Size) + e0 * (hash[a].h2 % Size) + e1) % Size

(* Mutant: quotient and remainder of the combination swapped. *)
ProbeSwapped(a) == LET i == idxs[BucketOf(a)] IN Bin(a, i % Size, i \div Size)

(* The bin the emitted code and calc_target look at. *)
Probe(a) == LET i == idxs[BucketOf(a)] IN Bin(a, i \div Size, i % Size)

Init ==
  /\ useHash \in BOOLEAN
  /\ keys \in SUBSET Program
  /\ jumpable \in SUBSET keys
  /\ hash \in [Addrs -> Hashes]
  /\ phase = IF useHash THEN "fill" ELSE "emit"
  /\ load = Steps
  /\ left = {} /\ bucket = 0 /\ stored = {} /\ placed = {}
  /\ d0 = 0 /\ d1 = 0 /\ idx = 0
  /\ table = [i \in {0} |-> 0]
  /\ idxs = [b \in {0} |-> 0]
  /\ last = NoLookup

(* build: empty tables and the sorted buckets. *)
StartBuild ==
  /\ phase = "fill"
  /\ left' = 0..(Buckets - 1)
  /\ table' = [i \in 0..(Size - 1) |-> 0]
  /\ idxs' = [b \in 0..(Buckets - 1) |-> 0]
  /\ phase' = "buckets"
  /\ UNCHANGED <<builder, load, bucket, stored, placed, d0, d1, idx, last>>

(* The largest bucket comes first; std::sort orders equal ones at will. *)
Largest(b) == \A c \in left : Cardinality(Members(c)) <= Cardinality(Members(b))

(* Nothing to place: the bucket keeps combination 0. *)
SkipBucket(b) ==
  /\ phase = "buckets"
  /\ b \in left /\ Largest(b)
  /\ Members(b) = {}
  /\ left' = left \ {b}
  /\ UNCHANGED <<builder, phase, load, bucket, stored, placed, d0, d1, idx, table, idxs, last>>

OpenBucket(b) ==
  /\ phase = "buckets"
  /\ b \in left /\ Largest(b)
  /\ Members(b) # {}
  /\ left' = left \ {b}
  /\ bucket' = b
  /\ stored' = Members(b)
  /\ placed' = {}
  /\ d0' = 0 /\ d1' = 0 /\ idx' = 0
  /\ phase' = "place"
  /\ UNCHANGED <<builder, load, table, idxs, last>>

Place(k) ==
  LET i == Bin(k, d0, d1)
  IN  /\ phase = "place"
      /\ k \in stored
      /\ table[i] = 0
      /\ table' = [table EXCEPT ![i] = k]
      /\ placed' = placed \cup {i}
      /\ stored' = stored \ {k}
      /\ UNCHANGED <<builder, phase, load, left, bucket, d0, d1, idx, idxs, last>>

(* Every key of the bucket has a bin: store the combination. *)
CloseBucket ==
  /\ phase = "place"
  /\ stored = {}
  /\ idxs' = [idxs EXCEPT ![bucket] = idx]
  /\ phase' = "buckets"
  /\ UNCHANGED <<builder, load, left, bucket, stored, placed, d0, d1, idx, table, last>>

(* Mutant: the bins of the failed combination stay taken. *)
RevertedNone == table

(* The bins of the failed combination are free again. *)
Reverted == [i \in DOMAIN table |-> IF i \in placed THEN 0 ELSE table[i]]

(* Mutant: d1 rolls over one step late. *)
RolledLate == IF d1 + 1 > Size THEN <<d0 + 1, 0>> ELSE <<d0, d1 + 1>>

(* The combination after this one: d1 counts, and rolls over into d0. *)
Rolled == IF d1 + 1 >= Size THEN <<d0 + 1, 0>> ELSE <<d0, d1 + 1>>

(* Mutant: the loop has no limit. *)
LoopGoesOnForever(e0, e1, i) == e0 < Size \/ e1 < Size

(* The condition of the loop over combinations. *)
LoopGoesOn(e0, e1, i) == (e0 < Size \/ e1 < Size) /\ i < MaxIdx

(* A bin is taken: give up this combination.  The loop ends without one    *)
(* when combination_idx differs from the 0 the bucket started with.        *)
Collide(k) ==
  /\ phase = "place"
  /\ k \in stored
  /\ table[Bin(k, d0, d1)] # 0
  /\ table' = Reverted
  /\ stored' = Members(bucket)
  /\ placed' = {}
  /\ d0' = Rolled[1] /\ d1' = Rolled[2] /\ idx' = idx + 1
  /\ phase' = IF LoopGoesOn(Rolled[1], Rolled[2], idx + 1) THEN "place"
              ELSE IF idxs[bucket] # idx + 1 THEN "retry" ELSE "buckets"
  /\ UNCHANGED <<builder, load, left, bucket, idxs, last>>

(* Mutant: the same sizes are tried again. *)
RetrySame ==
  /\ phase = "retry"
  /\ phase' = "fill"
  /\ UNCHANGED <<builder, load, left, bucket, stored, placed, d0, d1, idx, table, idxs, last>>

(* compile_ijump_lookup: less load, smaller buckets; exit when load_factor *)
(* has come down to 0.                                                     *)
Retry ==
  /\ phase = "retry"
  /\ IF load = 1
     THEN phase' = "failed" /\ UNCHANGED load
     ELSE phase' = "fill" /\ load' = load - 1
  /\ UNCHANGED <<builder, left, bucket, stored, placed, d0, d1, idx, table, idxs, last>>

(* The tables are printed. *)
Emit ==
  /\ phase = "emit" \/ (phase = "buckets" /\ left = {})
  /\ phase' = "ready"
  /\ UNCHANGED <<builder, load, left, bucket, stored, placed, d0, d1, idx, table, idxs, last>>

-----------------------------------------------------------------------------
(* Run time.                                                               *)

(* Mutant: the key is printed although the block cannot be entered. *)
EntryUnchecked(i) == table[i]

(* print_hash_table: a bin without a block to enter is printed as 0, 0. *)
Entry(i) == IF table[i] \in jumpable THEN table[i] ELSE 0

(* The flat table, one entry per half word.  The emitted code admits the    *)
(* index behind the last one too; the zero bytes of the stubs follow there. *)
FlatEntry(i) == IF Lo + i < Hi /\ Lo + i \in jumpable THEN Lo + i ELSE 0

(* ijump_lookup. *)
EmittedLookup(a) ==
  IF useHash
  THEN IF Entry(Probe(a)) = a THEN a ELSE Interpreter
  ELSE IF Lo <= a /\ a - Lo <= Hi - Lo THEN FlatEntry(a - Lo) ELSE Interpreter

(* calc_target.  The difference of the two uint64_t pointers already counts *)
(* entries when it is divided by the size of one.                           *)
CalcTarget(a) ==
  IF useHash
  THEN IF Size > 1 /\ Entry(Probe(a)) = a THEN a ELSE Interpreter
  ELSE IF Lo <= a /\ a - Lo < (Hi - Lo) \div 8 THEN FlatEntry(a - Lo) ELSE Interpreter

Jump(a) ==
  /\ phase = "ready"
  /\ last' = [by |-> "code", addr |-> a, answer |-> EmittedLookup(a)]
  /\ UNCHANGED <<builder, phase, load, left, bucket, stored, placed, d0, d1, idx, table, idxs>>

Ask(a) ==
  /\ phase = "ready"
  /\ last' = [by |-> "interpreter", addr |-> a, answer |-> CalcTarget(a)]
  /\ UNCHANGED <<builder, phase, load, left, bucket, stored, placed, d0, d1, idx, table, idxs>>

Build ==
  \/ StartBuild
  \/ \E b \in left : SkipBucket(b) \/ OpenBucket(b)
  \/ \E k \in stored : Place(k) \/ Collide(k)
  \/ CloseBucket
  \/ Retry
  \/ Emit

(* The generator has exited. *)
Halt ==
  /\ phase = "failed"
  /\ UNCHANGED vars

Next ==
  \/ Build
  \/ \E a \in Addrs : Jump(a) \/ Ask(a)
  \/ Halt

Spec == Init /\ [][Next]_vars

(* The generator is one sequential process that the system keeps running;  *)
(* nothing makes the translated program jump.                              *)
FairSpec == Spec /\ WF_vars(Build)

-----------------------------------------------------------------------------
(* Properties.                                                             *)

Phases == {"fill", "buckets", "place", "retry", "emit", "ready", "failed"}

Bins == 0..(Size - 1)

(* The search stays within the two tables. *)
TypeOK ==
  /\ useHash \in BOOLEAN
  /\ keys \in SUBSET Program /\ jumpable \in SUBSET keys
  /\ hash \in [Addrs -> Hashes]
  /\ phase \in Phases
  /\ load \in 1..Steps
  /\ phase \in {"buckets", "place"} =>
       /\ left \in SUBSET (0..(Buckets - 1))
       /\ table \in [Bins -> keys \cup {0}]
       /\ idxs \in [0..(Buckets - 1) -> 0..MaxIdx]
  /\ phase = "place" =>
       /\ bucket \in 0..(Buckets - 1)
       /\ stored \in SUBSET Members(bucket)
       /\ placed \in SUBSET Bins
       /\ d0 \in Nat /\ d1 \in Bins /\ idx \in 0..(MaxIdx - 1)

(* While the search goes on the table holds the keys of the finished       *)
(* buckets, each in the bin a lookup will probe, and the placed keys of    *)
(* the current one: no failed combination leaves a key behind, and none    *)
(* takes a bin away from a finished bucket.                                *)
Finished == {k \in keys : /\ BucketOf(k) \notin left
                          /\ phase = "place" => BucketOf(k) # bucket}

Tentative == IF phase = "place" THEN Members(bucket) \ stored ELSE {}

TableExact ==
  phase \in {"buckets", "place"} =>
    /\ \A k \in Finished : table[Probe(k)] = k
    /\ \A k \in Tentative : table[Bin(k, d0, d1)] = k
    /\ \A i \in Bins : table[i] \in Finished \cup Tentative \cup {0}

(* The number stored for a bucket stands for the combination tried: what   *)
(* the run time gets back by dividing is what build counted up.            *)
CombinationCounted ==
  phase = "place" => d0 = idx \div Size /\ d1 = idx % Size

(* Every address is answered: a block that may be entered by its own       *)
(* start, and any other address by the interpreter, although the bin of    *)
(* that address may be occupied.                                           *)
Meant(a) == IF a \in jumpable THEN a ELSE Interpreter

LookupExact ==
  phase = "ready" => \A a \in Addrs : EmittedLookup(a) = Meant(a)

(* "returns the target basic block start address for valid input risc-v    *)
(* addresses and return 0x0 otherwise" (helper.cpp:499).                   *)
HashedCalcTargetExact ==
  phase = "ready" /\ useHash => \A a \in Addrs : CalcTarget(a) = Meant(a)

(* The lookup implements the map it stands for. *)
Map == INSTANCE JumpMap WITH
  blocks <- jumpable,
  state  <- IF phase \in {"ready", "failed"} THEN phase ELSE "building"

RefinesMap == Map!Spec

(* The search for hash functions always comes to an end. *)
BuildEnds == <>(phase \in {"ready", "failed"})
=============================================================================

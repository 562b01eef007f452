--------------------------- MODULE JumpHashProofs ---------------------------
(***************************************************************************)
(* Theorems about JumpHash, for every hash function, every set of keys and *)
(* every limit of the search.                                              *)
(***************************************************************************)
EXTENDS JumpHash, FiniteSetTheorems, TLAPS

-----------------------------------------------------------------------------
(* Numbers.                                                                *)

LEMMA DivMod ==
  ASSUME NEW n \in Nat \ {0}, NEW q \in Nat, NEW r \in 0..(n - 1)
  PROVE  (q * n + r) \div n = q /\ (q * n + r) % n = r
BY SMTT(60)

LEMMA DivModIn ==
  ASSUME NEW n \in Nat \ {0}, NEW m \in Nat
  PROVE  m \div n \in Nat /\ m % n \in 0..(n - 1)
OBVIOUS

LEMMA TimesIn ==
  ASSUME NEW n \in Nat, NEW m \in Nat
  PROVE  n * m \in Nat
OBVIOUS

-----------------------------------------------------------------------------
(* The inductive invariant.                                                *)

(* What stays as it was chosen, and the sizes' divisor. *)
Chosen ==
  /\ keys \in SUBSET Program
  /\ jumpable \in SUBSET keys
  /\ hash \in [Addrs -> Hashes]
  /\ load \in 1..Steps

Control ==
  /\ useHash \in BOOLEAN
  /\ phase \in Phases
  /\ phase \in {"fill", "buckets", "place", "retry", "failed"} => useHash
  /\ phase = "emit" => ~useHash
  /\ phase = "ready" /\ useHash => left = {}

Tabled == phase \in {"buckets", "place"} \/ (phase = "ready" /\ useHash)

Indices == 0..(Buckets - 1)

(* The two tables, as far as they are filled.  No bucket still to come has *)
(* a combination, which is how build tells that the search failed.         *)
Tables ==
  Tabled => /\ left \in SUBSET Indices
            /\ table \in [Bins -> keys \cup {0}]
            /\ idxs \in [Indices -> 0..MaxIdx]
            /\ \A b \in left : idxs[b] = 0

(* The bucket being placed: its number of the combination, and which bins  *)
(* hold its keys.                                                          *)
Search ==
  phase = "place" =>
    /\ bucket \in Indices /\ bucket \notin left
    /\ idxs[bucket] = 0
    /\ stored \in SUBSET Members(bucket)
    /\ d0 \in Nat /\ d1 \in Bins /\ idx \in 0..(MaxIdx - 1)
    /\ idx = d0 * Size + d1
    /\ placed = {Bin(k, d0, d1) : k \in Members(bucket) \ stored}
    /\ \A i \in Bins : table[i] \in Members(bucket) => i \in placed

Content ==
  Tabled =>
    /\ \A k \in Finished : table[Probe(k)] = k
    /\ \A k \in Tentative : table[Bin(k, d0, d1)] = k
    /\ \A i \in Bins : table[i] \in Finished \cup Tentative \cup {0}

Inv == Chosen /\ Control /\ Tables /\ Search /\ Content

-----------------------------------------------------------------------------
(* The sizes and the reduced hashes.                                       *)

LEMMA SizesIn ==
  ASSUME Chosen
  PROVE  Size \in Nat \ {0} /\ Buckets \in Nat \ {0}
<1>1. IsFiniteSet(keys)
  BY AddrsAssumption, FS_Subset DEF Chosen, Program
<1>2. Cardinality(keys) \in Nat
  BY <1>1, FS_CardinalityType
<1>3. load \in Nat \ {0} /\ Steps \in Nat
  BY StepsAssumption DEF Chosen
<1>4. Steps * Cardinality(keys) \in Nat
  BY <1>2, <1>3, TimesIn
<1>5. (Steps * Cardinality(keys)) \div load \in Nat /\ Cardinality(keys) \div load \in Nat
  BY <1>2, <1>3, <1>4, DivModIn
<1> QED
  BY <1>5 DEF Size, Buckets, SizeFor, BucketsFor

LEMMA TimesAtLeast ==
  ASSUME NEW n \in Nat, NEW m \in Nat \ {0}
  PROVE  n * m >= n
BY SMTT(30)

LEMMA DivAtLeast ==
  ASSUME NEW n \in Nat \ {0}, NEW m \in Nat, m >= n
  PROVE  m \div n >= 1
BY SMTT(30)

LEMMA SeveralBins ==
  ASSUME Chosen, keys # {}
  PROVE  Size > 1
<1> DEFINE c == Cardinality(keys)
<1>1. IsFiniteSet(keys)
  BY AddrsAssumption, FS_Subset DEF Chosen, Program
<1>2. c \in Nat \ {0}
  BY <1>1, FS_CardinalityType, FS_EmptySet
<1>3. load \in Nat \ {0} /\ Steps \in Nat /\ load <= Steps
  BY StepsAssumption DEF Chosen
<1> HIDE DEF c
<1>4. Steps * c \in Nat /\ Steps * c >= load
  BY <1>2, <1>3, TimesIn, TimesAtLeast
<1>5. (Steps * c) \div load >= 1 /\ (Steps * c) \div load \in Nat
  BY <1>3, <1>4, DivAtLeast, DivModIn
<1> QED
  BY <1>5 DEF Size, SizeFor, c

LEMMA HashIn ==
  ASSUME Chosen, NEW a \in Addrs
  PROVE  hash[a].h0 \in Nat /\ hash[a].h1 \in Nat /\ hash[a].h2 \in Nat
<1>1. hash[a] \in [h0 : Nat, h1 : Nat, h2 : Nat]
  BY HashesAssumption DEF Chosen
<1> QED
  BY <1>1

LEMMA BucketIn ==
  ASSUME Chosen, NEW a \in Addrs
  PROVE  BucketOf(a) \in Indices
<1>1. hash[a].h0 \in Nat /\ Buckets \in Nat \ {0}
  BY HashIn, SizesIn
<1> QED
  BY <1>1, DivModIn DEF BucketOf, Indices

LEMMA BinIn ==
  ASSUME Chosen, NEW a \in Addrs, NEW e0 \in Nat, NEW e1 \in Nat
  PROVE  Bin(a, e0, e1) \in Bins
<1>1. hash[a].h1 \in Nat /\ hash[a].h2 \in Nat /\ Size \in Nat \ {0}
  BY HashIn, SizesIn
<1> DEFINE r1 == hash[a].h1 % Size
           r2 == hash[a].h2 % Size
<1>2. r1 \in Nat /\ r2 \in Nat
  BY <1>1, DivModIn
<1>3. Bin(a, e0, e1) = (r1 + e0 * r2 + e1) % Size
  BY DEF Bin
<1> HIDE DEF r1, r2
<1>4. e0 * r2 \in Nat
  BY <1>2, TimesIn
<1>5. r1 + e0 * r2 + e1 \in Nat
  BY <1>2, <1>4
<1> QED
  BY <1>1, <1>3, <1>5, DivModIn DEF Bins

LEMMA ProbeIn ==
  ASSUME Chosen, NEW a \in Addrs, idxs[BucketOf(a)] \in Nat
  PROVE  Probe(a) \in Bins
<1> DEFINE i == idxs[BucketOf(a)]
<1>1. Size \in Nat \ {0}
  BY SizesIn
<1>2. i \div Size \in Nat /\ i % Size \in Nat
  BY <1>1, DivModIn
<1>3. Probe(a) = Bin(a, i \div Size, i % Size)
  BY DEF Probe
<1> HIDE DEF i
<1> QED
  BY <1>2, <1>3, BinIn

LEMMA KeysAreAddrs ==
  ASSUME Chosen
  PROVE  /\ keys \subseteq Addrs /\ 0 \notin keys
         /\ \A b : Members(b) \subseteq keys
         /\ \A k \in keys : k \in Members(BucketOf(k))
BY AddrsAssumption DEF Chosen, Program, Members

(* While the builder and the load stay, so does everything derived. *)
LEMMA SameSizes ==
  ASSUME UNCHANGED <<builder, load>>
  PROVE  /\ Size' = Size /\ Buckets' = Buckets /\ Bins' = Bins /\ Indices' = Indices
         /\ \A a : BucketOf(a)' = BucketOf(a)
         /\ \A b : Members(b)' = Members(b)
         /\ \A a, e0, e1 : Bin(a, e0, e1)' = Bin(a, e0, e1)
         /\ keys' = keys /\ jumpable' = jumpable /\ hash' = hash /\ useHash' = useHash
<1>1. keys' = keys /\ jumpable' = jumpable /\ hash' = hash /\ useHash' = useHash /\ load' = load
  BY DEF builder
<1>2. Size' = Size /\ Buckets' = Buckets
  BY <1>1 DEF Size, Buckets, SizeFor, BucketsFor
<1>3. Bins' = Bins /\ Indices' = Indices
  BY <1>2 DEF Bins, Indices
<1>4. \A a : BucketOf(a)' = BucketOf(a)
  BY <1>1, <1>2 DEF BucketOf
<1>5. \A b : Members(b)' = Members(b)
  BY <1>1, <1>4 DEF Members
<1>6. \A a, e0, e1 : Bin(a, e0, e1)' = Bin(a, e0, e1)
  BY <1>1, <1>2 DEF Bin
<1> QED
  BY <1>1, <1>2, <1>3, <1>4, <1>5, <1>6

LEMMA SameChosen ==
  ASSUME Chosen, UNCHANGED <<builder, load>>
  PROVE  Chosen'
BY DEF Chosen, builder

LEMMA SameProbe ==
  ASSUME UNCHANGED <<builder, load>>, NEW a, idxs'[BucketOf(a)] = idxs[BucketOf(a)]
  PROVE  Probe(a)' = Probe(a)
<1> DEFINE i == idxs[BucketOf(a)]
<1>1. BucketOf(a)' = BucketOf(a) /\ Size' = Size
  BY SameSizes
<1>2. \A e0, e1 : Bin(a, e0, e1)' = Bin(a, e0, e1)
  BY SameSizes
<1>3. idxs'[BucketOf(a)'] = i
  BY <1>1
<1>4. Probe(a) = Bin(a, i \div Size, i % Size)
  BY DEF Probe
<1>5. Probe(a)' = Bin(a, i \div Size, i % Size)
  BY <1>1, <1>2, <1>3 DEF Probe, Bin
<1> QED
  BY <1>4, <1>5

-----------------------------------------------------------------------------
(* The initial states and the steps.                                       *)

LEMMA InitInv == Init => Inv
<1> SUFFICES ASSUME Init
             PROVE  Inv
  OBVIOUS
<1>1. Chosen
  BY StepsAssumption DEF Init, Chosen
<1>2. Control
  BY DEF Init, Control, Phases
<1>3. ~Tabled /\ phase # "place"
  BY DEF Init, Tabled
<1> QED
  BY <1>1, <1>2, <1>3 DEF Inv, Tables, Search, Content

LEMMA StartBuildInv ==
  ASSUME Inv, StartBuild
  PROVE  Inv'
<1>1. UNCHANGED <<builder, load>> /\ phase = "fill" /\ phase' = "buckets"
  BY DEF StartBuild
<1>2. /\ left' = Indices
      /\ table' = [i \in Bins |-> 0]
      /\ idxs' = [b \in Indices |-> 0]
  BY DEF StartBuild, Indices, Bins
<1>3. Chosen /\ Chosen'
  BY <1>1, SameChosen DEF Inv
<1>4. Control'
  BY <1>1 DEF Inv, Control, Phases, builder
<1>5. Indices' = Indices /\ Bins' = Bins /\ keys' = keys
  BY <1>1, SameSizes
<1>6. Tables'
  BY <1>1, <1>2, <1>5, MaxIdxAssumption DEF Tables
<1>7. Search'
  BY <1>1 DEF Search
<1>8. Finished' = {} /\ Tentative' = {}
  <2>1. \A k \in keys : BucketOf(k)' \in left'
    BY <1>1, <1>2, <1>3, SameSizes, BucketIn, KeysAreAddrs
  <2> QED
    BY <1>1, <1>5, <2>1 DEF Finished, Tentative
<1>9. Content'
  BY <1>2, <1>5, <1>8 DEF Content
<1> QED
  BY <1>3, <1>4, <1>6, <1>7, <1>9 DEF Inv

LEMMA SkipBucketInv ==
  ASSUME Inv, NEW b, SkipBucket(b)
  PROVE  Inv'
<1>1. UNCHANGED <<builder, load>> /\ phase = "buckets" /\ phase' = "buckets"
  BY DEF SkipBucket
<1>2. left' = left \ {b} /\ table' = table /\ idxs' = idxs /\ Members(b) = {}
  BY DEF SkipBucket
<1>3. Chosen /\ Chosen'
  BY <1>1, SameChosen DEF Inv
<1>4. Control'
  BY <1>1 DEF Inv, Control, Phases, builder
<1>5. Indices' = Indices /\ Bins' = Bins /\ keys' = keys
  BY <1>1, SameSizes
<1>6. Tables'
  BY <1>1, <1>2, <1>5 DEF Inv, Tables, Tabled
<1>7. Search'
  BY <1>1 DEF Search
<1>8. Finished' = Finished /\ Tentative = {} /\ Tentative' = {}
  <2>1. \A k \in keys : BucketOf(k) # b
    BY <1>2, <1>3, KeysAreAddrs
  <2>2. \A k : BucketOf(k)' = BucketOf(k)
    BY <1>1, SameSizes
  <2> QED
    BY <1>1, <1>2, <1>5, <2>1, <2>2 DEF Finished, Tentative
<1>9. \A k : Probe(k)' = Probe(k)
  BY <1>1, <1>2, SameProbe
<1>10. Content'
  BY <1>1, <1>2, <1>5, <1>8, <1>9 DEF Inv, Content, Tabled
<1> QED
  BY <1>3, <1>4, <1>6, <1>7, <1>10 DEF Inv

LEMMA OpenBucketInv ==
  ASSUME Inv, NEW b, OpenBucket(b)
  PROVE  Inv'
<1>1. UNCHANGED <<builder, load>> /\ phase = "buckets" /\ phase' = "place"
  BY DEF OpenBucket
<1>2. /\ b \in left /\ left' = left \ {b} /\ bucket' = b
      /\ stored' = Members(b) /\ placed' = {}
      /\ d0' = 0 /\ d1' = 0 /\ idx' = 0
      /\ table' = table /\ idxs' = idxs
  BY DEF OpenBucket
<1>3. Chosen /\ Chosen'
  BY <1>1, SameChosen DEF Inv
<1>4. Control'
  BY <1>1 DEF Inv, Control, Phases, builder
<1>5. Indices' = Indices /\ Bins' = Bins /\ keys' = keys /\ Size' = Size
  BY <1>1, SameSizes
<1>6. /\ left \in SUBSET Indices
      /\ table \in [Bins -> keys \cup {0}]
      /\ idxs \in [Indices -> 0..MaxIdx]
      /\ \A c \in left : idxs[c] = 0
  BY <1>1 DEF Inv, Tables, Tabled
<1>7. Tables'
  BY <1>1, <1>2, <1>5, <1>6 DEF Tables
<1>8. \A k : BucketOf(k)' = BucketOf(k)
  BY <1>1, SameSizes
<1>9. Members(b)' = Members(b) /\ Members(bucket)' = Members(b)
  BY <1>1, <1>2, SameSizes DEF Members
<1>10. Finished' = Finished /\ Tentative = {} /\ Tentative' = {}
  BY <1>1, <1>2, <1>5, <1>8, <1>9 DEF Finished, Tentative
<1>11. /\ \A k \in Finished : table[Probe(k)] = k
       /\ \A i \in Bins : table[i] \in Finished \cup {0}
  BY <1>1, <1>10 DEF Inv, Content, Tabled
<1>12. \A k : Probe(k)' = Probe(k)
  BY <1>1, <1>2, SameProbe
<1>13. Content'
  BY <1>2, <1>5, <1>10, <1>11, <1>12 DEF Content
<1>14. \A i \in Bins : table[i] \notin Members(b)
  <2>1. 0 \notin Members(b)
    BY <1>3, KeysAreAddrs
  <2>2. Finished \cap Members(b) = {}
    BY <1>1, <1>2 DEF Finished, Members
  <2> QED
    BY <1>11, <2>1, <2>2
<1>15. Size \in Nat \ {0}
  BY <1>3, SizesIn
<1>16. Search'
  <2>1. bucket' \in Indices' /\ bucket' \notin left' /\ idxs'[bucket'] = 0
    BY <1>2, <1>5, <1>6
  <2>2. stored' \in SUBSET Members(bucket)'
    BY <1>2, <1>9
  <2>3. d0' \in Nat /\ d1' \in Bins' /\ idx' \in 0..(MaxIdx - 1)
    BY <1>2, <1>5, <1>15, MaxIdxAssumption DEF Bins
  <2>4. idx' = d0' * Size' + d1'
    BY <1>2, <1>5, <1>15
  <2>5. (Members(bucket) \ stored)' = {}
    BY <1>2, <1>9
  <2>6. placed' = {Bin(k, d0, d1) : k \in Members(bucket) \ stored}'
    BY <1>2, <2>5
  <2>7. \A i \in Bins' : table'[i] \in Members(bucket)' => i \in placed'
    BY <1>2, <1>5, <1>9, <1>14
  <2> QED
    BY <2>1, <2>2, <2>3, <2>4, <2>6, <2>7 DEF Search
<1> QED
  BY <1>3, <1>4, <1>7, <1>13, <1>16 DEF Inv

(* What holds while a bucket is being placed, in pieces. *)
LEMMA PlaceFacts ==
  ASSUME Inv, phase = "place"
  PROVE  /\ left \in SUBSET Indices
         /\ table \in [Bins -> keys \cup {0}]
         /\ idxs \in [Indices -> 0..MaxIdx]
         /\ \A c \in left : idxs[c] = 0
         /\ Tentative = Members(bucket) \ stored
         /\ Finished \cap Members(bucket) = {}
         /\ Finished \subseteq keys
         /\ 0 \notin keys
         /\ Members(bucket) \subseteq keys
         /\ \A k \in Finished : BucketOf(k) \in Indices /\ Probe(k) \in Bins
         /\ \A k \in Members(bucket) : Bin(k, d0, d1) \in Bins
         /\ Size \in Nat \ {0}
<1>1. /\ left \in SUBSET Indices
      /\ table \in [Bins -> keys \cup {0}]
      /\ idxs \in [Indices -> 0..MaxIdx]
      /\ \A c \in left : idxs[c] = 0
  BY DEF Inv, Tables, Tabled
<1>2. /\ Tentative = Members(bucket) \ stored
      /\ Finished \cap Members(bucket) = {}
      /\ Finished \subseteq keys
  BY DEF Tentative, Finished, Members
<1>3. Chosen
  BY DEF Inv
<1>4. /\ 0 \notin keys /\ keys \subseteq Addrs /\ Members(bucket) \subseteq keys
  BY <1>3, KeysAreAddrs
<1>5. \A k \in Finished : BucketOf(k) \in Indices
  BY <1>2, <1>3, <1>4, BucketIn
<1>6. \A k \in Finished : idxs[BucketOf(k)] \in Nat
  BY <1>1, <1>5
<1>7. \A k \in Finished : Probe(k) \in Bins
  BY <1>2, <1>3, <1>4, <1>6, ProbeIn
<1>8. Size \in Nat \ {0}
  BY <1>3, SizesIn
<1>9. d0 \in Nat /\ d1 \in Nat
  BY <1>8 DEF Inv, Search, Bins
<1>10. \A k \in Members(bucket) : Bin(k, d0, d1) \in Bins
  BY <1>3, <1>4, <1>9, BinIn
<1> QED
  BY <1>1, <1>2, <1>4, <1>5, <1>7, <1>8, <1>10

LEMMA PlaceInv ==
  ASSUME Inv, NEW k, Place(k)
  PROVE  Inv'
<1> DEFINE i == Bin(k, d0, d1)
<1>1. UNCHANGED <<builder, load>> /\ phase = "place" /\ phase' = "place"
  BY DEF Place
<1>2. /\ k \in stored /\ table[i] = 0
      /\ table' = [table EXCEPT ![i] = k]
      /\ placed' = placed \cup {i}
      /\ stored' = stored \ {k}
  BY DEF Place
<1>3. left' = left /\ bucket' = bucket /\ d0' = d0 /\ d1' = d1 /\ idx' = idx /\ idxs' = idxs
  BY DEF Place
<1>4. Chosen /\ Chosen'
  BY <1>1, SameChosen DEF Inv
<1>5. Control'
  BY <1>1 DEF Inv, Control, Phases, builder
<1>6. Indices' = Indices /\ Bins' = Bins /\ keys' = keys /\ Size' = Size
  BY <1>1, SameSizes
<1>7. /\ \A x : BucketOf(x)' = BucketOf(x)
      /\ \A x, e0, e1 : Bin(x, e0, e1)' = Bin(x, e0, e1)
  BY <1>1, SameSizes
<1>8. Members(bucket)' = Members(bucket)
  BY <1>3, <1>6, <1>7 DEF Members
<1>9. \A x : Bin(x, d0, d1)' = Bin(x, d0, d1)
  BY <1>3, <1>6, <1>7 DEF Bin
<1>10. \A x : Probe(x)' = Probe(x)
  BY <1>1, <1>3, SameProbe
<1>11. /\ bucket \in Indices /\ bucket \notin left
       /\ idxs[bucket] = 0
       /\ stored \in SUBSET Members(bucket)
       /\ d0 \in Nat /\ d1 \in Bins /\ idx \in 0..(MaxIdx - 1)
       /\ idx = d0 * Size + d1
       /\ placed = {Bin(x, d0, d1) : x \in Members(bucket) \ stored}
       /\ \A j \in Bins : table[j] \in Members(bucket) => j \in placed
  BY <1>1 DEF Inv, Search
<1>12. i \in Bins /\ k \in Members(bucket) /\ k \in keys
  BY <1>1, <1>2, <1>11, PlaceFacts
<1>13. Tables'
  BY <1>1, <1>2, <1>3, <1>6, <1>12, PlaceFacts DEF Tables
<1>14. Search'
  <2>1. stored' \in SUBSET Members(bucket)'
    BY <1>2, <1>8, <1>11
  <2>2. placed' = {Bin(x, d0, d1) : x \in Members(bucket) \ stored}'
    <3>1. Members(bucket) \ stored' = (Members(bucket) \ stored) \cup {k}
      BY <1>2, <1>12
    <3>2. placed' = {Bin(x, d0, d1) : x \in Members(bucket) \ stored'}
      BY <1>2, <1>11, <3>1
    <3> QED
      BY <1>8, <1>9, <3>2
  <2>3. \A j \in Bins' : table'[j] \in Members(bucket)' => j \in placed'
    BY <1>1, <1>2, <1>6, <1>8, <1>11, <1>12, PlaceFacts
  <2>4. bucket' \in Indices' /\ bucket' \notin left' /\ idxs'[bucket'] = 0
    BY <1>3, <1>6, <1>11
  <2>5. /\ d0' \in Nat /\ d1' \in Bins' /\ idx' \in 0..(MaxIdx - 1)
        /\ idx' = d0' * Size' + d1'
    BY <1>3, <1>6, <1>11
  <2> QED
    BY <2>1, <2>2, <2>3, <2>4, <2>5 DEF Search
<1>15. Content'
  <2>1. Finished' = Finished /\ Tentative' = Tentative \cup {k}
    BY <1>1, <1>2, <1>3, <1>6, <1>7, <1>8, <1>12 DEF Finished, Tentative
  <2>2. /\ \A x \in Finished : table[Probe(x)] = x
        /\ \A x \in Tentative : table[Bin(x, d0, d1)] = x
        /\ \A j \in Bins : table[j] \in Finished \cup Tentative \cup {0}
    BY <1>1 DEF Inv, Content, Tabled
  <2> HIDE DEF i
  <2>3. \A x \in Finished : table'[Probe(x)] = x
    BY <1>1, <1>2, <2>2, PlaceFacts
  <2>4. \A x \in Tentative : table'[Bin(x, d0, d1)] = x
    BY <1>1, <1>2, <2>2, PlaceFacts
  <2>5. table'[i] = k
    BY <1>1, <1>2, <1>12, PlaceFacts
  <2>6. \A x \in Tentative' : table'[Bin(x, d0, d1)] = x
    BY <2>1, <2>4, <2>5 DEF i
  <2>7. \A j \in Bins : table'[j] \in Finished' \cup Tentative' \cup {0}
    BY <1>1, <1>2, <2>1, <2>2, PlaceFacts
  <2>8. \A x \in Finished' : table'[Probe(x)'] = x
    BY <1>10, <2>1, <2>3
  <2>9. \A x \in Tentative' : table'[Bin(x, d0, d1)'] = x
    BY <1>9, <2>6
  <2> QED
    BY <1>6, <2>7, <2>8, <2>9 DEF Content
<1> QED
  BY <1>4, <1>5, <1>13, <1>14, <1>15 DEF Inv

LEMMA CloseBucketInv ==
  ASSUME Inv, CloseBucket
  PROVE  Inv'
<1>1. UNCHANGED <<builder, load>> /\ phase = "place" /\ phase' = "buckets"
  BY DEF CloseBucket
<1>2. /\ stored = {} /\ left' = left /\ table' = table
      /\ idxs' = [idxs EXCEPT ![bucket] = idx]
  BY DEF CloseBucket
<1>3. Chosen /\ Chosen'
  BY <1>1, SameChosen DEF Inv
<1>4. Control'
  BY <1>1 DEF Inv, Control, Phases, builder
<1>5. Indices' = Indices /\ Bins' = Bins /\ keys' = keys /\ Size' = Size
  BY <1>1, SameSizes
<1>6. /\ \A x : BucketOf(x)' = BucketOf(x)
      /\ \A x, e0, e1 : Bin(x, e0, e1)' = Bin(x, e0, e1)
  BY <1>1, SameSizes
<1>7. /\ bucket \in Indices /\ bucket \notin left
      /\ d0 \in Nat /\ d1 \in Bins /\ idx \in 0..(MaxIdx - 1)
      /\ idx = d0 * Size + d1
  BY <1>1 DEF Inv, Search
<1>8. Tables'
  BY <1>1, <1>2, <1>5, <1>7, MaxIdxAssumption, PlaceFacts DEF Tables
<1>9. Search'
  BY <1>1 DEF Search
<1>10. Content'
  <2>1. Tentative = Members(bucket)
    BY <1>1, <1>2, PlaceFacts
  <2>2. Finished' = Finished \cup Members(bucket) /\ Tentative' = {}
    BY <1>1, <1>2, <1>5, <1>6, <1>7 DEF Finished, Tentative, Members
  <2>3. /\ \A x \in Finished : table[Probe(x)] = x
        /\ \A x \in Members(bucket) : table[Bin(x, d0, d1)] = x
        /\ \A j \in Bins : table[j] \in Finished \cup Members(bucket) \cup {0}
    BY <1>1, <2>1 DEF Inv, Content, Tabled
  <2>4. ASSUME NEW x \in Finished
        PROVE  Probe(x)' = Probe(x)
    <3>1. BucketOf(x) # bucket
      BY <1>1 DEF Finished
    <3>2. idxs'[BucketOf(x)] = idxs[BucketOf(x)]
      BY <1>1, <1>2, <3>1, PlaceFacts
    <3> QED
      BY <1>1, <3>2, SameProbe
  <2>5. ASSUME NEW x \in Members(bucket)
        PROVE  Probe(x)' = Bin(x, d0, d1)
    <3>1. BucketOf(x)' = bucket
      BY <1>6 DEF Members
    <3>2. idxs'[BucketOf(x)'] = d0 * Size + d1
      BY <1>1, <1>2, <1>7, <3>1, PlaceFacts
    <3>3. (d0 * Size + d1) \div Size = d0 /\ (d0 * Size + d1) % Size = d1
      BY <1>1, <1>7, DivMod, PlaceFacts DEF Bins
    <3> QED
      BY <1>1, <1>5, <3>2, <3>3, <1>6 DEF Probe, Bin, builder
  <2>6. \A x \in Finished' : table'[Probe(x)'] = x
    BY <1>2, <2>2, <2>3, <2>4, <2>5
  <2> QED
    BY <1>2, <1>5, <2>2, <2>3, <2>6 DEF Content
<1> QED
  BY <1>3, <1>4, <1>8, <1>9, <1>10 DEF Inv

(* The next combination has the next number. *)
LEMMA RolledCounts ==
  ASSUME Size \in Nat \ {0}, d0 \in Nat, d1 \in Bins
  PROVE  /\ Rolled[1] \in Nat /\ Rolled[2] \in Bins
         /\ Rolled[1] * Size + Rolled[2] = d0 * Size + d1 + 1
<1>1. CASE d1 + 1 >= Size
  <2>1. d1 + 1 = Size /\ Rolled = <<d0 + 1, 0>>
    BY <1>1 DEF Bins, Rolled
  <2>2. (d0 + 1) * Size = d0 * Size + Size
    OBVIOUS
  <2>3. d0 * Size \in Nat
    BY TimesIn
  <2> QED
    BY <2>1, <2>2, <2>3 DEF Bins
<1>2. CASE ~(d1 + 1 >= Size)
  <2>1. Rolled = <<d0, d1 + 1>>
    BY <1>2 DEF Rolled
  <2>2. d0 * Size \in Nat
    BY TimesIn
  <2> QED
    BY <1>2, <2>1, <2>2 DEF Bins
<1> QED
  BY <1>1, <1>2

LEMMA CollideInv ==
  ASSUME Inv, NEW k, Collide(k)
  PROVE  Inv'
<1>1. UNCHANGED <<builder, load>> /\ phase = "place"
  BY DEF Collide
<1>2. /\ left' = left /\ bucket' = bucket /\ idxs' = idxs
      /\ table' = Reverted /\ stored' = Members(bucket) /\ placed' = {}
      /\ d0' = Rolled[1] /\ d1' = Rolled[2] /\ idx' = idx + 1
      /\ phase' = IF LoopGoesOn(Rolled[1], Rolled[2], idx + 1) THEN "place"
                  ELSE IF idxs[bucket] # idx + 1 THEN "retry" ELSE "buckets"
  BY DEF Collide
<1>3. Chosen /\ Chosen'
  BY <1>1, SameChosen DEF Inv
<1>4. /\ bucket \in Indices /\ bucket \notin left
      /\ idxs[bucket] = 0
      /\ stored \in SUBSET Members(bucket)
      /\ d0 \in Nat /\ d1 \in Bins /\ idx \in 0..(MaxIdx - 1)
      /\ idx = d0 * Size + d1
      /\ placed = {Bin(x, d0, d1) : x \in Members(bucket) \ stored}
      /\ \A j \in Bins : table[j] \in Members(bucket) => j \in placed
  BY <1>1 DEF Inv, Search
<1>5. idxs[bucket] # idx + 1
  BY <1>4, MaxIdxAssumption
<1>6. phase' \in {"place", "retry"}
  BY <1>2, <1>5
<1>7. Control'
  BY <1>1, <1>6 DEF Inv, Control, Phases, builder
<1>8. CASE phase' = "retry"
  <2>1. ~Tabled' /\ phase' # "place"
    BY <1>8 DEF Tabled
  <2> QED
    BY <1>3, <1>7, <2>1 DEF Inv, Tables, Search, Content
<1>9. CASE phase' = "place"
  <2>1. LoopGoesOn(Rolled[1], Rolled[2], idx + 1)
    BY <1>2, <1>5, <1>9
  <2>2. Indices' = Indices /\ Bins' = Bins /\ keys' = keys /\ Size' = Size
    BY <1>1, SameSizes
  <2>3. /\ \A x : BucketOf(x)' = BucketOf(x)
        /\ \A x : Probe(x)' = Probe(x)
    BY <1>1, <1>2, SameSizes, SameProbe
  <2>4. Members(bucket)' = Members(bucket)
    BY <1>2, <2>2, <2>3 DEF Members
  <2>5. table' = [j \in Bins |-> IF j \in placed THEN 0 ELSE table[j]]
    BY <1>1, <1>2, PlaceFacts DEF Reverted
  <2>6. Tables'
    BY <1>1, <1>2, <2>2, <2>5, PlaceFacts DEF Tables
  <2>7. Finished' = Finished /\ Tentative' = {}
    BY <1>1, <1>2, <1>9, <2>2, <2>3, <2>4 DEF Finished, Tentative
  <2>8. /\ \A x \in Finished : table[Probe(x)] = x
        /\ \A x \in Tentative : table[Bin(x, d0, d1)] = x
        /\ \A j \in Bins : table[j] \in Finished \cup Tentative \cup {0}
    BY <1>1 DEF Inv, Content, Tabled
  <2>9. \A j \in placed : table[j] \in Members(bucket)
    BY <1>1, <1>4, <2>8, PlaceFacts
  <2>10. \A x \in Finished : Probe(x) \notin placed
    BY <1>1, <2>8, <2>9, PlaceFacts
  <2>11. \A x \in Finished' : table'[Probe(x)'] = x
    BY <1>1, <2>3, <2>5, <2>7, <2>8, <2>10, PlaceFacts
  <2>12. \A j \in Bins : table'[j] \in Finished \cup {0}
    <3>1. ASSUME NEW j \in Bins, j \notin placed
          PROVE  table[j] \in Finished \cup {0}
      <4>1. table[j] \notin Members(bucket)
        BY <1>4, <3>1
      <4>2. table[j] \notin Tentative
        BY <1>1, <4>1, PlaceFacts
      <4> QED
        BY <2>8, <4>2
    <3> QED
      BY <2>5, <3>1
  <2>13. Content'
    BY <2>2, <2>7, <2>11, <2>12 DEF Content
  <2>14. Search'
    <3>1. /\ Rolled[1] \in Nat /\ Rolled[2] \in Bins
          /\ Rolled[1] * Size + Rolled[2] = idx + 1
      BY <1>1, <1>4, RolledCounts, PlaceFacts
    <3>2. idx + 1 \in 0..(MaxIdx - 1)
      BY <1>4, <2>1, MaxIdxAssumption DEF LoopGoesOn
    <3>3. /\ d0' \in Nat /\ d1' \in Bins' /\ idx' \in 0..(MaxIdx - 1)
          /\ idx' = d0' * Size' + d1'
      BY <1>2, <2>2, <3>1, <3>2
    <3>4. bucket' \in Indices' /\ bucket' \notin left' /\ idxs'[bucket'] = 0
      BY <1>2, <1>4, <2>2
    <3>5. stored' = Members(bucket)'
      BY <1>2, <2>4
    <3>6. (Members(bucket) \ stored)' = {}
      BY <3>5
    <3>7. placed' = {Bin(x, d0, d1) : x \in Members(bucket) \ stored}'
      BY <1>2, <3>6
    <3>8. \A j \in Bins' : table'[j] \in Members(bucket)' => j \in placed'
      BY <1>1, <2>2, <2>4, <2>12, PlaceFacts
    <3> QED
      BY <3>3, <3>4, <3>5, <3>7, <3>8 DEF Search
  <2> QED
    BY <1>3, <1>7, <2>6, <2>13, <2>14 DEF Inv
<1> QED
  BY <1>6, <1>8, <1>9

LEMMA RetryInv ==
  ASSUME Inv, Retry
  PROVE  Inv'
<1>1. /\ phase = "retry" /\ phase' \in {"failed", "fill"}
      /\ builder' = builder
      /\ load' = load \/ (load # 1 /\ load' = load - 1)
  BY DEF Retry
<1>2. load \in 1..Steps /\ Steps \in Nat
  BY StepsAssumption DEF Inv, Chosen
<1>3. Chosen'
  BY <1>1, <1>2 DEF Inv, Chosen, builder
<1>4. Control'
  BY <1>1 DEF Inv, Control, Phases, builder
<1>5. ~Tabled' /\ phase' # "place"
  BY <1>1 DEF Tabled
<1> QED
  BY <1>3, <1>4, <1>5 DEF Inv, Tables, Search, Content

(* Printing the tables, and everything at run time, changes no table. *)
LEMMA KeptInv ==
  ASSUME Inv,
         UNCHANGED <<builder, load, left, bucket, stored, placed, d0, d1, idx, table, idxs>>,
         \/ phase' = phase
         \/ phase' = "ready" /\ (phase = "emit" \/ (phase = "buckets" /\ left = {}))
  PROVE  Inv'
<1>1. UNCHANGED <<builder, load>>
  OBVIOUS
<1>2. Chosen'
  BY <1>1, SameChosen DEF Inv
<1>3. Control'
  BY DEF Inv, Control, Phases, builder
<1>4. Indices' = Indices /\ Bins' = Bins /\ keys' = keys /\ Size' = Size /\ useHash' = useHash
  BY <1>1, SameSizes
<1>5. Tabled' => Tabled
  BY <1>4 DEF Inv, Control, Tabled
<1>6. Tables'
  BY <1>4, <1>5 DEF Inv, Tables
<1>7. /\ \A x : BucketOf(x)' = BucketOf(x)
      /\ \A x, e0, e1 : Bin(x, e0, e1)' = Bin(x, e0, e1)
      /\ \A x : Probe(x)' = Probe(x)
  BY <1>1, SameSizes, SameProbe
<1>8. Members(bucket)' = Members(bucket)
  BY <1>4, <1>7 DEF Members
<1>9. \A x : Bin(x, d0, d1)' = Bin(x, d0, d1)
  BY <1>4, <1>7 DEF Bin, builder
<1>10. Search'
  BY <1>4, <1>8, <1>9 DEF Inv, Search
<1>11. Tabled' => Finished' = Finished /\ Tentative' = Tentative
  BY <1>4, <1>7, <1>8 DEF Finished, Tentative
<1>12. Content'
  BY <1>4, <1>5, <1>7, <1>9, <1>11 DEF Inv, Content
<1> QED
  BY <1>2, <1>3, <1>6, <1>10, <1>12 DEF Inv

LEMMA NextInv ==
  ASSUME Inv, [Next]_vars
  PROVE  Inv'
<1>1. CASE StartBuild
  BY <1>1, StartBuildInv
<1>2. ASSUME NEW b \in left, SkipBucket(b) \/ OpenBucket(b)
      PROVE  Inv'
  BY <1>2, SkipBucketInv, OpenBucketInv
<1>3. ASSUME NEW k \in stored, Place(k) \/ Collide(k)
      PROVE  Inv'
  BY <1>3, PlaceInv, CollideInv
<1>4. CASE CloseBucket
  BY <1>4, CloseBucketInv
<1>5. CASE Retry
  BY <1>5, RetryInv
<1>6. CASE Emit
  BY <1>6, KeptInv DEF Emit
<1>7. ASSUME NEW a \in Addrs, Jump(a) \/ Ask(a)
      PROVE  Inv'
  BY <1>7, KeptInv DEF Jump, Ask
<1>8. CASE UNCHANGED vars
  BY <1>8, KeptInv DEF vars
<1>9. CASE Halt
  BY <1>8, <1>9 DEF Halt
<1> QED
  BY <1>1, <1>2, <1>3, <1>4, <1>5, <1>6, <1>7, <1>8, <1>9 DEF Next, Build

-----------------------------------------------------------------------------
(* The theorems.                                                           *)

(* The invariant of HashtableBuilder::build and what follows it holds in   *)
(* every reachable state.                                                  *)
THEOREM Inductive == Spec => []Inv
<1>1. Init => Inv
  BY InitInv
<1>2. Inv /\ [Next]_vars => Inv'
  BY NextInv
<1> QED
  BY <1>1, <1>2, PTL DEF Spec

(* Whatever combinations build tries and takes back, the table holds the   *)
(* keys of the finished buckets where the lookup probes, and nothing else. *)
THEOREM TableIsExact == Spec => []TableExact
<1>1. Inv => TableExact
  BY DEF Inv, Content, Tabled, TableExact
<1> QED
  BY <1>1, Inductive, PTL

(* The number that is stored for a bucket gives back, divided by the size, *)
(* the combination that build reached by counting.                         *)
THEOREM CombinationIsCounted == Spec => []CombinationCounted
<1>1. Inv => CombinationCounted
  <2> SUFFICES ASSUME Inv, phase = "place"
               PROVE  d0 = idx \div Size /\ d1 = idx % Size
    BY DEF CombinationCounted
  <2>1. idx = d0 * Size + d1 /\ d0 \in Nat /\ d1 \in 0..(Size - 1)
    BY DEF Inv, Search, Bins
  <2>2. Size \in Nat \ {0}
    BY SizesIn DEF Inv
  <2> QED
    BY <2>1, <2>2, DivMod
<1> QED
  BY <1>1, Inductive, PTL

(* Every step stays within the tables and within 16 bits. *)
THEOREM TypeCorrect == Spec => []TypeOK
<1>1. Inv => TypeOK
  <2> SUFFICES ASSUME Inv
               PROVE  TypeOK
    OBVIOUS
  <2>1. /\ useHash \in BOOLEAN /\ phase \in Phases
        /\ keys \in SUBSET Program /\ jumpable \in SUBSET keys
        /\ hash \in [Addrs -> Hashes] /\ load \in 1..Steps
    BY DEF Inv, Control, Chosen
  <2>2. phase \in {"buckets", "place"} =>
          /\ left \in SUBSET (0..(Buckets - 1))
          /\ table \in [Bins -> keys \cup {0}]
          /\ idxs \in [0..(Buckets - 1) -> 0..MaxIdx]
    BY DEF Inv, Tables, Tabled, Indices
  <2>3. phase = "place" => \A k \in Members(bucket) : Bin(k, d0, d1) \in Bins
    BY PlaceFacts
  <2>4. phase = "place" =>
          /\ bucket \in 0..(Buckets - 1)
          /\ stored \in SUBSET Members(bucket)
          /\ placed \in SUBSET Bins
          /\ d0 \in Nat /\ d1 \in Bins /\ idx \in 0..(MaxIdx - 1)
    BY <2>3 DEF Inv, Search, Indices
  <2> QED
    BY <2>1, <2>2, <2>4 DEF TypeOK
<1> QED
  BY <1>1, Inductive, PTL

(* What the emitted code answers is what the map means, in both forms of   *)
(* the table.                                                              *)
LEMMA Answers ==
  ASSUME Inv, phase = "ready", NEW a \in Addrs
  PROVE  EmittedLookup(a) = Meant(a)
<1>1. Chosen
  BY DEF Inv
<1>2. a # 0 /\ 0 \notin jumpable /\ jumpable \subseteq keys
  BY <1>1, AddrsAssumption, KeysAreAddrs DEF Chosen
<1>3. CASE useHash
  <2>1. Tabled /\ left = {} /\ Tentative = {} /\ Finished = keys
    BY <1>3 DEF Inv, Control, Tabled, Tentative, Finished
  <2>2. /\ \A k \in keys : table[Probe(k)] = k
        /\ \A i \in Bins : table[i] \in keys \cup {0}
    BY <2>1 DEF Inv, Content
  <2>3. CASE a \in jumpable
    BY <1>2, <1>3, <2>2, <2>3 DEF EmittedLookup, Entry, Meant
  <2>4. CASE a \notin jumpable
    BY <1>2, <1>3, <2>4 DEF EmittedLookup, Entry, Meant
  <2> QED
    BY <2>3, <2>4
<1>4. CASE ~useHash
  <2>1. \A k \in jumpable : Lo <= k /\ k < Hi
    BY <1>1 DEF Chosen, Program
  <2>2. a \in Nat /\ Lo \in Nat /\ Hi \in Nat
    BY AddrsAssumption, RangeAssumption
  <2>3. Lo + (a - Lo) = a
    BY <2>2
  <2>4. CASE a \in jumpable
    <3>1. Lo <= a /\ a - Lo <= Hi - Lo /\ Lo + (a - Lo) < Hi
      BY <2>1, <2>2, <2>4
    <3> QED
      BY <1>4, <2>3, <2>4, <3>1 DEF EmittedLookup, FlatEntry, Meant
  <2>5. CASE a \notin jumpable
    BY <1>4, <2>3, <2>5 DEF EmittedLookup, FlatEntry, Meant, Interpreter
  <2> QED
    BY <2>4, <2>5
<1> QED
  BY <1>3, <1>4 DEF Inv, Control

(* The emitted code finds every block that may be entered, and nothing     *)
(* else, for every hash function the search succeeds with.                 *)
THEOREM LookupIsExact == Spec => []LookupExact
<1>1. Inv => LookupExact
  BY Answers DEF LookupExact
<1> QED
  BY <1>1, Inductive, PTL

(* calc_target never names a wrong block. *)
LEMMA CalcTargetSound ==
  ASSUME Inv, phase = "ready", NEW a \in Addrs
  PROVE  CalcTarget(a) \in {Meant(a), Interpreter}
<1>1. EmittedLookup(a) = Meant(a)
  BY Answers
<1>2. CASE useHash
  BY <1>1, <1>2 DEF CalcTarget, EmittedLookup
<1>3. CASE ~useHash
  <2>1. a \in Nat /\ Lo \in Nat /\ Hi \in Nat /\ Lo <= Hi
    BY AddrsAssumption, RangeAssumption
  <2>2. (Hi - Lo) \div 8 <= Hi - Lo
    BY <2>1
  <2>3. CASE Lo <= a /\ a - Lo < (Hi - Lo) \div 8
    <3>1. a - Lo <= Hi - Lo
      BY <2>1, <2>2, <2>3
    <3> QED
      BY <1>1, <1>3, <2>3, <3>1 DEF CalcTarget, EmittedLookup
  <2>4. CASE ~(Lo <= a /\ a - Lo < (Hi - Lo) \div 8)
    BY <1>3, <2>4 DEF CalcTarget
  <2> QED
    BY <2>3, <2>4
<1> QED
  BY <1>2, <1>3 DEF Inv, Control

(* With a key to look up the hash table has more than one bin, so          *)
(* calc_target answers from it what the emitted code does: the start of    *)
(* the block, or 0 for any other address (helper.cpp:499).                 *)
THEOREM HashedCalcTargetIsExact == Spec => []HashedCalcTargetExact
<1>1. Inv => HashedCalcTargetExact
  <2> SUFFICES ASSUME Inv, phase = "ready", useHash, NEW a \in Addrs
               PROVE  CalcTarget(a) = Meant(a)
    BY DEF HashedCalcTargetExact
  <2>1. EmittedLookup(a) = Meant(a)
    BY Answers
  <2>2. CASE Size > 1
    BY <2>1, <2>2 DEF CalcTarget, EmittedLookup
  <2>3. CASE ~(Size > 1)
    <3>1. Chosen /\ jumpable \subseteq keys
      BY DEF Inv, Chosen
    <3>2. keys = {}
      BY <2>3, <3>1, SeveralBins
    <3> QED
      BY <2>3, <3>1, <3>2 DEF CalcTarget, Meant
  <2> QED
    BY <2>2, <2>3
<1> QED
  BY <1>1, Inductive, PTL

(* The state of the map that a phase of the generator stands for. *)
MapState == IF phase \in {"ready", "failed"} THEN phase ELSE "building"

LEMMA InitMaps == Init => Map!Init
<1> SUFFICES ASSUME Init
             PROVE  Map!Init
  OBVIOUS
<1>1. jumpable \in SUBSET Addrs
  BY DEF Init, Program
<1>2. MapState = "building"
  BY DEF Init, MapState
<1> QED
  BY <1>1, <1>2 DEF Init, MapState, Map!Init, Map!NoLookup, NoLookup

LEMMA StepMaps ==
  ASSUME Inv, [Next]_vars
  PROVE  [Map!Next]_(Map!vars)
<1>1. ASSUME jumpable' = jumpable, last' = last, MapState' = MapState
      PROVE  UNCHANGED Map!vars
  BY <1>1 DEF Map!vars, MapState
<1>2. CASE StartBuild
  BY <1>1, <1>2 DEF StartBuild, builder, MapState
<1>3. ASSUME NEW b \in left, SkipBucket(b) \/ OpenBucket(b)
      PROVE  UNCHANGED Map!vars
  BY <1>1, <1>3 DEF SkipBucket, OpenBucket, builder, MapState
<1>4. ASSUME NEW k \in stored, Place(k)
      PROVE  UNCHANGED Map!vars
  BY <1>1, <1>4 DEF Place, builder, MapState
<1>5. ASSUME NEW k \in stored, Collide(k)
      PROVE  UNCHANGED Map!vars
  <2>1. phase = "place" /\ phase' \in {"place", "retry", "buckets"}
    BY <1>5 DEF Collide
  <2> QED
    BY <1>1, <1>5, <2>1 DEF Collide, builder, MapState
<1>6. CASE CloseBucket
  BY <1>1, <1>6 DEF CloseBucket, builder, MapState
<1>7. CASE Retry
  <2>1. jumpable' = jumpable /\ last' = last /\ phase = "retry" /\ phase' \in {"failed", "fill"}
    BY <1>7 DEF Retry, builder
  <2>2. CASE phase' = "failed"
    BY <2>1, <2>2 DEF Map!Next, Map!Finish
  <2>3. CASE phase' = "fill"
    BY <1>1, <2>1, <2>3 DEF MapState
  <2> QED
    BY <2>1, <2>2, <2>3
<1>8. CASE Emit
  BY <1>8 DEF Emit, builder, Map!Next, Map!Finish
<1>9. ASSUME NEW a \in Addrs, Jump(a)
      PROVE  Map!Next
  <2>1. /\ phase = "ready" /\ phase' = phase /\ jumpable' = jumpable
        /\ last' = [by |-> "code", addr |-> a, answer |-> EmittedLookup(a)]
    BY <1>9 DEF Jump, builder
  <2>2. EmittedLookup(a) = Map!Meant(a)
    BY <2>1, Answers DEF Meant, Map!Meant
  <2>3. Map!Jump(a)
    BY <2>1, <2>2 DEF Map!Jump
  <2> QED
    BY <2>3 DEF Map!Next
<1>10. ASSUME NEW a \in Addrs, Ask(a)
       PROVE  Map!Next
  <2>1. /\ phase = "ready" /\ phase' = phase /\ jumpable' = jumpable
        /\ last' = [by |-> "interpreter", addr |-> a, answer |-> CalcTarget(a)]
    BY <1>10 DEF Ask, builder
  <2>2. CalcTarget(a) \in {Map!Meant(a), Interpreter}
    BY <2>1, CalcTargetSound DEF Meant, Map!Meant
  <2>3. Map!Ask(a)
    BY <2>1, <2>2 DEF Map!Ask
  <2> QED
    BY <2>3 DEF Map!Next
<1>11. CASE UNCHANGED vars
  BY <1>1, <1>11 DEF vars, builder, MapState
<1>12. CASE Halt
  BY <1>11, <1>12 DEF Halt
<1> QED
  BY <1>2, <1>3, <1>4, <1>5, <1>6, <1>7, <1>8, <1>9, <1>10, <1>11, <1>12 DEF Next, Build

(* The hash table, its construction with all retries, and the flat table   *)
(* implement the map from addresses to blocks.                             *)
THEOREM Refinement == Spec => RefinesMap
<1>1. Init => Map!Init
  BY InitMaps
<1>2. Inv /\ [Next]_vars => [Map!Next]_(Map!vars)
  BY StepMaps
<1> QED
  BY <1>1, <1>2, Inductive, PTL DEF Spec, RefinesMap, Map!Spec
=============================================================================

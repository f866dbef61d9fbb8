--------------------------- MODULE ParasortProofs ---------------------------
(***************************************************************************)
(* parasort sorts, for any number of threads, any list, any delimiters and *)
(* any interleaving of the threads that count, scatter and sort.           *)
(*                                                                         *)
(* The argument: the cells (a thread's elements of a bucket) are in the    *)
(* order of their rank, first by bucket and then by thread.  The counts    *)
(* are cardinalities, and so what they add up to, where a cell begins, is  *)
(* the number of elements in the cells of lower rank (Start); this is the  *)
(* one induction of the proof, over Sum.  An element therefore goes to as  *)
(* many places from the left as there are elements before it (Target),     *)
(* which is another place for every element, so that no thread overwrites  *)
(* what another has put and no place is left over.                         *)
(*                                                                         *)
(* In a second part, theorems about the merges of MergeKernels (MSpec),    *)
(* for any two sequences of keys in order, any of the four kernels and any *)
(* MIN_CHECK.                                                              *)
(***************************************************************************)
EXTENDS Parasort, MergeKernels, SequenceTheorems, FiniteSetTheorems,
        WellFoundedInduction, TLAPS

(* The thread whose part of the list place j is in, and j's bucket. *)
Part(t) == {j \in Positions : t * part <= j /\ j < t * part + Length(t)}
Owner(j) == CHOOSE t \in Threads : j \in Part(t)
BucketAt(j) == BucketOf(list[j])

(* The place of j's cell in the order of MakeMap, and who is before j. *)
Rank(j) == BucketAt(j) * np + Owner(j)
Lower(k) == {j \in Positions : Rank(j) < k}
Before(j) == {i \in Positions : Rank(i) < Rank(j) \/ (Rank(i) = Rank(j) /\ i < j)}

Start(k) == Cardinality(Lower(k))
Target(j) == Cardinality(Before(j))

(* What thread t has passed, those of bucket n among them, and these with all
   elements of lower rank. *)
Passed(t) == {j \in Positions : t * part <= j /\ j < t * part + done[t]}
Seen(t, n) == {j \in Passed(t) : BucketAt(j) = n}
Gone(t, n) == Lower(n * np + t) \cup Seen(t, n)

Places == [key : Nat, rowID : Int]

Typing ==
  /\ sz \in Nat \ {0}
  /\ list \in [Positions -> Places]
  /\ range \in [0..(np - 2) -> Nat]
  /\ bucket \in [Cells -> Nat] /\ map \in [Cells -> Nat] /\ tmp \in [Cells -> Nat]
  /\ sorted \in [Positions -> Places]
  /\ phase \in {"sample", "count", "reorder", "sort", "done"}
  /\ done \in [Threads -> Nat]
  /\ phase # "done" => \A i \in Positions : list[i] # Blank

Started ==
  phase = "sample" => /\ \A t \in Threads : done[t] = 0
                      /\ \A c \in Cells : bucket[c] = 0

InPart ==
  phase \in {"count", "reorder"} => \A t \in Threads : done[t] <= Length(t)

Counted ==
  phase = "count" =>
    \A t, n \in Threads : bucket[Same(t, n)] = Cardinality(Seen(t, n))

Mapped ==
  phase \in {"reorder", "sort"} =>
    \A t, n \in Threads : map[Same(t, n)] = Start(n * np + t)

(* The next element of a cell goes behind those that went before it, and they
   are where they went. *)
Scattered ==
  phase = "reorder" =>
    /\ \A t, n \in Threads : tmp[Same(t, n)] = Cardinality(Gone(t, n))
    /\ \A t \in Threads : \A j \in Passed(t) : sorted[Target(j)] = list[j]

(* Every bucket has its elements, in any order or sorted. *)
Sliced ==
  phase = "sort" =>
    /\ \A p \in Positions :
         \E j \in Positions : sorted[p] = list[j] /\ p \in Slice(BucketAt(j))
    /\ \A j \in Positions : \E p \in Positions : sorted[p] = list[j]
    /\ \A t \in Threads : done[t] = 1 =>
         \A i, j \in Slice(t) : i <= j => sorted[i].key <= sorted[j].key

IInv ==
  /\ Typing
  /\ Started
  /\ InPart
  /\ Counted
  /\ Mapped
  /\ Scattered
  /\ Sliced

-----------------------------------------------------------------------------
(* Arithmetic of cells and parts. *)

(* The least element of a set of numbers. *)
LEMMA Least ==
  ASSUME NEW S \in SUBSET Nat, S # {}
  PROVE  \E u \in S : \A v \in S : u <= v
<1> DEFINE R == OpToRel(<, Nat)
<1>1. IsWellFoundedOn(R, Nat)
  BY NatLessThanWellFounded
<1>2. \A u, v \in Nat : u < v => <<u, v>> \in R
  BY DEF OpToRel
<1> HIDE DEF R
<1>3. PICK u \in S : \A v \in S : ~ (<<v, u>> \in R)
  BY <1>1, WFMin, Zenon
<1>4. \A v \in S : ~ (v < u)
  BY <1>2, <1>3
<1> QED BY <1>4

LEMMA Multiples ==
  ASSUME NEW a \in Nat, NEW b \in Nat, NEW m \in Nat
  PROVE  /\ a * m \in Nat /\ b * m \in Nat
         /\ a < b => a * m + m <= b * m
<1>1. a * m \in Nat /\ b * m \in Nat
  OBVIOUS
<1>2. ASSUME a < b PROVE a * m + m <= b * m
  <2>1. PICK d \in Nat : b = a + 1 + d
    <3>1. b - a - 1 \in Nat /\ b = a + 1 + (b - a - 1)
      BY <1>2
    <3> QED BY <3>1
  <2>2. b * m = a * m + m + d * m /\ d * m \in Nat
    BY <2>1, Z3
  <2> QED BY <1>1, <2>2
<1> QED BY <1>1, <1>2

(* A number has one quotient and one remainder. *)
LEMMA Digits ==
  ASSUME NEW a \in Threads, NEW b \in Threads
  PROVE  /\ a * np + b \in Cells
         /\ (a * np + b) \div np = a /\ (a * np + b) % np = b
         /\ \A c, d \in Threads : a * np + b = c * np + d => a = c /\ b = d
         /\ a * np + b < (a + 1) * np
<1>1. np \in Nat /\ np > 0 /\ a \in Nat /\ b \in Nat /\ a < np /\ b < np
  BY ParasortAssumption DEF Threads
<1>2. a * np \in Nat /\ np * np \in Nat /\ a * np + np <= np * np
  BY <1>1, Multiples
<1>3. ASSUME NEW c \in Nat, NEW d \in Nat, d < np, a * np + b = c * np + d
      PROVE  a = c /\ b = d
  <2>1. c * np \in Nat
    BY <1>1, Multiples
  <2>2. ~(a < c)
    <3>1. a < c => a * np + np <= c * np
      BY <1>1, Multiples
    <3> QED BY <1>1, <1>2, <1>3, <2>1, <3>1
  <2>3. ~(c < a)
    <3>1. c < a => c * np + np <= a * np
      BY <1>1, Multiples
    <3> QED BY <1>1, <1>2, <1>3, <2>1, <3>1
  <2>4. a = c
    BY <1>1, <2>2, <2>3
  <2> QED BY <1>1, <1>2, <1>3, <2>4
<1>4. a * np + b \in Cells
  BY <1>1, <1>2 DEF Cells
<1>5. (a * np + b) \div np = a /\ (a * np + b) % np = b
  <2> DEFINE k == a * np + b
             q == k \div np
             r == k % np
  <2>1. k \in Nat
    BY <1>1, <1>2
  <2> HIDE DEF k
  <2>2. q \in Int /\ r \in 0..(np - 1) /\ k = np * q + r
    BY <1>1, <2>1
  <2>3. q >= 0
    BY <1>1, <2>1
  <2> HIDE DEF q, r
  <2>4. q \in Nat /\ r \in Nat /\ r < np /\ k = q * np + r
    BY <1>1, <2>2, <2>3
  <2>5. a = q /\ b = r
    BY <1>3, <2>4 DEF k
  <2> QED BY <2>5 DEF q, r, k
<1>6. (a + 1) * np = a * np + np
  BY <1>1
<1> QED BY <1>1, <1>2, <1>3, <1>4, <1>5, <1>6 DEF Threads

(* The cell of thread t's elements of bucket n has rank n * np + t. *)
LEMMA CellRank ==
  ASSUME NEW t \in Threads, NEW n \in Threads
  PROVE  /\ Same(t, n) \in Cells /\ n * np + t \in Cells
         /\ ByBucket(Same(t, n)) = n * np + t
         /\ ByBucket(n * np + t) = Same(t, n)
         /\ \A u, m \in Threads : Same(t, n) = Same(u, m) => t = u /\ n = m
BY Digits DEF Same, ByBucket

LEMMA EveryCell ==
  ASSUME NEW c \in Cells
  PROVE  \E t, n \in Threads : c = Same(t, n)
<1>1. np \in Nat /\ np > 0 /\ c \in Nat /\ c < np * np
  <2>1. np \in Nat /\ np > 0
    BY ParasortAssumption
  <2>2. np * np \in Nat
    BY <2>1, Multiples
  <2> QED BY <2>1, <2>2 DEF Cells
<1>2. c \div np \in Int /\ c % np \in 0..(np - 1) /\ c = np * (c \div np) + (c % np)
  BY <1>1
<1>3. c \div np >= 0
  BY <1>1
<1> DEFINE q == c \div np
           r == c % np
<1> HIDE DEF q, r
<1>4. q \in Nat /\ r \in Threads /\ c = q * np + r /\ r \in Nat
  BY <1>1, <1>2, <1>3 DEF q, r, Threads
<1>5. ~(np <= q)
  <2>1. np < q => np * np + np <= q * np
    BY <1>1, <1>4, Multiples
  <2>2. q * np \in Nat /\ np * np \in Nat
    BY <1>1, <1>4, Multiples
  <2> QED BY <1>1, <1>4, <2>1, <2>2
<1>6. q \in Threads
  BY <1>1, <1>4, <1>5 DEF Threads
<1> QED BY <1>4, <1>6 DEF Same

(* The parts of the threads: each place of the list is in one. *)
LEMMA PartSizes ==
  ASSUME sz \in Nat
  PROVE  /\ part \in Nat /\ np * part <= sz
         /\ \A t \in Threads : /\ t \in Nat /\ t * part \in Nat /\ Length(t) \in Nat
                               /\ t * part + Length(t) <= sz
                               /\ t + 1 = np => t * part + Length(t) = sz
                               /\ t + 1 # np => /\ t + 1 \in Threads
                                                /\ Length(t) = part
                                                /\ (t + 1) * part = t * part + part
<1>1. np \in Nat /\ np > 0
  BY ParasortAssumption
<1>2. part \in Int /\ sz = np * part + (sz % np) /\ sz % np \in 0..(np - 1)
  BY <1>1 DEF part
<1>3. part >= 0
  BY <1>1 DEF part
<1>4. part \in Nat /\ np * part \in Nat /\ np * part <= sz
  BY <1>1, <1>2, <1>3, Multiples
<1>5. ASSUME NEW t \in Threads
      PROVE  /\ t \in Nat /\ t * part \in Nat /\ Length(t) \in Nat
             /\ t * part + Length(t) <= sz
             /\ t + 1 = np => t * part + Length(t) = sz
             /\ t + 1 # np => /\ t + 1 \in Threads
                              /\ Length(t) = part
                              /\ (t + 1) * part = t * part + part
  <2>1. t \in Nat /\ t < np
    BY <1>1 DEF Threads
  <2>2. t * part \in Nat /\ t * part + part <= np * part
    BY <1>1, <1>4, <2>1, Multiples
  <2>3. (t + 1) * part = t * part + part
    BY <1>4, <2>1
  <2>4. t + 1 # np => t + 1 \in Threads
    BY <1>1, <2>1 DEF Threads
  <2> QED BY <1>1, <1>4, <2>1, <2>2, <2>3, <2>4 DEF Length
<1> QED BY <1>4, <1>5

LEMMA OwnPart ==
  ASSUME sz \in Nat, NEW j \in Positions
  PROVE  /\ Owner(j) \in Threads /\ j \in Part(Owner(j))
         /\ \A t \in Threads : j \in Part(t) => t = Owner(j)
<1>1. np \in Nat /\ np > 0 /\ j \in Nat /\ j < sz
  BY ParasortAssumption DEF Positions
<1>2. \E t \in Threads : j \in Part(t)
  <2> DEFINE S == {t \in Threads : j < t * part + Length(t)}
  <2>1. np - 1 \in S
    <3>1. np - 1 \in Threads
      BY <1>1 DEF Threads
    <3> QED BY <1>1, <3>1, PartSizes
  <2>2. S \in SUBSET Nat
    BY DEF Threads
  <2>3. PICK t \in S : \A u \in S : t <= u
    BY <2>1, <2>2, Least
  <2>4. t * part <= j
    <3>1. CASE t = 0
      <4>1. 0 * part = 0
        BY PartSizes
      <4> QED BY <1>1, <3>1, <4>1
    <3>2. CASE t # 0
      <4>1. t - 1 \in Threads /\ t - 1 \notin S /\ (t - 1) + 1 = t /\ t \in Nat /\ t < np
        BY <1>1, <2>3, <3>2 DEF Threads
      <4>2. /\ Length(t - 1) = part /\ t * part = (t - 1) * part + part
            /\ (t - 1) * part \in Nat /\ part \in Nat
        BY <1>1, <4>1, PartSizes
      <4>3. ~(j < (t - 1) * part + Length(t - 1))
        BY <4>1
      <4> QED BY <1>1, <4>2, <4>3
    <3> QED BY <3>1, <3>2
  <2> QED BY <2>3, <2>4 DEF Part
<1>3. ASSUME NEW t \in Threads, NEW u \in Threads, j \in Part(t), j \in Part(u), t < u
      PROVE  FALSE
  <2>1. /\ t \in Nat /\ u \in Nat /\ part \in Nat
        /\ t * part \in Nat /\ u * part \in Nat /\ Length(t) \in Nat /\ t + 1 # np
    BY <1>1, <1>3, PartSizes DEF Threads
  <2>2. Length(t) = part
    BY <2>1, PartSizes
  <2>3. t * part + part <= u * part
    BY <1>3, <2>1, Multiples
  <2> QED BY <1>1, <1>3, <2>1, <2>2, <2>3 DEF Part
<1>4. Owner(j) \in Threads /\ j \in Part(Owner(j))
  BY <1>2 DEF Owner
<1>5. \A t \in Threads : j \in Part(t) => t = Owner(j)
  BY <1>1, <1>3, <1>4 DEF Threads
<1> QED BY <1>4, <1>5

(* A tuple has one bucket, and lower buckets have lower keys. *)
LEMMA OwnBucket ==
  ASSUME range \in [0..(np - 2) -> Nat], NEW u \in Places
  PROVE  /\ BucketOf(u) \in Threads
         /\ BucketOf(u) # np - 1 => u.key < range[BucketOf(u)]
         /\ \A m \in 0..(BucketOf(u) - 1) : range[m] <= u.key
<1>1. np \in Nat /\ np > 0 /\ u.key \in Nat
  BY ParasortAssumption DEF Places
<1> DEFINE S == {n \in Threads : n = np - 1 \/ Below(u, n)}
<1>2. PICK n \in S : \A m \in S : n <= m
  <2>1. np - 1 \in S
    BY <1>1 DEF Threads
  <2>2. S \in SUBSET Nat
    BY DEF Threads
  <2> QED BY <2>1, <2>2, Least
<1>3. \A m \in 0..(n - 1) : ~Below(u, m)
  BY <1>1, <1>2 DEF Threads
<1>4. /\ BucketOf(u) \in Threads
      /\ BucketOf(u) = np - 1 \/ Below(u, BucketOf(u))
      /\ \A m \in 0..(BucketOf(u) - 1) : ~Below(u, m)
  BY <1>2, <1>3 DEF BucketOf
<1>5. ASSUME NEW m \in 0..(BucketOf(u) - 1) PROVE range[m] <= u.key
  <2>1. m \in 0..(np - 2)
    BY <1>1, <1>4 DEF Threads
  <2>2. range[m] \in Nat /\ ~(u.key < range[m])
    BY <1>4, <2>1 DEF Below
  <2> QED BY <1>1, <2>2
<1> QED BY <1>4, <1>5 DEF Below

LEMMA BucketsOrdered ==
  ASSUME range \in [0..(np - 2) -> Nat], NEW u \in Places, NEW v \in Places,
         BucketOf(u) < BucketOf(v)
  PROVE  u.key <= v.key
<1>1. /\ BucketOf(u) \in Threads /\ BucketOf(v) \in Threads
      /\ BucketOf(u) # np - 1 => u.key < range[BucketOf(u)]
      /\ \A m \in 0..(BucketOf(v) - 1) : range[m] <= v.key
  BY OwnBucket
<1>2. np \in Nat /\ np > 0 /\ u.key \in Nat /\ v.key \in Nat
  BY ParasortAssumption DEF Places
<1>3. /\ BucketOf(u) \in 0..(np - 2) /\ BucketOf(u) \in 0..(BucketOf(v) - 1)
      /\ BucketOf(u) # np - 1
  BY <1>1, <1>2 DEF Threads
<1>4. range[BucketOf(u)] \in Nat
  BY <1>3
<1> QED BY <1>1, <1>2, <1>3, <1>4

-----------------------------------------------------------------------------
(* Ranks, and what the counts add up to. *)

LEMMA Finite ==
  ASSUME sz \in Nat, NEW T \in SUBSET Positions
  PROVE  /\ IsFiniteSet(T) /\ Cardinality(T) \in 0..sz
         /\ \A U \in SUBSET T : Cardinality(U) <= Cardinality(T)
         /\ \A U \in SUBSET T : U # T => Cardinality(U) < Cardinality(T)
<1>1. IsFiniteSet(Positions) /\ Cardinality(Positions) = sz
  BY FS_Interval DEF Positions
<1>2. IsFiniteSet(T) /\ Cardinality(T) <= sz
  BY <1>1, FS_Subset
<1>3. Cardinality(T) \in Nat
  BY <1>2, FS_CardinalityType
<1>4. ASSUME NEW U \in SUBSET T
      PROVE  /\ Cardinality(U) \in Nat /\ Cardinality(U) <= Cardinality(T)
             /\ U # T => Cardinality(U) # Cardinality(T)
  <2>1. IsFiniteSet(U) /\ Cardinality(U) <= Cardinality(T)
        /\ (Cardinality(T) = Cardinality(U) => T = U)
    BY <1>2, FS_Subset
  <2>2. Cardinality(U) \in Nat
    BY <2>1, FS_CardinalityType
  <2> QED BY <2>1, <2>2
<1> QED BY <1>2, <1>3, <1>4

(* The elements of the list are in cells, whose ranks are Cells again. *)
LEMMA Ranked ==
  ASSUME Typing, NEW j \in Positions
  PROVE  /\ list[j] \in Places
         /\ BucketAt(j) \in Threads /\ Owner(j) \in Threads /\ Rank(j) \in Cells
         /\ Rank(j) \in Nat /\ j \in Nat
         /\ \A t, n \in Threads :
              Rank(j) = n * np + t <=> n = BucketAt(j) /\ t = Owner(j)
<1>1. list[j] \in Places /\ sz \in Nat /\ range \in [0..(np - 2) -> Nat]
  BY DEF Typing
<1>2. BucketAt(j) \in Threads
  BY <1>1, OwnBucket DEF BucketAt
<1>3. Owner(j) \in Threads
  BY <1>1, OwnPart
<1>4. Rank(j) \in Cells
  BY <1>2, <1>3, Digits DEF Rank
<1>5. ASSUME NEW t \in Threads, NEW n \in Threads
      PROVE  Rank(j) = n * np + t <=> n = BucketAt(j) /\ t = Owner(j)
  BY <1>2, <1>3, Digits DEF Rank
<1> QED BY <1>1, <1>2, <1>3, <1>4, <1>5 DEF Cells, Positions

(* A rank more: the elements of its cell. *)
LEMMA StartNext ==
  ASSUME Typing, Counted, phase = "count", Joined, NEW t \in Threads, NEW n \in Threads
  PROVE  Start(n * np + t + 1) = Start(n * np + t) + bucket[Same(t, n)]
<1> DEFINE k == n * np + t
           C == Seen(t, n)
<1>1. sz \in Nat /\ k \in Nat
  BY Digits DEF Typing, Cells
<1>2. \A j \in Positions : j \in C <=> Rank(j) = k
  <2> SUFFICES ASSUME NEW j \in Positions PROVE j \in C <=> Rank(j) = k
    OBVIOUS
  <2>1. Rank(j) = k <=> n = BucketAt(j) /\ t = Owner(j)
    BY Ranked
  <2>2. t = Owner(j) <=> j \in Part(t)
    BY <1>1, OwnPart
  <2>3. j \in Part(t) <=> j \in Passed(t)
    BY DEF Part, Passed, Joined
  <2> QED BY <2>1, <2>2, <2>3 DEF Seen
<1> HIDE DEF k
<1>3. \A j \in Positions : Rank(j) \in Nat
  BY Ranked
<1>4. C \in SUBSET Positions /\ Lower(k) \in SUBSET Positions
  BY DEF Seen, Passed, Lower
<1>5. Lower(k + 1) = Lower(k) \cup C
  BY <1>1, <1>2, <1>3, <1>4 DEF Lower
<1>6. Lower(k) \cap C = {}
  BY <1>1, <1>2, <1>3, <1>4 DEF Lower
<1>7. /\ IsFiniteSet(Lower(k)) /\ IsFiniteSet(C)
      /\ Cardinality(Lower(k)) \in Nat /\ Cardinality(C) \in Nat
  BY <1>1, <1>4, Finite
<1>8. Cardinality(Lower(k) \cup C) = Cardinality(Lower(k)) + Cardinality(C)
  BY <1>6, <1>7, FS_Union, FS_EmptySet
<1>9. bucket[Same(t, n)] = Cardinality(C)
  BY DEF Counted
<1>10. Start(k + 1) = Start(k) + bucket[Same(t, n)]
  BY <1>5, <1>8, <1>9 DEF Start
<1> QED BY <1>10 DEF k

LEMMA StartBounds ==
  ASSUME Typing
  PROVE  /\ Start(0) = 0
         /\ \A k \in Nat : Start(k) \in 0..sz
         /\ \A k, l \in Nat : k <= l => Start(k) <= Start(l)
<1>1. sz \in Nat
  BY DEF Typing
<1>2. \A j \in Positions : Rank(j) \in Nat
  BY Ranked
<1>3. Start(0) = 0
  <2>1. Lower(0) = {}
    BY <1>2 DEF Lower
  <2> QED BY <2>1, FS_EmptySet DEF Start
<1>4. ASSUME NEW k \in Nat PROVE Start(k) \in 0..sz
  BY <1>1, Finite DEF Start, Lower
<1>5. ASSUME NEW k \in Nat, NEW l \in Nat, k <= l PROVE Start(k) <= Start(l)
  <2>1. Lower(k) \in SUBSET Lower(l) /\ Lower(l) \in SUBSET Positions
    BY <1>2, <1>5 DEF Lower
  <2> QED BY <1>1, <2>1, Finite DEF Start
<1> QED BY <1>3, <1>4, <1>5

(* The sums of MakeMap are the numbers of elements of lower rank. *)
LEMMA SumIsStart ==
  ASSUME Typing, Counted, phase = "count", Joined
  PROVE  \A k \in 0..(np * np) : Sum[k] = Start(k)
<1> DEFINE D == 0..(np * np)
           Adds(f) == f = [k \in D |-> IF k = 0 THEN 0
                                       ELSE f[k - 1] + bucket[ByBucket(k - 1)]]
           Starts == [k \in D |-> Start(k)]
<1>1. np * np \in Nat /\ np \in Nat
  BY ParasortAssumption, Multiples
<1>2. ASSUME NEW k \in D, k # 0
      PROVE  k - 1 \in D /\ Start(k) = Start(k - 1) + bucket[ByBucket(k - 1)]
  <2>1. k - 1 \in Cells
    BY <1>1, <1>2 DEF Cells
  <2>2. PICK n, t \in Threads : k - 1 = n * np + t
    BY <2>1, EveryCell DEF Same
  <2>3. ByBucket(k - 1) = Same(t, n)
    BY <2>2, CellRank
  <2>4. Start((k - 1) + 1) = Start(k - 1) + bucket[Same(t, n)]
    BY <2>2, StartNext
  <2> QED BY <1>1, <1>2, <2>3, <2>4
<1>3. Adds(Starts)
  <2> SUFFICES ASSUME NEW k \in D
               PROVE  Start(k) = IF k = 0 THEN 0
                                 ELSE Starts[k - 1] + bucket[ByBucket(k - 1)]
    OBVIOUS
  <2> QED BY <1>2, StartBounds
<1>4. Adds(Sum)
  <2>1. Sum = CHOOSE f : Adds(f)
    BY DEF Sum
  <2> HIDE DEF Adds
  <2> QED BY <1>3, <2>1
<1>5. ASSUME NEW k \in D, Sum[k] # Start(k) PROVE FALSE
  <2> DEFINE S == {l \in D : Sum[l] # Start(l)}
  <2>1. S \in SUBSET Nat /\ S # {}
    BY <1>1, <1>5
  <2>2. PICK m \in S : \A l \in S : m <= l
    BY <2>1, Least
  <2>3. Sum[m] = IF m = 0 THEN 0 ELSE Sum[m - 1] + bucket[ByBucket(m - 1)]
    BY <1>4
  <2>4. m # 0
    BY <2>2, <2>3, StartBounds
  <2>5. m - 1 \in D /\ Start(m) = Start(m - 1) + bucket[ByBucket(m - 1)]
    BY <1>2, <2>2, <2>4
  <2>6. m - 1 \notin S
    BY <1>1, <2>2, <2>5
  <2> QED BY <2>2, <2>3, <2>4, <2>5, <2>6
<1> QED BY <1>5

-----------------------------------------------------------------------------
(* Where the elements go. *)

LEMMA TargetsDiffer ==
  ASSUME Typing, NEW j \in Positions
  PROVE  /\ Target(j) \in Positions
         /\ \A i \in Positions : i # j => Target(i) # Target(j)
<1>1. sz \in Nat /\ (\A i \in Positions : Rank(i) \in Nat /\ i \in Nat)
  BY Ranked DEF Typing
<1>2. \A i \in Positions : Before(i) \in SUBSET Positions /\ i \notin Before(i)
  BY <1>1 DEF Before
<1>3. Target(j) \in Positions
  <2>1. Before(j) \in SUBSET Positions /\ Positions # Before(j)
    BY <1>2
  <2>2. Cardinality(Before(j)) < Cardinality(Positions)
    BY <1>1, <2>1, Finite
  <2>3. Cardinality(Positions) \in 0..sz /\ Cardinality(Before(j)) \in 0..sz
    BY <1>1, <2>1, Finite
  <2> QED BY <1>1, <2>2, <2>3 DEF Target, Positions
<1>4. ASSUME NEW i \in Positions, NEW k \in Positions, i \in Before(k)
      PROVE  Target(i) # Target(k)
  <2>1. Before(i) \in SUBSET Before(k)
    BY <1>1, <1>4 DEF Before
  <2>2. Before(i) # Before(k)
    BY <1>2, <1>4
  <2>3. /\ Cardinality(Before(i)) < Cardinality(Before(k))
        /\ Cardinality(Before(i)) \in 0..sz /\ Cardinality(Before(k)) \in 0..sz
    BY <1>1, <1>2, <2>1, <2>2, Finite
  <2> QED BY <2>3 DEF Target
<1>5. ASSUME NEW i \in Positions, i # j PROVE i \in Before(j) \/ j \in Before(i)
  BY <1>1, <1>5 DEF Before
<1> QED BY <1>3, <1>4, <1>5

(* As there are as many places as elements, each is some element's. *)
LEMMA TargetsFill ==
  ASSUME Typing, NEW p \in Positions
  PROVE  \E j \in Positions : Target(j) = p
<1> DEFINE f == [j \in Positions |-> Target(j)]
<1>1. f \in Injection(Positions, Positions)
  <2>1. f \in [Positions -> Positions]
    BY TargetsDiffer
  <2>2. \A i, j \in Positions : f[i] = f[j] => i = j
    BY TargetsDiffer
  <2> HIDE DEF f
  <2> QED BY <2>1, <2>2 DEF Injection, IsInjective
<1>2. IsFiniteSet(Positions)
  BY FS_Interval DEF Typing, Positions
<1> HIDE DEF f
<1>3. f \in Surjection(Positions, Positions)
  BY <1>1, <1>2, FS_Injection
<1>4. PICK j \in Positions : f[j] = p
  BY <1>3 DEF Surjection
<1> QED BY <1>4 DEF f

(* The slices lie one behind the other, and an element's target is in that of
   its bucket. *)
LEMMA Slices ==
  ASSUME Typing, Mapped, phase \in {"reorder", "sort"}, NEW t \in Threads
  PROVE  /\ t * np \in Nat /\ (t + 1) * np \in Nat
         /\ Slice(t) = Start(t * np)..(Start((t + 1) * np) - 1)
<1>1. np \in Nat /\ np > 0 /\ t \in Nat /\ t < np
  BY ParasortAssumption DEF Threads
<1>2. /\ t * np \in Nat /\ (t + 1) * np \in Nat /\ 0 * np = 0
  BY <1>1, Multiples
<1>3. ASSUME NEW u \in Threads PROVE map[u] = Start(u * np)
  <2>1. u \in Nat /\ 0 \in Threads /\ u * np \in Nat
    BY <1>1, Multiples DEF Threads
  <2>2. Same(0, u) = u /\ u * np + 0 = u * np
    BY <1>2, <2>1 DEF Same
  <2> QED BY <2>1, <2>2 DEF Mapped
<1>4. SliceEnd(t) = Start((t + 1) * np)
  <2>1. CASE t + 1 = np
    <3>1. Lower(np * np) = Positions
      <4>1. \A j \in Positions : Rank(j) < np * np
        <5> SUFFICES ASSUME NEW j \in Positions PROVE Rank(j) < np * np
          OBVIOUS
        <5>1. Rank(j) \in Cells /\ np * np \in Nat
          BY <1>1, Ranked, Multiples
        <5> QED BY <5>1 DEF Cells
      <4> QED BY <4>1 DEF Lower
    <3>2. Cardinality(Positions) = sz
      BY FS_Interval DEF Typing, Positions
    <3> QED BY <2>1, <3>1, <3>2 DEF SliceEnd, Start
  <2>2. CASE t + 1 # np
    <3>1. t + 1 \in Threads
      BY <1>1, <2>2 DEF Threads
    <3> QED BY <1>3, <2>2, <3>1 DEF SliceEnd
  <2> QED BY <2>1, <2>2
<1> QED BY <1>2, <1>3, <1>4 DEF Slice

LEMMA TargetInSlice ==
  ASSUME Typing, Mapped, phase \in {"reorder", "sort"}, NEW j \in Positions
  PROVE  Target(j) \in Slice(BucketAt(j))
<1> DEFINE n == BucketAt(j)
           low == n * np
           high == (n + 1) * np
<1>1. n \in Threads /\ Owner(j) \in Threads /\ Rank(j) \in Nat
      /\ (\A i \in Positions : Rank(i) \in Nat)
  BY Ranked
<1>2. /\ low \in Nat /\ high \in Nat
      /\ Slice(n) = Start(low)..(Start(high) - 1)
  BY <1>1, Slices
<1>3. low <= Rank(j) /\ Rank(j) < high
  <2>1. Rank(j) = low + Owner(j) /\ Rank(j) < high
    BY <1>1, Digits DEF Rank
  <2> QED BY <1>1, <1>2, <2>1 DEF Threads
<1> HIDE DEF low, high
<1>4. sz \in Nat /\ Before(j) \in SUBSET Positions /\ Lower(high) \in SUBSET Positions
  BY DEF Typing, Before, Lower
<1>5. Start(low) <= Target(j)
  <2>1. Lower(low) \in SUBSET Before(j)
    BY <1>1, <1>2, <1>3 DEF Lower, Before
  <2> QED BY <1>4, <2>1, Finite DEF Start, Target
<1>6. Target(j) < Start(high)
  <2>1. Before(j) \in SUBSET Lower(high)
    BY <1>1, <1>2, <1>3 DEF Lower, Before
  <2>2. Before(j) # Lower(high)
    BY <1>1, <1>3 DEF Lower, Before, Positions
  <2> QED BY <1>4, <2>1, <2>2, Finite DEF Start, Target
<1>7. Target(j) \in Nat /\ Start(low) \in Nat /\ Start(high) \in Nat
  <2>1. Start(low) \in 0..sz /\ Start(high) \in 0..sz
    BY <1>2, StartBounds
  <2>2. Cardinality(Before(j)) \in 0..sz
    BY <1>4, Finite
  <2> QED BY <1>4, <2>1, <2>2 DEF Target
<1> QED BY <1>2, <1>5, <1>6, <1>7

-----------------------------------------------------------------------------
(* The steps. *)

(* Parts, buckets, ranks and targets stay as they are with the list and the
   delimiters. *)
LEMMA Frame ==
  ASSUME UNCHANGED <<sz, list, range>>
  PROVE  /\ Positions' = Positions /\ part' = part
         /\ \A t : Length(t)' = Length(t) /\ Part(t)' = Part(t)
         /\ \A j : /\ Owner(j)' = Owner(j) /\ BucketAt(j)' = BucketAt(j)
                   /\ Rank(j)' = Rank(j)
         /\ \A k : Lower(k)' = Lower(k) /\ Start(k)' = Start(k)
         /\ \A j : Target(j)' = Target(j)
<1>1. Positions' = Positions /\ part' = part
  BY DEF Positions, part
<1>2. \A t : Length(t)' = Length(t)
  BY <1>1 DEF Length
<1>3. \A t : Part(t)' = Part(t)
  BY <1>1, <1>2 DEF Part
<1>4. \A j : Owner(j)' = Owner(j)
  BY <1>3 DEF Owner
<1>5. \A j : BucketAt(j)' = BucketAt(j)
  BY DEF BucketAt, BucketOf, Below
<1>6. \A j : Rank(j)' = Rank(j)
  BY <1>4, <1>5 DEF Rank
<1>7. \A k : Lower(k)' = Lower(k)
  BY <1>1, <1>6 DEF Lower
<1>8. \A j : Before(j)' = Before(j)
  BY <1>1, <1>6 DEF Before
<1> QED BY <1>1, <1>2, <1>3, <1>4, <1>5, <1>6, <1>7, <1>8 DEF Start, Target

LEMMA InitIInv == Init => IInv
<1> SUFFICES ASSUME Init PROVE IInv
  OBVIOUS
<1>1. sz \in Nat \ {0}
  BY ParasortAssumption DEF Init
<1>2. PICK keys \in [Positions -> Keys] :
        list = [i \in Positions |-> [key |-> keys[i], rowID |-> i]]
  BY DEF Init
<1>3. \A i \in Positions : list[i] \in Places /\ list[i] # Blank
  <2> SUFFICES ASSUME NEW i \in Positions PROVE list[i] \in Places /\ list[i] # Blank
    OBVIOUS
  <2>1. keys[i] \in Nat /\ i \in Nat
    <3>1. keys[i] \in Keys
      BY <1>2
    <3>2. i \in Nat
      BY <1>1 DEF Positions
    <3> QED BY <3>1, <3>2, ParasortAssumption
  <2>2. list[i] = [key |-> keys[i], rowID |-> i]
    BY <1>2
  <2> QED BY <2>1, <2>2 DEF Places, Blank
<1>4. list \in [Positions -> Places]
  BY <1>2, <1>3
<1>5. Typing
  BY <1>1, <1>3, <1>4 DEF Init, Typing, Places, Blank
<1> QED BY <1>5 DEF Init, IInv, Started, InPart, Counted, Mapped, Scattered, Sliced

(* No thread has passed anything at first. *)
LEMMA NothingPassed ==
  ASSUME Typing, NEW t \in Threads, done[t] = 0
  PROVE  Passed(t) = {}
<1>1. t * part \in Nat
  BY PartSizes DEF Typing
<1> QED BY <1>1 DEF Passed, Positions

LEMMA SampleStep == IInv /\ Sample => IInv'
<1> SUFFICES ASSUME IInv, Sample PROVE IInv'
  OBVIOUS
<1>1. /\ phase = "sample" /\ phase' = "count"
      /\ UNCHANGED <<sz, list, bucket, map, tmp, sorted, done>>
      /\ range' \in [0..(np - 2) -> {list[i].key : i \in Positions}]
  BY DEF Sample
<1>2. Positions' = Positions /\ part' = part /\ (\A t : Length(t)' = Length(t))
  BY <1>1 DEF Positions, part, Length
<1>3. {list[i].key : i \in Positions} \subseteq Nat
  BY DEF IInv, Typing, Places
<1>4. Typing'
  BY <1>1, <1>2, <1>3 DEF IInv, Typing
<1>5. ASSUME NEW t \in Threads PROVE Passed(t)' = {} /\ done'[t] = 0
  <2>1. done[t] = 0
    BY <1>1 DEF IInv, Started
  <2>2. Passed(t) = {}
    BY <2>1, NothingPassed DEF IInv
  <2> QED BY <1>1, <1>2, <2>1, <2>2 DEF Passed
<1>6. InPart'
  BY <1>2, <1>5, PartSizes DEF InPart, IInv, Typing
<1>7. Counted'
  <2> SUFFICES ASSUME NEW t \in Threads, NEW n \in Threads
               PROVE  bucket'[Same(t, n)] = Cardinality(Seen(t, n)')
    BY DEF Counted
  <2>1. Seen(t, n)' = {}
    BY <1>5 DEF Seen
  <2>2. bucket'[Same(t, n)] = 0
    BY <1>1, CellRank DEF IInv, Started
  <2> QED BY <2>1, <2>2, FS_EmptySet
<1> QED BY <1>1, <1>4, <1>6, <1>7 DEF IInv, Started, Mapped, Scattered, Sliced

(* Thread t takes the next element of its part, at place j. *)
LEMMA Taken ==
  ASSUME Typing, InPart, phase \in {"count", "reorder"},
         NEW t \in Threads, done[t] < Length(t),
         done' = [done EXCEPT ![t] = @ + 1], UNCHANGED <<sz, list, range, phase>>,
         NEW j, j = t * part + done[t]
  PROVE  /\ j \in Positions /\ Owner(j) = t /\ BucketAt(j) \in Threads
         /\ Seen(t, BucketAt(j)) = {i \in Positions : Rank(i) = Rank(j) /\ i < j}
         /\ done' \in [Threads -> Nat] /\ InPart'
         /\ Passed(t)' = Passed(t) \cup {j}
         /\ \A u \in Threads \ {t} : Passed(u)' = Passed(u)
         /\ j \notin Seen(t, BucketAt(j))
<1>1. /\ t * part \in Nat /\ Length(t) \in Nat /\ t * part + Length(t) <= sz
      /\ sz \in Nat /\ done[t] \in Nat
  BY PartSizes DEF Typing
<1>2. j = t * part + done[t]
  OBVIOUS
<1> PICK n : n = BucketAt(j)
  OBVIOUS
<1>3. j \in Nat /\ j \in Positions /\ j \in Part(t)
  BY <1>1, <1>2 DEF Positions, Part
<1>4. Owner(j) = t
  BY <1>1, <1>3, OwnPart
<1>5. n \in Threads /\ (\A m \in Threads : Rank(j) = m * np + t <=> m = n)
  BY <1>3, <1>4, Ranked
<1>6. Seen(t, n) = {i \in Positions : Rank(i) = Rank(j) /\ i < j}
  <2> SUFFICES ASSUME NEW i \in Positions
               PROVE  i \in Passed(t) /\ BucketAt(i) = n
                        <=> Rank(i) = Rank(j) /\ i < j
    BY DEF Seen, Passed
  <2>1. Rank(i) = Rank(j) <=> n = BucketAt(i) /\ t = Owner(i)
    BY <1>4, <1>5, Ranked DEF Rank
  <2>2. i \in Nat /\ (t = Owner(i) <=> i \in Part(t))
    BY <1>1, OwnPart DEF Positions
  <2>3. i \in Passed(t) <=> i \in Part(t) /\ i < j
    BY <1>1, <1>2, <2>2 DEF Passed, Part
  <2> QED BY <2>1, <2>2, <2>3
<1>7. done' \in [Threads -> Nat] /\ done'[t] = done[t] + 1
      /\ (\A u \in Threads \ {t} : done'[u] = done[u])
  BY <1>1 DEF Typing
<1>8. Positions' = Positions /\ part' = part /\ (\A u : Length(u)' = Length(u))
      /\ (\A i : BucketAt(i)' = BucketAt(i))
  BY Frame
<1>9. InPart'
  BY <1>1, <1>7, <1>8 DEF InPart
<1>10. Passed(t)' = Passed(t) \cup {j}
  BY <1>1, <1>2, <1>3, <1>7, <1>8 DEF Passed, Positions
<1>11. \A u \in Threads \ {t} : Passed(u)' = Passed(u)
  BY <1>7, <1>8 DEF Passed
<1>12. j \notin Passed(t)
  BY <1>1, <1>2 DEF Passed
<1>13. j \notin Seen(t, n)
  BY <1>12 DEF Seen
<1> QED BY <1>3, <1>4, <1>5, <1>6, <1>7, <1>9, <1>10, <1>11, <1>13

(* Thread t has passed j, of bucket n: only what it has seen of n changes. *)
LEMMA SeenNext ==
  ASSUME UNCHANGED <<sz, list, range>>, NEW t \in Threads, NEW n, NEW j,
         n = BucketAt(j), Passed(t)' = Passed(t) \cup {j},
         \A u \in Threads \ {t} : Passed(u)' = Passed(u)
  PROVE  /\ Seen(t, n)' = Seen(t, n) \cup {j}
         /\ \A u, m \in Threads : u # t \/ m # n => Seen(u, m)' = Seen(u, m)
<1>1. \A i : BucketAt(i)' = BucketAt(i)
  BY Frame
<1>2. Seen(t, n)' = Seen(t, n) \cup {j}
  BY <1>1 DEF Seen
<1>3. ASSUME NEW u \in Threads, NEW m \in Threads, u # t \/ m # n
      PROVE  Seen(u, m)' = Seen(u, m)
  BY <1>1, <1>3 DEF Seen
<1> QED BY <1>2, <1>3

LEMMA CountStep ==
  ASSUME IInv, NEW t \in Threads, Count(t)
  PROVE  IInv'
<1>1. /\ phase = "count" /\ done[t] < Length(t)
      /\ UNCHANGED <<sz, list, range, map, tmp, sorted, phase>>
      /\ done' = [done EXCEPT ![t] = @ + 1]
  BY DEF Count
<1>2. PICK j : j = t * part + done[t]
  OBVIOUS
<1> PICK n : n = BucketAt(j)
  OBVIOUS
<1>3. bucket' = [bucket EXCEPT ![Same(t, n)] = @ + 1]
  BY <1>2 DEF Count, BucketAt
<1>4. Typing /\ InPart /\ Counted
  BY DEF IInv
<1>5. /\ j \in Positions /\ n \in Threads
      /\ done' \in [Threads -> Nat] /\ InPart'
      /\ Passed(t)' = Passed(t) \cup {j}
      /\ \A u \in Threads \ {t} : Passed(u)' = Passed(u)
      /\ j \notin Seen(t, n)
  BY <1>1, <1>2, <1>4, Taken
<1>5a. /\ Seen(t, n)' = Seen(t, n) \cup {j}
       /\ \A u, m \in Threads : u # t \/ m # n => Seen(u, m)' = Seen(u, m)
  BY <1>1, <1>5, SeenNext
<1>6. Same(t, n) \in Cells
  BY <1>5, CellRank
<1>7. Typing'
  <2>1. bucket' \in [Cells -> Nat]
    BY <1>3, <1>4, <1>6 DEF Typing
  <2>2. Positions' = Positions
    BY <1>1, Frame
  <2> QED BY <1>1, <1>4, <1>5, <2>1, <2>2 DEF Typing
<1>8. Counted'
  <2> SUFFICES ASSUME NEW u \in Threads, NEW m \in Threads
               PROVE  bucket'[Same(u, m)] = Cardinality(Seen(u, m)')
    BY DEF Counted
  <2>1. Same(u, m) \in Cells /\ bucket[Same(u, m)] = Cardinality(Seen(u, m))
    BY <1>1, <1>4, CellRank DEF Counted
  <2>2. CASE u = t /\ m = n
    <3>1. IsFiniteSet(Seen(t, n))
      BY <1>4, Finite DEF Seen, Passed, Typing
    <3>2. Cardinality(Seen(t, n) \cup {j}) = Cardinality(Seen(t, n)) + 1
      BY <1>5, <3>1, FS_AddElement
    <3>3. Seen(t, n)' = Seen(t, n) \cup {j}
      BY <1>5a, <1>5
    <3> QED BY <1>3, <1>4, <2>1, <2>2, <3>2, <3>3 DEF Typing
  <2>3. CASE u # t \/ m # n
    <3>1. Same(u, m) # Same(t, n)
      BY <1>5, <2>3, CellRank
    <3>2. Seen(u, m)' = Seen(u, m)
      BY <1>5a, <2>3
    <3> QED BY <1>3, <1>4, <2>1, <3>1, <3>2 DEF Typing
  <2> QED BY <2>2, <2>3
<1> QED BY <1>1, <1>5, <1>7, <1>8 DEF IInv, Started, Mapped, Scattered, Sliced

LEMMA MakeMapStep == IInv /\ MakeMap => IInv'
<1> SUFFICES ASSUME IInv, MakeMap PROVE IInv'
  OBVIOUS
<1>1. /\ phase = "count" /\ Joined /\ phase' = "reorder"
      /\ UNCHANGED <<sz, list, range, bucket, sorted>>
      /\ map' = [i \in Cells |-> StartOf(i)] /\ tmp' = map'
      /\ done' = [t \in Threads |-> 0]
  BY DEF MakeMap
<1>2. Typing /\ Counted /\ sz \in Nat
  BY DEF IInv, Typing
<1>3. ASSUME NEW t \in Threads, NEW n \in Threads
      PROVE  map'[Same(t, n)] = Start(n * np + t) /\ Start(n * np + t) \in Nat
  <2>1. /\ Same(t, n) \in Cells /\ n * np + t \in Cells
        /\ ByBucket(Same(t, n)) = n * np + t
    BY CellRank
  <2>2. n * np + t \in 0..(np * np) /\ n * np + t \in Nat
    <3>1. np * np \in Nat
      BY ParasortAssumption, Multiples
    <3> QED BY <2>1, <3>1 DEF Cells
  <2>3. Sum[n * np + t] = Start(n * np + t)
    BY <1>1, <1>2, <2>2, SumIsStart
  <2>4. Start(n * np + t) \in 0..sz
    BY <1>2, <2>2, StartBounds
  <2> QED BY <1>1, <1>2, <2>1, <2>3, <2>4 DEF StartOf
<1>4. /\ Positions' = Positions /\ (\A t : Length(t)' = Length(t)) /\ part' = part
      /\ (\A k : Lower(k)' = Lower(k) /\ Start(k)' = Start(k))
  BY <1>1, Frame
<1>5. map' \in [Cells -> Nat]
  <2>1. ASSUME NEW c \in Cells PROVE map'[c] \in Nat
    <3>1. PICK t, n \in Threads : c = Same(t, n)
      BY EveryCell
    <3> QED BY <1>3, <3>1
  <2> QED BY <1>1, <2>1
<1>6. Typing'
  BY <1>1, <1>2, <1>4, <1>5 DEF Typing
<1>7. Mapped'
  BY <1>3, <1>4 DEF Mapped
<1>8. \A t \in Threads : Passed(t)' = {}
  BY <1>1, <1>6, NothingPassed, PartSizes, <1>2, <1>4 DEF Passed, Positions
<1>9. Scattered'
  <2> SUFFICES ASSUME NEW t \in Threads, NEW n \in Threads
               PROVE  tmp'[Same(t, n)] = Cardinality(Gone(t, n)')
    BY <1>8 DEF Scattered
  <2>1. Gone(t, n)' = Lower(n * np + t)
    BY <1>4, <1>8 DEF Gone, Seen
  <2> QED BY <1>1, <1>3, <2>1 DEF Start
<1>10. InPart'
  BY <1>1, <1>2, <1>4, PartSizes DEF InPart
<1> QED BY <1>1, <1>6, <1>7, <1>9, <1>10 DEF IInv, Started, Counted, Sliced

LEMMA ReorderStep ==
  ASSUME IInv, NEW t \in Threads, Reorder(t)
  PROVE  IInv'
<1>1. /\ phase = "reorder" /\ done[t] < Length(t)
      /\ UNCHANGED <<sz, list, range, bucket, map, phase>>
      /\ done' = [done EXCEPT ![t] = @ + 1]
  BY DEF Reorder
<1>2. PICK j : j = t * part + done[t]
  OBVIOUS
<1> PICK n : n = BucketAt(j)
  OBVIOUS
<1>3. /\ sorted' = [sorted EXCEPT ![tmp[Same(t, n)]] = list[j]]
      /\ tmp' = [tmp EXCEPT ![Same(t, n)] = @ + 1]
  BY <1>2 DEF Reorder, BucketAt, After
<1>4. Typing /\ InPart /\ Mapped /\ Scattered /\ sz \in Nat
  BY DEF IInv, Typing
<1>5. /\ j \in Positions /\ Owner(j) = t /\ n \in Threads
      /\ Seen(t, n) = {i \in Positions : Rank(i) = Rank(j) /\ i < j}
      /\ done' \in [Threads -> Nat] /\ InPart'
      /\ Passed(t)' = Passed(t) \cup {j}
      /\ \A u \in Threads \ {t} : Passed(u)' = Passed(u)
      /\ j \notin Seen(t, n)
  BY <1>1, <1>2, <1>4, Taken
<1>5a. /\ Seen(t, n)' = Seen(t, n) \cup {j}
       /\ \A u, m \in Threads : u # t \/ m # n => Seen(u, m)' = Seen(u, m)
  BY <1>1, <1>5, SeenNext
<1>6. /\ Positions' = Positions /\ (\A i : BucketAt(i)' = BucketAt(i))
      /\ (\A k : Lower(k)' = Lower(k) /\ Start(k)' = Start(k))
      /\ (\A i : Target(i)' = Target(i))
  BY <1>1, Frame
<1>7. Same(t, n) \in Cells /\ n * np + t = Rank(j)
  BY <1>5, CellRank DEF Rank
<1>8. tmp[Same(t, n)] = Target(j)
  <2>1. Gone(t, n) = Before(j)
    BY <1>5, <1>7 DEF Gone, Before, Lower
  <2> QED BY <1>1, <1>4, <1>5, <2>1 DEF Scattered, Target
<1>9. /\ Target(j) \in Positions /\ list[j] \in Places
      /\ \A i \in Positions : i # j => Target(i) # Target(j)
  BY <1>4, <1>5, TargetsDiffer DEF Typing
<1>10. Typing'
  BY <1>1, <1>3, <1>4, <1>5, <1>6, <1>7, <1>8, <1>9 DEF Typing
<1>11. Mapped'
  BY <1>1, <1>4, <1>6 DEF Mapped
<1>12. ASSUME NEW u \in Threads, NEW m \in Threads
       PROVE  tmp'[Same(u, m)] = Cardinality(Gone(u, m)')
  <2>1. Same(u, m) \in Cells /\ tmp[Same(u, m)] = Cardinality(Gone(u, m))
    BY <1>1, <1>4, CellRank DEF Scattered
  <2>2. CASE u = t /\ m = n
    <3>1. Gone(t, n)' = Gone(t, n) \cup {j}
      BY <1>5a, <1>5, <1>6 DEF Gone
    <3>2. j \notin Gone(t, n)
      <4>1. Rank(j) \in Nat
        BY <1>4, <1>5, Ranked
      <4> QED BY <1>5, <1>7, <4>1 DEF Gone, Lower
    <3>3. IsFiniteSet(Gone(t, n))
      BY <1>4, Finite DEF Gone, Lower, Seen, Passed
    <3>4. Cardinality(Gone(t, n) \cup {j}) = Cardinality(Gone(t, n)) + 1
      BY <3>2, <3>3, FS_AddElement
    <3> QED BY <1>3, <1>4, <2>1, <2>2, <3>1, <3>4 DEF Typing
  <2>3. CASE u # t \/ m # n
    <3>1. Same(u, m) # Same(t, n)
      BY <1>5, <2>3, CellRank
    <3>2. Gone(u, m)' = Gone(u, m)
      BY <1>5a, <1>6, <2>3 DEF Gone
    <3> QED BY <1>3, <1>4, <2>1, <3>1, <3>2 DEF Typing
  <2> QED BY <2>2, <2>3
<1>13. ASSUME NEW u \in Threads, NEW i \in Passed(u)'
       PROVE  sorted'[Target(i)] = list[i]
  <2>1. CASE i = j
    BY <1>3, <1>4, <1>8, <1>9, <2>1 DEF Typing
  <2>2. CASE i # j
    <3>1. i \in Passed(u) /\ i \in Positions
      BY <1>5, <2>2 DEF Passed
    <3>2. sorted[Target(i)] = list[i]
      BY <1>1, <1>4, <3>1 DEF Scattered
    <3>3. Target(i) \in Positions /\ Target(i) # Target(j)
      BY <1>4, <1>9, <2>2, <3>1, TargetsDiffer
    <3> QED BY <1>3, <1>4, <1>8, <3>2, <3>3 DEF Typing
  <2> QED BY <2>1, <2>2
<1>14. Scattered'
  BY <1>1, <1>6, <1>12, <1>13 DEF Scattered
<1> QED BY <1>1, <1>5, <1>10, <1>11, <1>14 DEF IInv, Started, Counted, Sliced

(* With the whole list passed, every place has been filled, with an element of
   the bucket whose slice it is in. *)
LEMMA ReorderJoinStep == IInv /\ ReorderJoin => IInv'
<1> SUFFICES ASSUME IInv, ReorderJoin PROVE IInv'
  OBVIOUS
<1>1. /\ phase = "reorder" /\ Joined /\ phase' = "sort"
      /\ UNCHANGED <<sz, list, range, bucket, map, tmp, sorted>>
      /\ done' = [t \in Threads |-> 0]
  BY DEF ReorderJoin
<1>2. Typing /\ Mapped /\ Scattered /\ sz \in Nat
  BY DEF IInv, Typing
<1>3. /\ Positions' = Positions /\ (\A i : BucketAt(i)' = BucketAt(i))
      /\ (\A k : Start(k)' = Start(k)) /\ (\A t : Slice(t)' = Slice(t))
  BY <1>1, Frame DEF Slice, SliceEnd
<1>4. Typing'
  BY <1>1, <1>2, <1>3 DEF Typing
<1>5. Mapped'
  BY <1>1, <1>2, <1>3 DEF Mapped
<1>6. ASSUME NEW j \in Positions PROVE sorted[Target(j)] = list[j]
  <2>1. Owner(j) \in Threads /\ j \in Part(Owner(j))
    BY <1>2, OwnPart
  <2>2. j \in Passed(Owner(j))
    BY <1>1, <2>1 DEF Passed, Part, Joined
  <2> QED BY <1>1, <1>2, <2>1, <2>2 DEF Scattered
<1>7. ASSUME NEW p \in Positions
      PROVE  \E j \in Positions : sorted[p] = list[j] /\ p \in Slice(BucketAt(j))
  <2>1. PICK j \in Positions : Target(j) = p
    BY <1>2, TargetsFill
  <2>2. Target(j) \in Slice(BucketAt(j))
    BY <1>1, <1>2, TargetInSlice
  <2> QED BY <1>6, <2>1, <2>2
<1>8. ASSUME NEW j \in Positions PROVE \E p \in Positions : sorted[p] = list[j]
  BY <1>2, <1>6, TargetsDiffer
<1>9. Sliced'
  BY <1>1, <1>3, <1>7, <1>8 DEF Sliced
<1> QED BY <1>1, <1>4, <1>5, <1>9 DEF IInv, Started, InPart, Counted, Scattered

(* The slices are within the array, each before the next. *)
LEMMA SlicesApart ==
  ASSUME Typing, Mapped, phase = "sort"
  PROVE  /\ \A t \in Threads : Slice(t) \in SUBSET Positions
         /\ \A t, u \in Threads : t < u => \A i \in Slice(t), j \in Slice(u) : i < j
<1>1. sz \in Nat /\ np \in Nat
  BY ParasortAssumption DEF Typing
<1>2. ASSUME NEW t \in Threads
      PROVE  /\ t \in Nat /\ t * np \in Nat /\ (t + 1) * np \in Nat
             /\ Start(t * np) \in 0..sz /\ Start((t + 1) * np) \in 0..sz
             /\ Slice(t) = Start(t * np)..(Start((t + 1) * np) - 1)
  <2>1. /\ t * np \in Nat /\ (t + 1) * np \in Nat
        /\ Slice(t) = Start(t * np)..(Start((t + 1) * np) - 1)
    BY Slices
  <2> QED BY <2>1, StartBounds DEF Threads
<1>3. ASSUME NEW t \in Threads PROVE Slice(t) \in SUBSET Positions
  BY <1>1, <1>2 DEF Positions
<1>4. ASSUME NEW t \in Threads, NEW u \in Threads, t < u,
             NEW i \in Slice(t), NEW j \in Slice(u)
      PROVE  i < j
  <2>1. (t + 1) * np <= u * np
    <3>1. t \in Nat /\ u \in Nat /\ t < u
      BY <1>2, <1>4
    <3>2. t * np + np <= u * np
      BY <1>1, <3>1, Multiples
    <3>3. (t + 1) * np = t * np + np
      BY <1>1, <3>1
    <3> QED BY <3>2, <3>3
  <2>2. Start((t + 1) * np) <= Start(u * np)
    BY <1>2, <2>1, StartBounds
  <2> DEFINE a == Start((t + 1) * np)
             b == Start(u * np)
             c == Start((u + 1) * np)
             d == Start(t * np)
  <2>3. /\ a \in 0..sz /\ b \in 0..sz /\ c \in 0..sz /\ d \in 0..sz
        /\ i \in d..(a - 1) /\ j \in b..(c - 1) /\ a <= b
    BY <1>2, <2>2
  <2> HIDE DEF a, b, c, d
  <2> QED BY <1>1, <2>3
<1> QED BY <1>3, <1>4

LEMMA SortSliceStep ==
  ASSUME IInv, NEW t \in Threads, SortSlice(t)
  PROVE  IInv'
<1>1. /\ phase = "sort" /\ done[t] = 0
      /\ done' = [done EXCEPT ![t] = 1]
      /\ UNCHANGED <<sz, list, range, bucket, map, tmp, phase>>
  BY DEF SortSlice
<1>2. PICK p \in Bijection(Slice(t), Slice(t)) :
        /\ sorted' = [i \in Positions |-> sorted[IF i \in Slice(t) THEN p[i] ELSE i]]
        /\ \A i, j \in Slice(t) : i <= j => sorted'[i].key <= sorted'[j].key
  BY DEF SortSlice
<1>3. Typing /\ Mapped /\ Sliced
  BY DEF IInv
<1>4. Positions' = Positions /\ (\A i : BucketAt(i)' = BucketAt(i))
      /\ (\A k : Start(k)' = Start(k)) /\ (\A u : Slice(u)' = Slice(u))
  BY <1>1, Frame DEF Slice, SliceEnd
<1>5. Slice(t) \in SUBSET Positions
  BY <1>1, <1>3, SlicesApart
<1>6. /\ \A i \in Slice(t) : p[i] \in Slice(t)
      /\ \A i \in Slice(t) : \E k \in Slice(t) : p[k] = i
  BY <1>2 DEF Bijection, Surjection
<1>7. /\ \A i \in Slice(t) : sorted'[i] = sorted[p[i]]
      /\ \A i \in Positions \ Slice(t) : sorted'[i] = sorted[i]
  BY <1>2, <1>5
<1>8. Typing'
  <2>1. ASSUME NEW i \in Positions PROVE sorted'[i] \in Places
    <3>1. CASE i \in Slice(t)
      <4>1. sorted'[i] = sorted[p[i]] /\ p[i] \in Positions
        BY <1>5, <1>6, <1>7, <3>1
      <4> QED BY <1>3, <4>1 DEF Typing
    <3>2. CASE i \notin Slice(t)
      BY <1>3, <1>7, <3>2 DEF Typing
    <3> QED BY <3>1, <3>2
  <2>2. sorted' \in [Positions -> Places]
    BY <1>2, <2>1
  <2> QED BY <1>1, <1>3, <1>4, <2>2 DEF Typing
<1>9. Mapped'
  BY <1>1, <1>3, <1>4 DEF Mapped
<1>10. ASSUME NEW i \in Positions
       PROVE  \E j \in Positions : sorted'[i] = list[j] /\ i \in Slice(BucketAt(j))
  <2>1. CASE i \in Slice(t)
    <3>1. p[i] \in Slice(t) /\ p[i] \in Positions /\ sorted'[i] = sorted[p[i]]
      BY <1>5, <1>6, <1>7, <2>1
    <3>2. PICK j \in Positions : sorted[p[i]] = list[j] /\ p[i] \in Slice(BucketAt(j))
      BY <1>1, <1>3, <3>1 DEF Sliced
    <3>3. BucketAt(j) \in Threads
      BY <1>3, Ranked
    <3>4. BucketAt(j) = t
      BY <1>1, <1>3, <3>1, <3>2, <3>3, SlicesApart DEF Threads, Positions
    <3> QED BY <2>1, <3>1, <3>2, <3>4
  <2>2. CASE i \notin Slice(t)
    BY <1>1, <1>3, <1>7, <2>2 DEF Sliced
  <2> QED BY <2>1, <2>2
<1>11. ASSUME NEW j \in Positions PROVE \E i \in Positions : sorted'[i] = list[j]
  <2>1. PICK i \in Positions : sorted[i] = list[j]
    BY <1>1, <1>3 DEF Sliced
  <2>2. CASE i \in Slice(t)
    BY <1>5, <1>6, <1>7, <2>1, <2>2
  <2>3. CASE i \notin Slice(t)
    BY <1>7, <2>1, <2>3
  <2> QED BY <2>2, <2>3
<1>12. ASSUME NEW u \in Threads, done'[u] = 1,
              NEW i \in Slice(u), NEW j \in Slice(u), i <= j
       PROVE  sorted'[i].key <= sorted'[j].key
  <2>1. CASE u = t
    BY <1>2, <1>12, <2>1
  <2>2. CASE u # t
    <3>1. done[u] = 1
      BY <1>1, <1>3, <1>12, <2>2 DEF Typing
    <3>2. sorted[i].key <= sorted[j].key
      BY <1>1, <1>3, <1>12, <3>1 DEF Sliced
    <3>3. i \in Positions \ Slice(t) /\ j \in Positions \ Slice(t)
      BY <1>1, <1>3, <2>2, SlicesApart DEF Threads, Positions
    <3> QED BY <1>7, <3>2, <3>3
  <2> QED BY <2>1, <2>2
<1>13. Sliced'
  BY <1>1, <1>4, <1>10, <1>11, <1>12 DEF Sliced
<1> QED BY <1>1, <1>8, <1>9, <1>13 DEF IInv, Started, InPart, Counted, Scattered

LEMMA CopyBackStep == IInv /\ CopyBack => IInv'
<1> SUFFICES ASSUME IInv, CopyBack PROVE IInv'
  OBVIOUS
<1>1. /\ phase' = "done" /\ list' = sorted
      /\ UNCHANGED <<sz, range, bucket, map, tmp, sorted, done>>
  BY DEF CopyBack
<1>2. Typing'
  BY <1>1 DEF IInv, Typing, Positions
<1> QED BY <1>1, <1>2 DEF IInv, Started, InPart, Counted, Mapped, Scattered, Sliced

LEMMA StutterStep == IInv /\ UNCHANGED vars => IInv'
<1> SUFFICES ASSUME IInv, UNCHANGED vars PROVE IInv'
  OBVIOUS
<1>1. UNCHANGED <<sz, list, range, bucket, map, tmp, sorted, phase, done>>
  BY DEF vars
<1>2. /\ Positions' = Positions /\ part' = part /\ (\A t : Length(t)' = Length(t))
      /\ (\A k : Lower(k)' = Lower(k) /\ Start(k)' = Start(k))
      /\ (\A i : BucketAt(i)' = BucketAt(i) /\ Target(i)' = Target(i))
      /\ (\A t : Slice(t)' = Slice(t))
  BY <1>1, Frame DEF Slice, SliceEnd
<1>3. \A t : Passed(t)' = Passed(t)
  BY <1>1, <1>2 DEF Passed
<1>4. \A t, n : Seen(t, n)' = Seen(t, n)
  BY <1>2, <1>3 DEF Seen
<1>5. \A t, n : Gone(t, n)' = Gone(t, n)
  BY <1>2, <1>4 DEF Gone
<1>6. Typing' /\ Started' /\ InPart' /\ Counted' /\ Mapped'
  BY <1>1, <1>2, <1>4 DEF IInv, Typing, Started, InPart, Counted, Mapped
<1>7. Scattered'
  BY <1>1, <1>2, <1>3, <1>5 DEF IInv, Scattered
<1>8. Sliced'
  BY <1>1, <1>2 DEF IInv, Sliced
<1> QED BY <1>6, <1>7, <1>8 DEF IInv

LEMMA NextIInv == IInv /\ [Next]_vars => IInv'
BY SampleStep, MakeMapStep, ReorderJoinStep, CopyBackStep, CountStep, ReorderStep,
   SortSliceStep, StutterStep DEF Next, Terminated

-----------------------------------------------------------------------------
(* The theorems. *)

(* The counts, the map, what has been scattered and the sorted slices are at
   every moment what IInv says of them. *)
THEOREM Invariance == Spec => []IInv
<1>1. Init => IInv
  BY InitIInv
<1>2. IInv /\ [Next]_vars => IInv'
  BY NextIInv
<1> QED BY <1>1, <1>2, PTL DEF Spec

(* Every place of the new array is in the slice of its tuple's bucket, and no
   other: so are the keys of lower slices lower. *)
LEMMA SlicesOrdered ==
  ASSUME IInv, phase = "sort"
  PROVE  Partitioned
<1>1. Typing /\ Mapped /\ Sliced
  BY DEF IInv
<1>2. ASSUME NEW p \in Positions
      PROVE  \E n \in Threads : \E j \in Positions :
               /\ sorted[p] = list[j] /\ n = BucketAt(j) /\ p \in Slice(n)
  <2>1. PICK j \in Positions : sorted[p] = list[j] /\ p \in Slice(BucketAt(j))
    BY <1>1 DEF Sliced
  <2>2. BucketAt(j) \in Threads
    BY <1>1, Ranked
  <2> QED BY <2>1, <2>2
<1>3. \A p \in Positions : sorted[p] # Blank
  <2> SUFFICES ASSUME NEW p \in Positions PROVE sorted[p] # Blank
    OBVIOUS
  <2>1. PICK j \in Positions : sorted[p] = list[j]
    BY <1>2
  <2> QED BY <1>1, <2>1 DEF Typing
<1>4. ASSUME NEW t \in Threads, NEW u \in Threads, t < u,
             NEW p \in Slice(t), NEW q \in Slice(u)
      PROVE  p < q /\ sorted[p].key <= sorted[q].key
  <2>1. p \in Positions /\ q \in Positions /\ p < q
    BY <1>1, <1>4, SlicesApart
  <2>2. PICK n \in Threads, i \in Positions :
          sorted[p] = list[i] /\ n = BucketAt(i) /\ p \in Slice(n)
    BY <1>2, <2>1
  <2>3. PICK m \in Threads, j \in Positions :
          sorted[q] = list[j] /\ m = BucketAt(j) /\ q \in Slice(m)
    BY <1>2, <2>1
  <2>4. n = t /\ m = u
    BY <1>1, <1>4, <2>1, <2>2, <2>3, SlicesApart DEF Threads, Positions
  <2>5. list[i] \in Places /\ list[j] \in Places /\ range \in [0..(np - 2) -> Nat]
    BY <1>1 DEF Typing
  <2>6. BucketOf(list[i]) < BucketOf(list[j])
    BY <1>4, <2>2, <2>3, <2>4 DEF BucketAt
  <2>7. list[i].key <= list[j].key
    BY <2>5, <2>6, BucketsOrdered
  <2> QED BY <2>1, <2>2, <2>3, <2>7
<1> QED BY <1>2, <1>3, <1>4 DEF Partitioned

(* No thread overwrites what another one scattered, no gap stays, and the
   slices are in the order of the buckets. *)
THEOREM ScatteredApart == Spec => []Partitioned
<1>1. IInv => Partitioned
  BY SlicesOrdered DEF Partitioned
<1> QED BY <1>1, Invariance, PTL

LEMMA SortedAtLast ==
  ASSUME IInv, CopyBack
  PROVE  /\ \A i, j \in Positions : i <= j => list'[i].key <= list'[j].key
         /\ {list'[i] : i \in Positions} = {list[i] : i \in Positions}
<1>1. phase = "sort" /\ list' = sorted /\ (\A t \in Threads : done[t] = 1)
  BY DEF CopyBack
<1>2. Partitioned /\ Sliced
  BY <1>1, SlicesOrdered DEF IInv
<1>3. ASSUME NEW i \in Positions, NEW j \in Positions, i <= j
      PROVE  sorted[i].key <= sorted[j].key
  <2>1. PICK t, u \in Threads : i \in Slice(t) /\ j \in Slice(u)
    BY <1>1, <1>2 DEF Partitioned
  <2>2. CASE t = u
    BY <1>1, <1>2, <1>3, <2>1, <2>2 DEF Sliced
  <2>3. CASE t < u
    BY <1>1, <1>2, <2>1, <2>3 DEF Partitioned
  <2>4. ~(u < t)
    <3>1. u < t => j < i
      BY <1>1, <1>2, <2>1 DEF Partitioned
    <3> QED BY <1>3, <3>1 DEF Positions
  <2> QED BY <2>2, <2>3, <2>4 DEF Threads
<1>4. {sorted[i] : i \in Positions} = {list[i] : i \in Positions}
  BY <1>1, <1>2 DEF Sliced
<1> QED BY <1>1, <1>3, <1>4

(* The list comes out sorted, and with the very tuples it had. *)
THEOREM ListSorted == Spec => ResultSorted
<1>1. IInv /\ [Next]_vars =>
        [phase' = "done" /\ phase # "done" =>
           /\ \A i, j \in Positions : i <= j => list'[i].key <= list'[j].key
           /\ {list'[i] : i \in Positions} = {list[i] : i \in Positions}]_vars
  <2> SUFFICES ASSUME IInv, Next, phase' = "done", phase # "done"
               PROVE  /\ \A i, j \in Positions : i <= j => list'[i].key <= list'[j].key
                      /\ {list'[i] : i \in Positions} = {list[i] : i \in Positions}
    BY DEF vars
  <2>1. CopyBack
    BY DEF Next, Sample, MakeMap, ReorderJoin, Terminated, vars, Count, Reorder, SortSlice
  <2> QED BY <2>1, SortedAtLast
<1> QED BY <1>1, Invariance, PTL DEF Spec, ResultSorted

-----------------------------------------------------------------------------
(***************************************************************************)
(* The merges of MergeKernels.  At any time a merge has taken the first    *)
(* TookX elements of x and the first TookY of y, written them in order to  *)
(* the first places of the result (Written) and left behind, where x and y *)
(* are read, what it has not taken (UnreadX, UnreadY).  It does not write  *)
(* over those because of where out is (Pointing): while src1 or rng1 is    *)
(* filled, no further than TookX + TookY places from its beginning, where  *)
(* x has been moved away from or never was, and before y; afterwards       *)
(* exactly as far before y as there are elements of x left.                *)
(***************************************************************************)

Kernel == merge_call.kernel
Fills == Kernel \in {"uncontiguous", "flow"}

(* What x and y run through, and how much of it has been taken. *)
KX == IF Kernel = "flow" THEN merge_call.s2 ELSE merge_call.s1
KY == IF Kernel = "flow" THEN merge_call.s1 ELSE merge_call.s2
nX == Len(KX)
nY == Len(KY)
SX == [p \in 1..nX |-> Element(KX, IF Kernel = "flow" THEN 2 ELSE 1, p)]
SY == [q \in 1..nY |-> Element(KY, IF Kernel = "flow" THEN 1 ELSE 2, q)]
TookX == nX - (end_x - x)
TookY == nY - (end_y - y)

(* The k-th place of the result; where y starts; how much memory there is. *)
Origin ==
  CASE Kernel = "merge" -> n1 + n2 + 2
    [] Kernel = "half" -> n1 + 1
    [] Kernel = "uncontiguous" -> 0
    [] Kernel = "flow" -> n2 + 1
Spot(k) == Origin + k + (IF Fills /\ k > n1 THEN 1 ELSE 0)
YStart ==
  CASE Kernel = "half" -> 2 * n1 + 2
    [] Kernel = "flow" -> n1 + n2 + 3
    [] OTHER -> n1 + 2
MemSize ==
  CASE Kernel = "merge" -> 2 * n1 + 2 * n2 + 2
    [] Kernel = "half" -> 2 * n1 + n2 + 1
    [] OTHER -> 2 * n1 + n2 + 2
Gaps == {p \in {n1 + 1, n1 + n2 + 2} \cap (1..MemSize) :
           \A k \in 1..(n1 + n2) : p # Spot(k)}

(* The order of the result: stable, but for merge_flow. *)
Earlier(e, f) ==
  \/ e.key < f.key
  \/ e.key = f.key /\ (e.from < f.from \/ Kernel = "flow")
  \/ e.key = f.key /\ e.from = f.from /\ e.nth < f.nth

(* The first i elements of x and the first j of y are the result so far ... *)
Written(m, i, j) ==
  /\ \A k \in 1..(i + j) : \/ \E p \in 1..i : m[Spot(k)] = SX[p]
                           \/ \E q \in 1..j : m[Spot(k)] = SY[q]
  /\ \A p \in 1..i : \E k \in 1..(i + j) : m[Spot(k)] = SX[p]
  /\ \A q \in 1..j : \E k \in 1..(i + j) : m[Spot(k)] = SY[q]
  /\ \A k, l \in 1..(i + j) : k < l => Earlier(m[Spot(k)], m[Spot(l)])

(* ... and come before the others. *)
Ahead(i, j) ==
  /\ \A p \in 1..i, q \in (j + 1)..nY : KX[p] <= KY[q]
  /\ \A q \in 1..j, p \in (i + 1)..nX : KY[q] < KX[p]

(* Where the pointers are, for what has been taken. *)
Pointing ==
  /\ merge_pc \in {"check", "merge", "uncontiguous", "flow", "fill", "done"}
  /\ x \in Int /\ end_x \in Int /\ y \in Int /\ end_y \in Int /\ out \in Int
  /\ x <= end_x /\ end_x - x <= nX
  /\ y <= end_y /\ end_y - y <= nY
  /\ end_y = YStart + nY
  /\ end_out = Origin + n1 + 1 /\ next_out = YStart
  /\ merge_pc # "done" =>
       IF Kernel = "uncontiguous" /\ merge_pc # "uncontiguous"
       THEN x >= n1 + n2 + 3 /\ end_x <= MemSize + 1
       ELSE end_x = nX + 1
  /\ merge_pc \in {"uncontiguous", "flow"} =>
       Kernel = merge_pc /\ TookX = 0 /\ TookY = 0 /\ out = Origin + 1
  /\ merge_pc = "fill" => Fills /\ TookX + TookY <= n1 /\ out = Origin + TookX + TookY + 1
  /\ merge_pc \in {"check", "merge"} =>
       /\ Fills => TookX + TookY >= n1
       /\ out = Spot(TookX + TookY + 1)
       /\ Kernel # "merge" => y = out + (end_x - x)

(* What lies where. *)
UnreadX(m) == \A p \in (TookX + 1)..nX : m[end_x - nX - 1 + p] = SX[p]
UnreadY(m) == \A q \in (TookY + 1)..nY : m[YStart - 1 + q] = SY[q]
GapsFree(m) == \A p \in Gaps : m[p] = Vacant

MergeInv ==
  /\ merge_call \in MergeCalls
  /\ Pointing
  /\ DOMAIN mem = 1..MemSize
  /\ merge_pc # "done" =>
       UnreadX(mem) /\ UnreadY(mem) /\ Written(mem, TookX, TookY) /\ Ahead(TookX, TookY)
  /\ merge_pc = "done" => Written(mem, nX, nY)
  /\ GapsFree(mem)

-----------------------------------------------------------------------------
(* The calls and their memory. *)

LEMMA CallShape ==
  ASSUME merge_call \in MergeCalls
  PROVE  /\ Kernel \in {"merge", "half", "uncontiguous", "flow"}
         /\ n1 \in Nat /\ n2 \in Nat /\ nX \in Nat /\ nY \in Nat
         /\ Kernel = "flow" => n1 = n2 /\ nX = n2 /\ nY = n1
         /\ Kernel # "flow" => nX = n1 /\ nY = n2
         /\ KX \in Seq(Int) /\ KY \in Seq(Int)
         /\ \A i, j \in 1..nX : i < j => KX[i] <= KX[j]
         /\ \A i, j \in 1..nY : i < j => KY[i] <= KY[j]
<1>1. /\ Kernel \in {"merge", "half", "uncontiguous", "flow"}
      /\ merge_call.s1 \in Seq(Int) /\ merge_call.s2 \in Seq(Int)
      /\ \A i, j \in 1..Len(merge_call.s1) : i < j => merge_call.s1[i] <= merge_call.s1[j]
      /\ \A i, j \in 1..Len(merge_call.s2) : i < j => merge_call.s2[i] <= merge_call.s2[j]
      /\ Kernel = "flow" => Len(merge_call.s1) = Len(merge_call.s2)
  BY KernelAssumption DEF Kernel
<1>2. CASE Kernel = "flow"
  <2>1. KX = merge_call.s2 /\ KY = merge_call.s1
    BY <1>2 DEF KX, KY
  <2> QED BY <1>1, <1>2, <2>1 DEF n1, n2, nX, nY
<1>3. CASE Kernel # "flow"
  <2>1. KX = merge_call.s1 /\ KY = merge_call.s2
    BY <1>3 DEF KX, KY
  <2> QED BY <1>1, <1>3, <2>1 DEF n1, n2, nX, nY
<1> QED BY <1>2, <1>3

(* The two sequences, element by element. *)
LEMMA ElementsOf ==
  ASSUME merge_call \in MergeCalls
  PROVE  /\ \A p \in 1..nX : SX[p] = [key |-> KX[p], from |-> SX[p].from, nth |-> p]
         /\ \A p \in 1..nX : SX[p].key = KX[p] /\ SX[p].nth = p
         /\ \A p \in 1..nX : SX[p].from = IF Kernel = "flow" THEN 2 ELSE 1
         /\ \A q \in 1..nY : SY[q].key = KY[q] /\ SY[q].nth = q
         /\ \A q \in 1..nY : SY[q].from = IF Kernel = "flow" THEN 1 ELSE 2
         /\ \A p \in 1..nX : KX[p] \in Int
         /\ \A q \in 1..nY : KY[q] \in Int
<1>1. KX \in Seq(Int) /\ KY \in Seq(Int) /\ nX \in Nat /\ nY \in Nat
  BY CallShape
<1> QED BY <1>1 DEF SX, SY, Element, nX, nY

LEMMA OrderOfElements ==
  ASSUME merge_call \in MergeCalls
  PROVE  /\ \A p, r \in 1..nX : p < r => Earlier(SX[p], SX[r])
         /\ \A q, r \in 1..nY : q < r => Earlier(SY[q], SY[r])
         /\ \A p \in 1..nX, q \in 1..nY : KX[p] <= KY[q] => Earlier(SX[p], SY[q])
         /\ \A p \in 1..nX, q \in 1..nY : KY[q] < KX[p] => Earlier(SY[q], SX[p])
<1>1. /\ \A i, j \in 1..nX : i < j => KX[i] <= KX[j]
      /\ \A i, j \in 1..nY : i < j => KY[i] <= KY[j]
  BY CallShape
<1>2. \A p, r \in 1..nX : p < r => Earlier(SX[p], SX[r])
  BY <1>1, ElementsOf DEF Earlier
<1>3. \A q, r \in 1..nY : q < r => Earlier(SY[q], SY[r])
  BY <1>1, ElementsOf DEF Earlier
<1>4. \A p \in 1..nX, q \in 1..nY : KX[p] <= KY[q] => Earlier(SX[p], SY[q])
  BY ElementsOf DEF Earlier
<1>5. \A p \in 1..nX, q \in 1..nY : KY[q] < KX[p] => Earlier(SY[q], SX[p])
  BY ElementsOf DEF Earlier
<1> QED BY <1>2, <1>3, <1>4, <1>5

(* The places of the result go up, within the memory. *)
LEMMA Spots ==
  ASSUME merge_call \in MergeCalls
  PROVE  /\ Origin \in Nat /\ YStart \in Nat /\ MemSize \in Nat
         /\ \A k \in Int : Spot(k) \in Int
         /\ \A k, l \in Int : k < l => Spot(k) < Spot(l)
         /\ \A k \in 1..(n1 + n2) : Spot(k) \in 1..MemSize
         /\ n1 + n2 = nX + nY
<1>1. /\ Kernel \in {"merge", "half", "uncontiguous", "flow"}
      /\ n1 \in Nat /\ n2 \in Nat
      /\ Kernel = "flow" => n1 = n2 /\ nX = n2 /\ nY = n1
      /\ Kernel # "flow" => nX = n1 /\ nY = n2
  BY CallShape
<1>2. Origin \in Nat /\ YStart \in Nat /\ MemSize \in Nat
  BY <1>1 DEF Origin, YStart, MemSize
<1>3. \A k \in Int : Spot(k) \in Int
  BY <1>1, <1>2 DEF Spot
<1>4. \A k, l \in Int : k < l => Spot(k) < Spot(l)
  BY <1>1, <1>2 DEF Spot
<1>5. \A k \in 1..(n1 + n2) : Spot(k) \in 1..MemSize
  BY <1>1 DEF Spot, Origin, MemSize, Fills
<1> QED BY <1>1, <1>2, <1>3, <1>4, <1>5

(* The memory a call finds: the two sequences, and nothing else. *)
LEMMA LayoutIs ==
  ASSUME merge_call \in MergeCalls
  PROVE  /\ DOMAIN Layout(merge_call) = 1..MemSize
         /\ \A p \in 1..nX : Layout(merge_call)[p] = SX[p]
         /\ \A q \in 1..nY : Layout(merge_call)[YStart - 1 + q] = SY[q]
         /\ \A p \in 1..MemSize :
              p \notin 1..nX /\ p \notin YStart..(YStart + nY - 1) =>
                Layout(merge_call)[p] = Vacant
         /\ YStart \in Nat /\ nX < YStart /\ YStart + nY - 1 <= MemSize
<1>1. /\ Kernel \in {"merge", "half", "uncontiguous", "flow"}
      /\ n1 \in Nat /\ n2 \in Nat
  BY CallShape
<1>2. CASE Kernel # "flow"
  <2>1. /\ nX = n1 /\ nY = n2
        /\ SX = [p \in 1..n1 |-> Element(merge_call.s1, 1, p)]
        /\ SY = [q \in 1..n2 |-> Element(merge_call.s2, 2, q)]
    BY <1>2 DEF nX, nY, KX, KY, n1, n2, SX, SY
  <2>2. Layout(merge_call) = Laid(merge_call, MemSize, 1, YStart)
    <3>1. CASE Kernel = "merge"
      <4>1. 2 * (n1 + n2 + 1) = 2 * n1 + 2 * n2 + 2
        BY <1>1
      <4> QED BY <3>1, <4>1 DEF Layout, Kernel, MemSize, YStart, n1, n2
    <3>2. CASE Kernel = "half"
      <4>1. 2 * n1 + 1 + n2 = 2 * n1 + n2 + 1
        BY <1>1
      <4> QED BY <3>2, <4>1 DEF Layout, Kernel, MemSize, YStart, n1, n2
    <3>3. CASE Kernel = "uncontiguous"
      BY <3>3 DEF Layout, Kernel, MemSize, YStart, n1, n2
    <3> QED BY <1>1, <1>2, <3>1, <3>2, <3>3
  <2>4. YStart \in Nat /\ MemSize \in Nat /\ n1 < YStart /\ YStart + n2 - 1 <= MemSize
    BY <1>1, <1>2 DEF YStart, MemSize
  <2>3. Layout(merge_call) =
          [p \in 1..MemSize |->
             CASE p \in 1..n1 -> SX[p]
               [] p \in YStart..(YStart + n2 - 1) -> SY[p - YStart + 1]
               [] OTHER -> Vacant]
    BY <1>1, <2>1, <2>2, <2>4 DEF Laid, n1, n2
  <2> QED BY <1>1, <2>1, <2>3, <2>4
<1>3. CASE Kernel = "flow"
  <2>1. /\ nX = n2 /\ nY = n1
        /\ SX = [p \in 1..n2 |-> Element(merge_call.s2, 2, p)]
        /\ SY = [q \in 1..n1 |-> Element(merge_call.s1, 1, q)]
    BY <1>3 DEF nX, nY, KX, KY, n1, n2, SX, SY
  <2>2. Layout(merge_call) = Laid(merge_call, MemSize, YStart, 1)
    BY <1>1, <1>3 DEF Layout, Kernel, MemSize, YStart, n1, n2
  <2>4. YStart \in Nat /\ MemSize \in Nat /\ n2 < YStart /\ YStart + n1 - 1 <= MemSize
    BY <1>1, <1>3 DEF YStart, MemSize
  <2>3. Layout(merge_call) =
          [p \in 1..MemSize |->
             CASE p \in YStart..(YStart + n1 - 1) -> SY[p - YStart + 1]
               [] p \in 1..n2 -> SX[p]
               [] OTHER -> Vacant]
    BY <1>1, <2>1, <2>2, <2>4 DEF Laid, n1, n2
  <2> QED BY <1>1, <2>1, <2>3, <2>4
<1> QED BY <1>2, <1>3

(* The result, place by place. *)
LEMMA ResultIs ==
  ASSUME merge_call \in MergeCalls
  PROVE  /\ Result = [k \in 1..(n1 + n2) |-> Spot(k)]
         /\ Len(Result) = n1 + n2
<1>1. /\ Kernel \in {"merge", "half", "uncontiguous", "flow"}
      /\ n1 \in Nat /\ n2 \in Nat
  BY CallShape
<1>2. Result = [k \in 1..(n1 + n2) |-> Spot(k)]
  BY <1>1 DEF Result, Spot, Origin, Fills, Kernel
<1> QED BY <1>1, <1>2, Spots

-----------------------------------------------------------------------------
(* What is appended to the result. *)

LEMMA AppendX ==
  ASSUME merge_call \in MergeCalls,
         NEW m, NEW m2, NEW i \in Nat, NEW j \in Nat, NEW n \in Nat,
         i + n <= nX, j <= nY, Written(m, i, j), Ahead(i, j),
         \A k \in 1..(i + j) : m2[Spot(k)] = m[Spot(k)],
         \A d \in 1..n : m2[Spot(i + j + d)] = SX[i + d]
  PROVE  Written(m2, i + n, j)
<1> DEFINE R(k) == m2[Spot(k)]
<1>1. /\ \A k \in 1..(i + j) : \/ \E p \in 1..i : R(k) = SX[p]
                               \/ \E q \in 1..j : R(k) = SY[q]
      /\ \A p \in 1..i : \E k \in 1..(i + j) : R(k) = SX[p]
      /\ \A q \in 1..j : \E k \in 1..(i + j) : R(k) = SY[q]
      /\ \A k, l \in 1..(i + j) : k < l => Earlier(R(k), R(l))
  BY DEF Written
<1>2. \A d \in 1..n : R(i + j + d) = SX[i + d]
  OBVIOUS
<1>3. /\ i + n \in Nat /\ j \in Nat /\ (i + n) + j = i + j + n
      /\ nX \in Nat /\ nY \in Nat
  BY CallShape
<1> HIDE DEF R
<1>4. ASSUME NEW k \in 1..(i + j + n), k > i + j
      PROVE  k - (i + j) \in 1..n /\ i + (k - (i + j)) \in (i + 1)..(i + n)
             /\ R(k) = SX[i + (k - (i + j))]
  <2>1. k - (i + j) \in 1..n /\ i + j + (k - (i + j)) = k
    BY <1>4
  <2>2. R(i + j + (k - (i + j))) = SX[i + (k - (i + j))]
    BY <1>2, <2>1
  <2> QED BY <2>1, <2>2
<1>5. \A k \in 1..(i + j + n) : \/ \E p \in 1..(i + n) : R(k) = SX[p]
                                \/ \E q \in 1..j : R(k) = SY[q]
  <2> SUFFICES ASSUME NEW k \in 1..(i + j + n)
               PROVE  \/ \E p \in 1..(i + n) : R(k) = SX[p]
                      \/ \E q \in 1..j : R(k) = SY[q]
    OBVIOUS
  <2>1. CASE k <= i + j
    BY <1>1, <2>1
  <2>2. CASE k > i + j
    <3>1. i + (k - (i + j)) \in 1..(i + n) /\ R(k) = SX[i + (k - (i + j))]
      BY <1>4, <2>2
    <3> QED BY <3>1
  <2> QED BY <2>1, <2>2
<1>6. \A p \in 1..(i + n) : \E k \in 1..(i + j + n) : R(k) = SX[p]
  <2> SUFFICES ASSUME NEW p \in 1..(i + n) PROVE \E k \in 1..(i + j + n) : R(k) = SX[p]
    OBVIOUS
  <2>1. CASE p <= i
    <3>1. PICK k \in 1..(i + j) : R(k) = SX[p]
      BY <1>1, <2>1
    <3>2. k \in 1..(i + j + n)
      OBVIOUS
    <3> QED BY <3>1, <3>2
  <2>2. CASE p > i
    <3>1. /\ p - i \in 1..n /\ i + (p - i) = p
          /\ i + j + (p - i) \in 1..(i + j + n)
      BY <2>2
    <3>2. R(i + j + (p - i)) = SX[i + (p - i)]
      BY <1>2, <3>1
    <3> QED BY <3>1, <3>2
  <2> QED BY <2>1, <2>2
<1>7. \A q \in 1..j : \E k \in 1..(i + j + n) : R(k) = SY[q]
  <2> SUFFICES ASSUME NEW q \in 1..j PROVE \E k \in 1..(i + j + n) : R(k) = SY[q]
    OBVIOUS
  <2>1. PICK k \in 1..(i + j) : R(k) = SY[q]
    BY <1>1
  <2>2. k \in 1..(i + j + n)
    OBVIOUS
  <2> QED BY <2>1, <2>2
<1>8. ASSUME NEW k \in 1..(i + j + n), NEW l \in 1..(i + j + n), k < l
      PROVE  Earlier(R(k), R(l))
  <2>1. CASE l <= i + j
    BY <1>1, <1>8, <2>1
  <2>2. CASE l > i + j /\ k > i + j
    <3>1. /\ i + (k - (i + j)) \in 1..nX /\ i + (l - (i + j)) \in 1..nX
          /\ i + (k - (i + j)) < i + (l - (i + j))
          /\ R(k) = SX[i + (k - (i + j))]
          /\ R(l) = SX[i + (l - (i + j))]
      BY <1>3, <1>4, <1>8, <2>2
    <3> QED BY <3>1, OrderOfElements
  <2>3. CASE l > i + j /\ k <= i + j
    <3> DEFINE r == i + (l - (i + j))
    <3>1. r \in (i + 1)..(i + n) /\ R(l) = SX[r]
      BY <1>4, <2>3
    <3> HIDE DEF r
    <3>2. CASE \E p \in 1..i : R(k) = SX[p]
      <4>1. PICK p \in 1..i : R(k) = SX[p]
        BY <3>2
      <4>2. p < r /\ p \in 1..nX /\ r \in 1..nX
        BY <1>3, <3>1 DEF Ahead
      <4> QED BY <3>1, <4>1, <4>2, OrderOfElements
    <3>3. CASE \E q \in 1..j : R(k) = SY[q]
      <4>1. PICK q \in 1..j : R(k) = SY[q]
        BY <3>3
      <4>2. KY[q] < KX[r] /\ q \in 1..nY /\ r \in 1..nX
        BY <1>3, <3>1 DEF Ahead
      <4> QED BY <3>1, <4>1, <4>2, OrderOfElements
    <3>4. k \in 1..(i + j)
      BY <2>3
    <3> QED BY <1>1, <3>2, <3>3, <3>4
  <2> QED BY <2>1, <2>2, <2>3
<1> QED BY <1>3, <1>5, <1>6, <1>7, <1>8 DEF Written, R

LEMMA AppendY ==
  ASSUME merge_call \in MergeCalls,
         NEW m, NEW m2, NEW i \in Nat, NEW j \in Nat, NEW n \in Nat,
         i <= nX, j + n <= nY, Written(m, i, j), Ahead(i, j),
         \A k \in 1..(i + j) : m2[Spot(k)] = m[Spot(k)],
         \A d \in 1..n : m2[Spot(i + j + d)] = SY[j + d]
  PROVE  Written(m2, i, j + n)
<1> DEFINE R(k) == m2[Spot(k)]
<1>1. /\ \A k \in 1..(i + j) : \/ \E p \in 1..i : R(k) = SX[p]
                               \/ \E q \in 1..j : R(k) = SY[q]
      /\ \A p \in 1..i : \E k \in 1..(i + j) : R(k) = SX[p]
      /\ \A q \in 1..j : \E k \in 1..(i + j) : R(k) = SY[q]
      /\ \A k, l \in 1..(i + j) : k < l => Earlier(R(k), R(l))
  BY DEF Written
<1>2. \A d \in 1..n : R(i + j + d) = SY[j + d]
  OBVIOUS
<1>3. /\ i \in Nat /\ j + n \in Nat /\ i + (j + n) = i + j + n
      /\ nX \in Nat /\ nY \in Nat
  BY CallShape
<1> HIDE DEF R
<1>4. ASSUME NEW k \in 1..(i + j + n), k > i + j
      PROVE  k - (i + j) \in 1..n /\ j + (k - (i + j)) \in (j + 1)..(j + n)
             /\ R(k) = SY[j + (k - (i + j))]
  <2>1. k - (i + j) \in 1..n /\ i + j + (k - (i + j)) = k
    BY <1>4
  <2>2. R(i + j + (k - (i + j))) = SY[j + (k - (i + j))]
    BY <1>2, <2>1
  <2> QED BY <2>1, <2>2
<1>5. \A k \in 1..(i + j + n) : \/ \E p \in 1..i : R(k) = SX[p]
                                \/ \E q \in 1..(j + n) : R(k) = SY[q]
  <2> SUFFICES ASSUME NEW k \in 1..(i + j + n)
               PROVE  \/ \E p \in 1..i : R(k) = SX[p]
                      \/ \E q \in 1..(j + n) : R(k) = SY[q]
    OBVIOUS
  <2>1. CASE k <= i + j
    BY <1>1, <2>1
  <2>2. CASE k > i + j
    <3>1. j + (k - (i + j)) \in 1..(j + n) /\ R(k) = SY[j + (k - (i + j))]
      BY <1>4, <2>2
    <3> QED BY <3>1
  <2> QED BY <2>1, <2>2
<1>6. \A p \in 1..i : \E k \in 1..(i + j + n) : R(k) = SX[p]
  <2> SUFFICES ASSUME NEW p \in 1..i PROVE \E k \in 1..(i + j + n) : R(k) = SX[p]
    OBVIOUS
  <2>1. PICK k \in 1..(i + j) : R(k) = SX[p]
    BY <1>1
  <2>2. k \in 1..(i + j + n)
    OBVIOUS
  <2> QED BY <2>1, <2>2
<1>7. \A q \in 1..(j + n) : \E k \in 1..(i + j + n) : R(k) = SY[q]
  <2> SUFFICES ASSUME NEW q \in 1..(j + n) PROVE \E k \in 1..(i + j + n) : R(k) = SY[q]
    OBVIOUS
  <2>1. CASE q <= j
    <3>1. PICK k \in 1..(i + j) : R(k) = SY[q]
      BY <1>1, <2>1
    <3>2. k \in 1..(i + j + n)
      OBVIOUS
    <3> QED BY <3>1, <3>2
  <2>2. CASE q > j
    <3>1. /\ q - j \in 1..n /\ j + (q - j) = q
          /\ i + j + (q - j) \in 1..(i + j + n)
      BY <2>2
    <3>2. R(i + j + (q - j)) = SY[j + (q - j)]
      BY <1>2, <3>1
    <3> QED BY <3>1, <3>2
  <2> QED BY <2>1, <2>2
<1>8. ASSUME NEW k \in 1..(i + j + n), NEW l \in 1..(i + j + n), k < l
      PROVE  Earlier(R(k), R(l))
  <2>1. CASE l <= i + j
    BY <1>1, <1>8, <2>1
  <2>2. CASE l > i + j /\ k > i + j
    <3>1. /\ j + (k - (i + j)) \in 1..nY /\ j + (l - (i + j)) \in 1..nY
          /\ j + (k - (i + j)) < j + (l - (i + j))
          /\ R(k) = SY[j + (k - (i + j))]
          /\ R(l) = SY[j + (l - (i + j))]
      BY <1>3, <1>4, <1>8, <2>2
    <3> QED BY <3>1, OrderOfElements
  <2>3. CASE l > i + j /\ k <= i + j
    <3> DEFINE r == j + (l - (i + j))
    <3>1. r \in (j + 1)..(j + n) /\ R(l) = SY[r]
      BY <1>4, <2>3
    <3> HIDE DEF r
    <3>2. CASE \E p \in 1..i : R(k) = SX[p]
      <4>1. PICK p \in 1..i : R(k) = SX[p]
        BY <3>2
      <4>2. KX[p] <= KY[r] /\ p \in 1..nX /\ r \in 1..nY
        BY <1>3, <3>1 DEF Ahead
      <4> QED BY <3>1, <4>1, <4>2, OrderOfElements
    <3>3. CASE \E q \in 1..j : R(k) = SY[q]
      <4>1. PICK q \in 1..j : R(k) = SY[q]
        BY <3>3
      <4>2. q < r /\ q \in 1..nY /\ r \in 1..nY
        BY <1>3, <3>1 DEF Ahead
      <4> QED BY <3>1, <4>1, <4>2, OrderOfElements
    <3>4. k \in 1..(i + j)
      BY <2>3
    <3> QED BY <1>1, <3>2, <3>3, <3>4
  <2> QED BY <2>1, <2>2, <2>3
<1> QED BY <1>3, <1>5, <1>6, <1>7, <1>8 DEF Written, R

(* What has been taken, when more is. *)
LEMMA AheadX ==
  ASSUME merge_call \in MergeCalls, NEW i \in Nat, NEW j \in Nat, NEW n \in Nat,
         i + n <= nX, j <= nY, Ahead(i, j),
         n > 0 /\ j < nY => KX[i + n] <= KY[j + 1]
  PROVE  Ahead(i + n, j)
<1>1. /\ nX \in Nat /\ nY \in Nat
      /\ \A p \in 1..nX : KX[p] \in Int
      /\ \A q \in 1..nY : KY[q] \in Int
      /\ \A p, r \in 1..nX : p < r => KX[p] <= KX[r]
      /\ \A q, r \in 1..nY : q < r => KY[q] <= KY[r]
  BY CallShape, ElementsOf
<1>2. ASSUME NEW p \in 1..(i + n), NEW q \in (j + 1)..nY PROVE KX[p] <= KY[q]
  <2>1. CASE p <= i
    BY <2>1 DEF Ahead
  <2>2. CASE p > i
    <3>1. KX[p] <= KX[i + n] /\ KX[i + n] <= KY[j + 1] /\ KY[j + 1] <= KY[q]
      <4>1. p \in 1..nX /\ i + n \in 1..nX /\ (p < i + n \/ p = i + n)
        BY <1>1, <2>2
      <4>2. j + 1 \in 1..nY /\ q \in 1..nY /\ (j + 1 < q \/ j + 1 = q)
        BY <1>1, <2>2
      <4> QED BY <1>1, <4>1, <4>2, <2>2
    <3>2. KX[p] \in Int /\ KX[i + n] \in Int /\ KY[j + 1] \in Int /\ KY[q] \in Int
      BY <1>1, <2>2
    <3> QED BY <3>1, <3>2
  <2> QED BY <2>1, <2>2
<1>3. ASSUME NEW q \in 1..j, NEW p \in (i + n + 1)..nX PROVE KY[q] < KX[p]
  BY <1>1 DEF Ahead
<1> QED BY <1>2, <1>3 DEF Ahead

LEMMA AheadY ==
  ASSUME merge_call \in MergeCalls, NEW i \in Nat, NEW j \in Nat, NEW n \in Nat,
         i <= nX, j + n <= nY, Ahead(i, j),
         n > 0 /\ i < nX => KY[j + n] < KX[i + 1]
  PROVE  Ahead(i, j + n)
<1>1. /\ nX \in Nat /\ nY \in Nat
      /\ \A p \in 1..nX : KX[p] \in Int
      /\ \A q \in 1..nY : KY[q] \in Int
      /\ \A p, r \in 1..nX : p < r => KX[p] <= KX[r]
      /\ \A q, r \in 1..nY : q < r => KY[q] <= KY[r]
  BY CallShape, ElementsOf
<1>2. ASSUME NEW q \in 1..(j + n), NEW p \in (i + 1)..nX PROVE KY[q] < KX[p]
  <2>1. CASE q <= j
    BY <2>1 DEF Ahead
  <2>2. CASE q > j
    <3>1. KY[q] <= KY[j + n] /\ KY[j + n] < KX[i + 1] /\ KX[i + 1] <= KX[p]
      <4>1. q \in 1..nY /\ j + n \in 1..nY /\ (q < j + n \/ q = j + n)
        BY <1>1, <2>2
      <4>2. i + 1 \in 1..nX /\ p \in 1..nX /\ (i + 1 < p \/ i + 1 = p)
        BY <1>1, <2>2
      <4> QED BY <1>1, <4>1, <4>2, <2>2
    <3>2. KY[q] \in Int /\ KY[j + n] \in Int /\ KX[i + 1] \in Int /\ KX[p] \in Int
      BY <1>1, <2>2
    <3> QED BY <3>1, <3>2
  <2> QED BY <2>1, <2>2
<1>3. ASSUME NEW p \in 1..i, NEW q \in (j + n + 1)..nY PROVE KX[p] <= KY[q]
  BY <1>1 DEF Ahead
<1> QED BY <1>2, <1>3 DEF Ahead

-----------------------------------------------------------------------------
(* What the invariant says of the memory and the pointers. *)

LEMMA SameCall ==
  ASSUME merge_call' = merge_call
  PROVE  /\ Kernel' = Kernel /\ Fills' = Fills
         /\ KX' = KX /\ KY' = KY /\ nX' = nX /\ nY' = nY /\ SX' = SX /\ SY' = SY
         /\ n1' = n1 /\ n2' = n2 /\ Origin' = Origin /\ YStart' = YStart /\ MemSize' = MemSize
         /\ \A k : Spot(k)' = Spot(k)
         /\ \A e, f : Earlier(e, f)' = Earlier(e, f)
  BY DEF Kernel, Fills, KX, KY, nX, nY, SX, SY, n1, n2, Origin, YStart, MemSize, Spot, Earlier

(* The invariant after a step, from what it needs of the call before it. *)
LEMMA Preserved ==
  ASSUME MergeInv, merge_call' = merge_call, Pointing', DOMAIN mem' = 1..MemSize,
         merge_pc' # "done" =>
           /\ \A p \in (TookX' + 1)..nX : mem'[end_x' - nX - 1 + p] = SX[p]
           /\ \A q \in (TookY' + 1)..nY : mem'[YStart - 1 + q] = SY[q]
           /\ Written(mem', TookX', TookY')
           /\ Ahead(TookX', TookY'),
         merge_pc' = "done" => Written(mem', nX, nY),
         \A p \in Gaps : mem'[p] = Vacant
  PROVE  MergeInv'
<1>1. Gaps' = Gaps
  BY SameCall DEF Gaps
<1>2. merge_call' \in MergeCalls
  BY DEF MergeInv
<1>3. GapsFree(mem)'
  BY <1>1 DEF GapsFree
<1>4. ASSUME merge_pc' # "done" PROVE UnreadX(mem)' /\ UnreadY(mem)'
  BY <1>4, SameCall DEF UnreadX, UnreadY
<1>5. ASSUME merge_pc' # "done" PROVE Written(mem, TookX, TookY)'
  <2>1. Written(mem', TookX', TookY')
    BY <1>5
  <2> QED BY <2>1, SameCall DEF Written
<1>6. ASSUME merge_pc' # "done" PROVE Ahead(TookX, TookY)'
  <2>1. Ahead(TookX', TookY')
    BY <1>6
  <2> QED BY <2>1, SameCall DEF Ahead
<1>7. ASSUME merge_pc' = "done" PROVE Written(mem, nX, nY)'
  <2>1. Written(mem', nX, nY)
    BY <1>7
  <2> QED BY <2>1, SameCall DEF Written
<1>8. (DOMAIN mem)' = (1..MemSize)'
  BY SameCall
<1> QED BY <1>2, <1>3, <1>4, <1>5, <1>6, <1>7, <1>8 DEF MergeInv

LEMMA Standing ==
  ASSUME MergeInv, merge_pc # "done"
  PROVE  /\ merge_call \in MergeCalls
         /\ Kernel \in {"merge", "half", "uncontiguous", "flow"}
         /\ n1 \in Nat /\ n2 \in Nat /\ nX \in Nat /\ nY \in Nat /\ n1 + n2 = nX + nY
         /\ x \in Int /\ end_x \in Int /\ y \in Int /\ end_y \in Int /\ out \in Int
         /\ TookX \in 0..nX /\ end_x - x = nX - TookX
         /\ TookY \in 0..nY /\ end_y - y = nY - TookY
         /\ y = YStart + TookY /\ end_y = YStart + nY
         /\ 1 <= x /\ x <= end_x /\ end_x <= MemSize + 1
         /\ 1 <= y /\ y <= end_y /\ end_y <= MemSize + 1 /\ nX < YStart
         /\ DOMAIN mem = 1..MemSize
         /\ YStart \in Nat /\ MemSize \in Nat
         /\ \A p \in x..(end_x - 1) : mem[p] = SX[TookX + 1 + (p - x)]
         /\ \A p \in y..(end_y - 1) : mem[p] = SY[TookY + 1 + (p - y)]
         /\ Written(mem, TookX, TookY) /\ Ahead(TookX, TookY)
<1>1. merge_call \in MergeCalls /\ Pointing /\ DOMAIN mem = 1..MemSize
  BY DEF MergeInv
<1>2. /\ Kernel \in {"merge", "half", "uncontiguous", "flow"}
      /\ n1 \in Nat /\ n2 \in Nat /\ nX \in Nat /\ nY \in Nat /\ n1 + n2 = nX + nY
      /\ YStart \in Nat /\ MemSize \in Nat
      /\ nX < YStart /\ YStart + nY - 1 <= MemSize
  BY <1>1, CallShape, Spots, LayoutIs
<1>3. /\ x \in Int /\ end_x \in Int /\ y \in Int /\ end_y \in Int /\ out \in Int
      /\ x <= end_x /\ end_x - x <= nX /\ y <= end_y /\ end_y - y <= nY
      /\ end_y = YStart + nY
  BY <1>1 DEF Pointing
<1>4. /\ TookX \in 0..nX /\ end_x - x = nX - TookX
      /\ TookY \in 0..nY /\ end_y - y = nY - TookY
      /\ y = YStart + TookY
  BY <1>2, <1>3 DEF TookX, TookY
<1>5. 1 <= x /\ end_x <= MemSize + 1
  <2>1. \/ x >= n1 + n2 + 3 /\ end_x <= MemSize + 1
        \/ end_x = nX + 1
    BY <1>1 DEF Pointing
  <2> QED BY <1>2, <1>3, <1>4, <2>1
<1>6. UnreadX(mem) /\ UnreadY(mem) /\ Written(mem, TookX, TookY) /\ Ahead(TookX, TookY)
  BY DEF MergeInv
<1>7. ASSUME NEW p \in x..(end_x - 1) PROVE mem[p] = SX[TookX + 1 + (p - x)]
  <2>1. /\ TookX + 1 + (p - x) \in (TookX + 1)..nX
        /\ end_x - nX - 1 + (TookX + 1 + (p - x)) = p
    BY <1>2, <1>3, <1>4
  <2>2. mem[end_x - nX - 1 + (TookX + 1 + (p - x))] = SX[TookX + 1 + (p - x)]
    BY <1>6, <2>1 DEF UnreadX
  <2> QED BY <2>1, <2>2
<1>8. ASSUME NEW p \in y..(end_y - 1) PROVE mem[p] = SY[TookY + 1 + (p - y)]
  <2>1. /\ TookY + 1 + (p - y) \in (TookY + 1)..nY
        /\ YStart - 1 + (TookY + 1 + (p - y)) = p
    BY <1>2, <1>3, <1>4
  <2>2. mem[YStart - 1 + (TookY + 1 + (p - y))] = SY[TookY + 1 + (p - y)]
    BY <1>6, <2>1 DEF UnreadY
  <2> QED BY <2>1, <2>2
<1>9. 1 <= y /\ y <= end_y /\ end_y <= MemSize + 1
  BY <1>2, <1>3, <1>4
<1> QED BY <1>1, <1>2, <1>3, <1>4, <1>5, <1>6, <1>7, <1>8, <1>9

(* What the comparisons of the code compare. *)
LEMMA Comparisons ==
  ASSUME MergeInv, merge_pc # "done"
  PROVE  /\ x # end_x /\ y # end_y =>
              /\ comp(y, x) <=> KY[TookY + 1] < KX[TookX + 1]
              /\ comp(y, end_x - 1) <=> KY[TookY + 1] < KX[nX]
              /\ comp(end_y - 1, x) <=> KY[nY] < KX[TookX + 1]
         /\ x = end_x <=> TookX = nX
         /\ y = end_y <=> TookY = nY
<1>1. /\ nX \in Nat /\ nY \in Nat
      /\ x \in Int /\ end_x \in Int /\ y \in Int /\ end_y \in Int
      /\ TookX \in 0..nX /\ end_x - x = nX - TookX
      /\ TookY \in 0..nY /\ end_y - y = nY - TookY
  BY Standing
<1>2. x = end_x <=> TookX = nX
  BY <1>1
<1>3. y = end_y <=> TookY = nY
  BY <1>1
<1>4. ASSUME x # end_x, y # end_y
      PROVE  /\ comp(y, x) <=> KY[TookY + 1] < KX[TookX + 1]
             /\ comp(y, end_x - 1) <=> KY[TookY + 1] < KX[nX]
             /\ comp(end_y - 1, x) <=> KY[nY] < KX[TookX + 1]
  <2>1. /\ x \in x..(end_x - 1) /\ end_x - 1 \in x..(end_x - 1)
        /\ y \in y..(end_y - 1) /\ end_y - 1 \in y..(end_y - 1)
        /\ TookX + 1 + (x - x) = TookX + 1 /\ TookX + 1 + (end_x - 1 - x) = nX
        /\ TookY + 1 + (y - y) = TookY + 1 /\ TookY + 1 + (end_y - 1 - y) = nY
        /\ TookX + 1 \in 1..nX /\ nX \in 1..nX /\ TookY + 1 \in 1..nY /\ nY \in 1..nY
    BY <1>1, <1>4
  <2>2. /\ mem[x] = SX[TookX + 1] /\ mem[end_x - 1] = SX[nX]
        /\ mem[y] = SY[TookY + 1] /\ mem[end_y - 1] = SY[nY]
    <3>1. \A p \in x..(end_x - 1) : mem[p] = SX[TookX + 1 + (p - x)]
      BY Standing
    <3>2. \A p \in y..(end_y - 1) : mem[p] = SY[TookY + 1 + (p - y)]
      BY Standing
    <3>3. mem[x] = SX[TookX + 1 + (x - x)] /\ mem[end_x - 1] = SX[TookX + 1 + (end_x - 1 - x)]
      BY <2>1, <3>1
    <3>4. mem[y] = SY[TookY + 1 + (y - y)] /\ mem[end_y - 1] = SY[TookY + 1 + (end_y - 1 - y)]
      BY <2>1, <3>2
    <3> QED BY <2>1, <3>3, <3>4, Zenon
  <2>3. /\ SX[TookX + 1].key = KX[TookX + 1] /\ SX[nX].key = KX[nX]
        /\ SY[TookY + 1].key = KY[TookY + 1] /\ SY[nY].key = KY[nY]
    BY <2>1, Standing, ElementsOf
  <2> QED BY <2>2, <2>3 DEF comp
<1> QED BY <1>2, <1>3, <1>4

(* Where the merges that go on until both are empty write. *)
LEMMA WhereOut ==
  ASSUME MergeInv, merge_pc \in {"check", "merge"}
  PROVE  /\ \A d \in Nat : Spot(TookX + TookY + 1 + d) = out + d
         /\ \A k \in 1..(TookX + TookY) : Spot(k) < out
         /\ n1 < out /\ out + (end_x - x) + (end_y - y) <= MemSize + 1
         /\ Kernel = "merge" => end_y <= out
         /\ Kernel # "merge" => y = out + (end_x - x)
         /\ end_x <= out \/ out + (end_x - x) + (end_y - y) <= x
         /\ \A p \in Gaps : p < out \/ out + (end_x - x) + (end_y - y) <= p
<1>1. /\ Pointing /\ merge_pc # "done"
  BY DEF MergeInv
<1>2. /\ merge_call \in MergeCalls
      /\ Kernel \in {"merge", "half", "uncontiguous", "flow"}
      /\ n1 \in Nat /\ n2 \in Nat /\ nX \in Nat /\ nY \in Nat /\ n1 + n2 = nX + nY
      /\ x \in Int /\ end_x \in Int /\ y \in Int /\ end_y \in Int /\ out \in Int
      /\ TookX \in 0..nX /\ end_x - x = nX - TookX
      /\ TookY \in 0..nY /\ end_y - y = nY - TookY
  BY <1>1, Standing
<1>3. /\ Fills => TookX + TookY >= n1
      /\ out = Spot(TookX + TookY + 1)
      /\ Kernel # "merge" => y = out + (end_x - x)
  BY <1>1 DEF Pointing
<1>4. /\ Kernel = "flow" => n1 = n2 /\ nX = n2 /\ nY = n1
      /\ Kernel # "flow" => nX = n1 /\ nY = n2
  BY <1>2, CallShape
<1>5. \A d \in Nat : Spot(TookX + TookY + 1 + d) = out + d
  BY <1>2, <1>3, Spots DEF Spot
<1>6. \A k \in 1..(TookX + TookY) : Spot(k) < out
  BY <1>2, <1>3, Spots
<1>7. out = Origin + (TookX + TookY + 1) + (IF Fills THEN 1 ELSE 0)
  <2>1. Spot(TookX + TookY + 1) =
          Origin + (TookX + TookY + 1) + (IF Fills /\ TookX + TookY + 1 > n1 THEN 1 ELSE 0)
    BY DEF Spot
  <2>2. Fills => TookX + TookY + 1 > n1
    BY <1>2, <1>3
  <2> QED BY <1>3, <2>1, <2>2
<1>8. n1 < out /\ out + (end_x - x) + (end_y - y) <= MemSize + 1
  <2>1. CASE Fills
    <3>1. TookX + TookY + 1 > n1
      BY <1>2, <1>3, <2>1
    <3> QED BY <1>2, <1>4, <1>7, <2>1, <3>1 DEF Origin, Fills, MemSize
  <2>2. CASE ~Fills
    BY <1>2, <1>4, <1>7, <2>2 DEF Origin, Fills, MemSize
  <2> QED BY <2>1, <2>2
<1>9. end_y = YStart + nY
  BY <1>1 DEF Pointing
<1>10. Kernel = "merge" => end_y <= out
  BY <1>2, <1>4, <1>7, <1>9 DEF Origin, Fills, YStart
<1>11. end_x <= out \/ out + (end_x - x) + (end_y - y) <= x
  <2>1. CASE Kernel = "uncontiguous"
    <3>1. x >= n1 + n2 + 3
      BY <1>1, <2>1 DEF Pointing
    <3> QED BY <1>2, <1>7, <2>1, <3>1 DEF Origin, Fills
  <2>2. CASE Kernel # "uncontiguous"
    <3>1. end_x = nX + 1
      BY <1>1, <2>2 DEF Pointing
    <3> QED BY <1>2, <1>4, <1>7, <2>2, <3>1 DEF Origin, Fills
  <2> QED BY <2>1, <2>2
<1>12. ASSUME NEW p \in Gaps PROVE p < out \/ out + (end_x - x) + (end_y - y) <= p
  <2>1. (p = n1 + 1 \/ p = n1 + n2 + 2) /\ p <= MemSize
    BY <1>2, Spots DEF Gaps
  <2>2. \A k \in 1..(n1 + n2) : p # Spot(k)
    BY DEF Gaps
  <2>3. CASE p = n1 + 1
    BY <1>2, <1>3, <1>4, <1>7, <2>3 DEF Origin, Fills
  <2>4. CASE p = n1 + n2 + 2
    <3>1. CASE Kernel \in {"merge", "flow"}
      BY <1>2, <1>3, <1>4, <1>7, <2>4, <3>1 DEF Origin, Fills
    <3>2. CASE Kernel = "half"
      <4>1. p <= 2 * n1 + n2 + 1
        BY <2>1, <3>2 DEF MemSize
      <4>2. n2 + 1 \in 1..(n1 + n2)
        BY <1>2, <2>4, <4>1
      <4>3. Spot(n2 + 1) = p
        BY <1>2, <2>4, <3>2 DEF Spot, Origin, Fills
      <4> QED BY <2>2, <4>2, <4>3
    <3>3. CASE Kernel = "uncontiguous"
      BY <1>2, <1>3, <1>4, <1>7, <2>4, <3>3 DEF Origin, Fills
    <3> QED BY <1>2, <3>1, <3>2, <3>3
  <2> QED BY <2>1, <2>3, <2>4
<1> QED BY <1>3, <1>5, <1>6, <1>8, <1>10, <1>11, <1>12

-----------------------------------------------------------------------------
(* The rest of one sequence, then of the other. *)

LEMMA XThenY ==
  ASSUME MergeInv, merge_pc \in {"check", "merge"}, NEW m,
         \A p \in 1..MemSize : p < out => m[p] = mem[p],
         \A d \in 0..(end_x - x - 1) : m[out + d] = SX[TookX + 1 + d],
         \A d \in 0..(end_y - y - 1) : m[out + (end_x - x) + d] = SY[TookY + 1 + d],
         x # end_x /\ y # end_y => KX[nX] <= KY[TookY + 1]
  PROVE  Written(m, nX, nY)
<1>1. merge_pc # "done"
  OBVIOUS
<1>2. /\ merge_call \in MergeCalls /\ nX \in Nat /\ nY \in Nat /\ n1 + n2 = nX + nY
      /\ x \in Int /\ end_x \in Int /\ y \in Int /\ end_y \in Int /\ out \in Int
      /\ TookX \in 0..nX /\ end_x - x = nX - TookX
      /\ TookY \in 0..nY /\ end_y - y = nY - TookY
      /\ Written(mem, TookX, TookY) /\ Ahead(TookX, TookY)
  BY <1>1, Standing
<1> DEFINE n == end_x - x
           r == end_y - y
<1>3. /\ n \in Nat /\ r \in Nat /\ TookX \in Nat /\ TookY \in Nat
      /\ TookX + n = nX /\ TookY + r = nY
      /\ TookX <= nX /\ TookY <= nY
      /\ TookX + TookY + n <= n1 + n2
  BY <1>2
<1>4. /\ n > 0 => x # end_x
      /\ TookY < nY => y # end_y
  BY <1>2
<1>5. TookX + n <= nX /\ TookY + r <= nY /\ nX <= nX
  BY <1>2
<1>6. \A d \in 0..(n - 1) : m[out + d] = SX[TookX + 1 + d]
  OBVIOUS
<1>7. \A d \in 0..(r - 1) : m[out + n + d] = SY[TookY + 1 + d]
  OBVIOUS
<1>8. /\ \A d \in Nat : Spot(TookX + TookY + 1 + d) = out + d
      /\ \A k \in 1..(TookX + TookY) : Spot(k) < out
  BY WhereOut
<1>9. \A k \in 1..(n1 + n2) : Spot(k) \in 1..MemSize
  BY <1>2, Spots
<1> HIDE DEF n, r
<1>10. \A k \in 1..(TookX + TookY) : m[Spot(k)] = mem[Spot(k)]
  <2> SUFFICES ASSUME NEW k \in 1..(TookX + TookY) PROVE m[Spot(k)] = mem[Spot(k)]
    OBVIOUS
  <2>1. k \in 1..(n1 + n2)
    BY <1>2, <1>3
  <2> QED BY <1>8, <1>9, <2>1
<1>11. ASSUME NEW d \in 1..n PROVE m[Spot(TookX + TookY + d)] = SX[TookX + d]
  <2>1. d - 1 \in Nat /\ d - 1 \in 0..(n - 1)
    BY <1>3
  <2>2. TookX + TookY + 1 + (d - 1) = TookX + TookY + d /\ TookX + 1 + (d - 1) = TookX + d
    BY <1>3
  <2>3. Spot(TookX + TookY + 1 + (d - 1)) = out + (d - 1)
    BY <1>8, <2>1
  <2>4. m[out + (d - 1)] = SX[TookX + 1 + (d - 1)]
    BY <1>6, <2>1
  <2> QED BY <2>2, <2>3, <2>4
<1>12. Written(m, nX, TookY)
  <2>1. Written(m, TookX + n, TookY)
    BY <1>2, <1>3, <1>5, <1>10, <1>11, AppendX, Zenon
  <2> QED BY <1>3, <2>1
<1>13. Ahead(nX, TookY)
  <2>1. n > 0 /\ TookY < nY => KX[TookX + n] <= KY[TookY + 1]
    BY <1>4, <1>3
  <2>2. Ahead(TookX + n, TookY)
    BY <1>2, <1>3, <1>5, <2>1, AheadX, Zenon
  <2> QED BY <1>3, <2>2
<1>14. ASSUME NEW d \in 1..r PROVE m[Spot(nX + TookY + d)] = SY[TookY + d]
  <2>1. d - 1 \in 0..(r - 1) /\ n + (d - 1) \in Nat
    BY <1>3
  <2>2. /\ TookX + TookY + 1 + (n + (d - 1)) = nX + TookY + d
        /\ TookY + 1 + (d - 1) = TookY + d
        /\ out + (n + (d - 1)) = out + n + (d - 1)
    BY <1>2, <1>3
  <2>3. Spot(TookX + TookY + 1 + (n + (d - 1))) = out + (n + (d - 1))
    BY <1>8, <2>1
  <2>4. m[out + n + (d - 1)] = SY[TookY + 1 + (d - 1)]
    BY <1>7, <2>1
  <2> QED BY <2>2, <2>3, <2>4
<1>15. Written(m, nX, TookY + r)
  BY <1>2, <1>3, <1>5, <1>12, <1>13, <1>14, AppendY, Zenon
<1> QED BY <1>3, <1>15

LEMMA YThenX ==
  ASSUME MergeInv, merge_pc \in {"check", "merge"}, NEW m,
         \A p \in 1..MemSize : p < out => m[p] = mem[p],
         \A d \in 0..(end_y - y - 1) : m[out + d] = SY[TookY + 1 + d],
         \A d \in 0..(end_x - x - 1) : m[out + (end_y - y) + d] = SX[TookX + 1 + d],
         x # end_x /\ y # end_y => KY[nY] < KX[TookX + 1]
  PROVE  Written(m, nX, nY)
<1>1. merge_pc # "done"
  OBVIOUS
<1>2. /\ merge_call \in MergeCalls /\ nX \in Nat /\ nY \in Nat /\ n1 + n2 = nX + nY
      /\ x \in Int /\ end_x \in Int /\ y \in Int /\ end_y \in Int /\ out \in Int
      /\ TookX \in 0..nX /\ end_x - x = nX - TookX
      /\ TookY \in 0..nY /\ end_y - y = nY - TookY
      /\ Written(mem, TookX, TookY) /\ Ahead(TookX, TookY)
  BY <1>1, Standing
<1> DEFINE n == end_y - y
           r == end_x - x
<1>3. /\ n \in Nat /\ r \in Nat /\ TookX \in Nat /\ TookY \in Nat
      /\ TookY + n = nY /\ TookX + r = nX
      /\ TookX <= nX /\ TookY <= nY
      /\ TookX + TookY + n <= n1 + n2
  BY <1>2
<1>4. /\ n > 0 => y # end_y
      /\ TookX < nX => x # end_x
  BY <1>2
<1>5. TookY + n <= nY /\ TookX + r <= nX /\ nY <= nY
  BY <1>2
<1>6. \A d \in 0..(n - 1) : m[out + d] = SY[TookY + 1 + d]
  OBVIOUS
<1>7. \A d \in 0..(r - 1) : m[out + n + d] = SX[TookX + 1 + d]
  OBVIOUS
<1>8. /\ \A d \in Nat : Spot(TookX + TookY + 1 + d) = out + d
      /\ \A k \in 1..(TookX + TookY) : Spot(k) < out
  BY WhereOut
<1>9. \A k \in 1..(n1 + n2) : Spot(k) \in 1..MemSize
  BY <1>2, Spots
<1> HIDE DEF n, r
<1>10. \A k \in 1..(TookX + TookY) : m[Spot(k)] = mem[Spot(k)]
  <2> SUFFICES ASSUME NEW k \in 1..(TookX + TookY) PROVE m[Spot(k)] = mem[Spot(k)]
    OBVIOUS
  <2>1. k \in 1..(n1 + n2)
    BY <1>2, <1>3
  <2> QED BY <1>8, <1>9, <2>1
<1>11. ASSUME NEW d \in 1..n PROVE m[Spot(TookX + TookY + d)] = SY[TookY + d]
  <2>1. d - 1 \in Nat /\ d - 1 \in 0..(n - 1)
    BY <1>3
  <2>2. TookX + TookY + 1 + (d - 1) = TookX + TookY + d /\ TookY + 1 + (d - 1) = TookY + d
    BY <1>3
  <2>3. Spot(TookX + TookY + 1 + (d - 1)) = out + (d - 1)
    BY <1>8, <2>1
  <2>4. m[out + (d - 1)] = SY[TookY + 1 + (d - 1)]
    BY <1>6, <2>1
  <2> QED BY <2>2, <2>3, <2>4
<1>12. Written(m, TookX, nY)
  <2>1. Written(m, TookX, TookY + n)
    BY <1>2, <1>3, <1>5, <1>10, <1>11, AppendY, Zenon
  <2> QED BY <1>3, <2>1
<1>13. Ahead(TookX, nY)
  <2>1. n > 0 /\ TookX < nX => KY[TookY + n] < KX[TookX + 1]
    BY <1>4, <1>3
  <2>2. Ahead(TookX, TookY + n)
    BY <1>2, <1>3, <1>5, <2>1, AheadY, Zenon
  <2> QED BY <1>3, <2>2
<1>14. ASSUME NEW d \in 1..r PROVE m[Spot(TookX + nY + d)] = SX[TookX + d]
  <2>1. d - 1 \in 0..(r - 1) /\ n + (d - 1) \in Nat
    BY <1>3
  <2>2. /\ TookX + TookY + 1 + (n + (d - 1)) = TookX + nY + d
        /\ TookX + 1 + (d - 1) = TookX + d
        /\ out + (n + (d - 1)) = out + n + (d - 1)
    BY <1>2, <1>3
  <2>3. Spot(TookX + TookY + 1 + (n + (d - 1))) = out + (n + (d - 1))
    BY <1>8, <2>1
  <2>4. m[out + n + (d - 1)] = SX[TookX + 1 + (d - 1)]
    BY <1>7, <2>1
  <2> QED BY <2>2, <2>3, <2>4
<1>15. Written(m, TookX + r, nY)
  BY <1>2, <1>3, <1>5, <1>12, <1>13, <1>14, AppendX, Zenon
<1> QED BY <1>3, <1>15

(* A merge that ends with this step, having written nothing but the rest. *)
LEMMA Finished ==
  ASSUME MergeInv, merge_pc \in {"check", "merge"}, merge_pc' = "done",
         UNCHANGED <<merge_call, Pointers>>, DOMAIN mem' = 1..MemSize,
         \A p \in 1..MemSize :
           p < out \/ out + (end_x - x) + (end_y - y) <= p => mem'[p] = mem[p],
         Written(mem', nX, nY)
  PROVE  MergeInv'
<1>1. Pointing'
  BY SameCall DEF MergeInv, Pointing, Pointers
<1>2. \A p \in Gaps : mem'[p] = Vacant
  <2> SUFFICES ASSUME NEW p \in Gaps PROVE mem'[p] = Vacant
    OBVIOUS
  <2>1. p < out \/ out + (end_x - x) + (end_y - y) <= p
    BY WhereOut
  <2>2. p \in 1..MemSize /\ mem[p] = Vacant
    BY DEF Gaps, MergeInv, GapsFree
  <2> QED BY <2>1, <2>2
<1>3. merge_call' = merge_call
  OBVIOUS
<1> QED BY <1>1, <1>2, <1>3, Preserved

-----------------------------------------------------------------------------
(* merge and merge_half. *)

(* One sequence moved to its place ... *)
LEMMA MovedX ==
  ASSUME MergeInv, merge_pc \in {"check", "merge"},
         NEW dst \in Int, dst = out \/ dst = out + (end_y - y), NEW m,
         DOMAIN m = 1..MemSize, \A p \in x..(end_x - 1) : m[p] = mem[p]
  PROVE  /\ DOMAIN Moved(m, dst, x, end_x) = 1..MemSize
         /\ \A p \in 1..MemSize : p < dst \/ dst + (end_x - x) <= p =>
              Moved(m, dst, x, end_x)[p] = m[p]
         /\ \A d \in 0..((end_x - x) - 1) :
              Moved(m, dst, x, end_x)[dst + d] = SX[TookX + 1 + d]
<1>1. merge_pc # "done"
  OBVIOUS
<1>2. /\ x \in Int /\ end_x \in Int /\ y \in Int /\ end_y \in Int /\ out \in Int
      /\ x <= end_x /\ y <= end_y /\ MemSize \in Nat
      /\ \A p \in x..(end_x - 1) : mem[p] = SX[TookX + 1 + (p - x)]
      /\ n1 \in Nat
  BY <1>1, Standing
<1>3. n1 < out /\ out + (end_x - x) + (end_y - y) <= MemSize + 1
  BY WhereOut
<1> DEFINE M == Moved(m, dst, x, end_x)
<1>4. /\ DOMAIN M = 1..MemSize
      /\ \A p \in 1..MemSize : p \in dst..(dst + end_x - x - 1) => M[p] = m[x + p - dst]
      /\ \A p \in 1..MemSize : p \notin dst..(dst + end_x - x - 1) => M[p] = m[p]
  BY <1>2 DEF Moved
<1> HIDE DEF M
<1>5. ASSUME NEW p \in 1..MemSize, p < dst \/ dst + (end_x - x) <= p PROVE M[p] = m[p]
  BY <1>2, <1>4, <1>5
<1>6. ASSUME NEW d \in 0..((end_x - x) - 1) PROVE M[dst + d] = SX[TookX + 1 + d]
  <2> /\ x \in Int /\ end_x \in Int /\ dst \in Int /\ d \in Int /\ MemSize \in Nat
      /\ 0 <= d /\ d < end_x - x /\ 1 <= dst /\ dst + (end_x - x) <= MemSize + 1
    BY <1>2, <1>3
  <2>1. /\ dst + d \in 1..MemSize /\ dst + d \in dst..(dst + end_x - x - 1)
        /\ x + (dst + d) - dst = x + d
        /\ x + d \in x..(end_x - 1) /\ (x + d) - x = d
    OBVIOUS
  <2>2. M[dst + d] = m[x + (dst + d) - dst]
    BY <1>4, <2>1
  <2>3. m[x + d] = mem[x + d] /\ mem[x + d] = SX[TookX + 1 + ((x + d) - x)]
    BY <1>2, <2>1
  <2> QED BY <2>1, <2>2, <2>3
<1> QED BY <1>4, <1>5, <1>6 DEF M

LEMMA MovedY ==
  ASSUME MergeInv, merge_pc \in {"check", "merge"},
         NEW dst \in Int, dst = out \/ dst = out + (end_x - x), NEW m,
         DOMAIN m = 1..MemSize, \A p \in y..(end_y - 1) : m[p] = mem[p]
  PROVE  /\ DOMAIN Moved(m, dst, y, end_y) = 1..MemSize
         /\ \A p \in 1..MemSize : p < dst \/ dst + (end_y - y) <= p =>
              Moved(m, dst, y, end_y)[p] = m[p]
         /\ \A d \in 0..((end_y - y) - 1) :
              Moved(m, dst, y, end_y)[dst + d] = SY[TookY + 1 + d]
<1>1. merge_pc # "done"
  OBVIOUS
<1>2. /\ x \in Int /\ end_x \in Int /\ y \in Int /\ end_y \in Int /\ out \in Int
      /\ x <= end_x /\ y <= end_y /\ MemSize \in Nat
      /\ \A p \in y..(end_y - 1) : mem[p] = SY[TookY + 1 + (p - y)]
      /\ n1 \in Nat
  BY <1>1, Standing
<1>3. n1 < out /\ out + (end_x - x) + (end_y - y) <= MemSize + 1
  BY WhereOut
<1> DEFINE M == Moved(m, dst, y, end_y)
<1>4. /\ DOMAIN M = 1..MemSize
      /\ \A p \in 1..MemSize : p \in dst..(dst + end_y - y - 1) => M[p] = m[y + p - dst]
      /\ \A p \in 1..MemSize : p \notin dst..(dst + end_y - y - 1) => M[p] = m[p]
  BY <1>2 DEF Moved
<1> HIDE DEF M
<1>5. ASSUME NEW p \in 1..MemSize, p < dst \/ dst + (end_y - y) <= p PROVE M[p] = m[p]
  BY <1>2, <1>4, <1>5
<1>6. ASSUME NEW d \in 0..((end_y - y) - 1) PROVE M[dst + d] = SY[TookY + 1 + d]
  <2> /\ y \in Int /\ end_y \in Int /\ dst \in Int /\ d \in Int /\ MemSize \in Nat
      /\ 0 <= d /\ d < end_y - y /\ 1 <= dst /\ dst + (end_y - y) <= MemSize + 1
    BY <1>2, <1>3
  <2>1. /\ dst + d \in 1..MemSize /\ dst + d \in dst..(dst + end_y - y - 1)
        /\ y + (dst + d) - dst = y + d
        /\ y + d \in y..(end_y - 1) /\ (y + d) - y = d
    OBVIOUS
  <2>2. M[dst + d] = m[y + (dst + d) - dst]
    BY <1>4, <2>1
  <2>3. m[y + d] = mem[y + d] /\ mem[y + d] = SY[TookY + 1 + ((y + d) - y)]
    BY <1>2, <2>1
  <2> QED BY <2>1, <2>2, <2>3
<1> QED BY <1>4, <1>5, <1>6 DEF M

(* ... and the two ways of moving both. *)
LEMMA XFirstIs ==
  ASSUME MergeInv, merge_pc \in {"check", "merge"},
         x # end_x /\ y # end_y => KX[nX] <= KY[TookY + 1]
  PROVE  /\ DOMAIN XFirst = 1..MemSize
         /\ \A p \in 1..MemSize :
              p < out \/ out + (end_x - x) + (end_y - y) <= p => XFirst[p] = mem[p]
         /\ Written(XFirst, nX, nY)
<1>1. merge_pc # "done"
  OBVIOUS
<1>2. /\ x \in Int /\ end_x \in Int /\ y \in Int /\ end_y \in Int /\ out \in Int
      /\ x <= end_x /\ y <= end_y /\ MemSize \in Nat /\ DOMAIN mem = 1..MemSize
      /\ 1 <= y /\ end_y <= MemSize + 1
      /\ \A p \in y..(end_y - 1) : mem[p] = SY[TookY + 1 + (p - y)]
  BY <1>1, Standing
<1>3. /\ Kernel = "merge" => end_y <= out
      /\ Kernel # "merge" => y = out + (end_x - x)
  BY WhereOut
<1> DEFINE m == Moved(mem, out, x, end_x)
           dst == out + end_x - x
<1>4. /\ DOMAIN m = 1..MemSize
      /\ \A p \in 1..MemSize : p < out \/ out + (end_x - x) <= p => m[p] = mem[p]
      /\ \A d \in 0..((end_x - x) - 1) : m[out + d] = SX[TookX + 1 + d]
  BY <1>2, MovedX
<1>5. \A p \in y..(end_y - 1) : m[p] = mem[p]
  BY <1>2, <1>3, <1>4
<1> HIDE DEF m
<1>6. dst \in Int /\ dst = out + (end_x - x)
  BY <1>2
<1> HIDE DEF dst
<1>7. CASE Kernel = "merge"
  <2> DEFINE M == Moved(m, dst, y, end_y)
  <2>1. /\ DOMAIN M = 1..MemSize
        /\ \A p \in 1..MemSize : p < dst \/ dst + (end_y - y) <= p => M[p] = m[p]
        /\ \A d \in 0..((end_y - y) - 1) : M[dst + d] = SY[TookY + 1 + d]
    BY <1>4, <1>5, <1>6, MovedY, Zenon
  <2>2. XFirst = M
    BY <1>7 DEF XFirst, Kernel, m, dst
  <2> HIDE DEF M
  <2>3. \A p \in 1..MemSize :
          p < out \/ out + (end_x - x) + (end_y - y) <= p => M[p] = mem[p]
    BY <1>2, <1>4, <1>6, <2>1
  <2>4. \A d \in 0..((end_x - x) - 1) : M[out + d] = SX[TookX + 1 + d]
    <3>1. n1 < out /\ n1 \in Nat /\ out + (end_x - x) + (end_y - y) <= MemSize + 1
      BY WhereOut, Standing
    <3>2. \A d \in 0..((end_x - x) - 1) : out + d \in 1..MemSize /\ out + d < dst
      BY <1>2, <1>6, <3>1
    <3> QED BY <1>4, <2>1, <3>2
  <2>5. \A d \in 0..((end_y - y) - 1) : M[out + (end_x - x) + d] = SY[TookY + 1 + d]
    BY <1>6, <2>1
  <2>6. \A p \in 1..MemSize : p < out => M[p] = mem[p]
    BY <2>3
  <2>7. Written(M, nX, nY)
    BY <2>4, <2>5, <2>6, XThenY
  <2> QED BY <2>1, <2>2, <2>3, <2>7
<1>8. CASE Kernel # "merge"
  <2>1. XFirst = m
    BY <1>8 DEF XFirst, Kernel, m
  <2>2. \A d \in 0..((end_y - y) - 1) : m[out + (end_x - x) + d] = SY[TookY + 1 + d]
    <3> SUFFICES ASSUME NEW d \in 0..((end_y - y) - 1)
                 PROVE  m[out + (end_x - x) + d] = SY[TookY + 1 + d]
      OBVIOUS
    <3>1. out + (end_x - x) + d = y + d /\ y + d \in y..(end_y - 1) /\ (y + d) - y = d
      BY <1>2, <1>3, <1>8
    <3>2. m[y + d] = SY[TookY + 1 + ((y + d) - y)]
      BY <1>2, <1>5, <3>1
    <3> QED BY <3>1, <3>2
  <2>3. \A p \in 1..MemSize : p < out => m[p] = mem[p]
    BY <1>4
  <2>4. Written(m, nX, nY)
    BY <1>4, <2>2, <2>3, XThenY
  <2>5. \A p \in 1..MemSize :
          p < out \/ out + (end_x - x) + (end_y - y) <= p => m[p] = mem[p]
    BY <1>2, <1>4
  <2> QED BY <1>4, <2>1, <2>4, <2>5
<1> QED BY <1>7, <1>8

LEMMA YFirstIs ==
  ASSUME MergeInv, merge_pc \in {"check", "merge"},
         x # end_x /\ y # end_y => KY[nY] < KX[TookX + 1]
  PROVE  /\ DOMAIN YFirst = 1..MemSize
         /\ \A p \in 1..MemSize :
              p < out \/ out + (end_x - x) + (end_y - y) <= p => YFirst[p] = mem[p]
         /\ Written(YFirst, nX, nY)
<1>1. merge_pc # "done"
  OBVIOUS
<1>2. /\ x \in Int /\ end_x \in Int /\ y \in Int /\ end_y \in Int /\ out \in Int
      /\ x <= end_x /\ y <= end_y /\ MemSize \in Nat /\ DOMAIN mem = 1..MemSize
      /\ 1 <= x /\ end_x <= MemSize + 1
  BY Standing
<1>3. end_x <= out \/ out + (end_x - x) + (end_y - y) <= x
  BY WhereOut
<1>4. n1 < out /\ n1 \in Nat /\ out + (end_x - x) + (end_y - y) <= MemSize + 1
  BY WhereOut, Standing
<1> DEFINE m == Moved(mem, out, y, end_y)
           dst == out + end_y - y
           M == Moved(m, dst, x, end_x)
<1>5. /\ DOMAIN m = 1..MemSize
      /\ \A p \in 1..MemSize : p < out \/ out + (end_y - y) <= p => m[p] = mem[p]
      /\ \A d \in 0..((end_y - y) - 1) : m[out + d] = SY[TookY + 1 + d]
  BY <1>2, MovedY
<1> HIDE DEF m
<1>6. \A p \in x..(end_x - 1) : m[p] = mem[p]
  BY <1>2, <1>3, <1>5
<1>7. dst \in Int /\ dst = out + (end_y - y)
  BY <1>2
<1> HIDE DEF dst
<1>8. /\ DOMAIN M = 1..MemSize
      /\ \A p \in 1..MemSize : p < dst \/ dst + (end_x - x) <= p => M[p] = m[p]
      /\ \A d \in 0..((end_x - x) - 1) : M[dst + d] = SX[TookX + 1 + d]
  BY <1>5, <1>6, <1>7, MovedX, Zenon
<1>9. YFirst = M
  BY DEF YFirst, m, dst
<1> HIDE DEF M
<1>10. \A p \in 1..MemSize :
        p < out \/ out + (end_x - x) + (end_y - y) <= p => M[p] = mem[p]
  BY <1>2, <1>5, <1>7, <1>8
<1>11. \A d \in 0..((end_y - y) - 1) : M[out + d] = SY[TookY + 1 + d]
  <2>1. \A d \in 0..((end_y - y) - 1) : out + d \in 1..MemSize /\ out + d < dst
    BY <1>2, <1>4, <1>7
  <2> QED BY <1>5, <1>8, <2>1
<1>12. \A d \in 0..((end_x - x) - 1) : M[out + (end_y - y) + d] = SX[TookX + 1 + d]
  BY <1>7, <1>8
<1>13. \A p \in 1..MemSize : p < out => M[p] = mem[p]
  BY <1>10
<1>14. Written(M, nX, nY)
  BY <1>11, <1>12, <1>13, YThenX
<1> QED BY <1>8, <1>9, <1>10, <1>14

LEMMA CheckStep ==
  ASSUME MergeInv, Check
  PROVE  MergeInv'
<1>1. merge_pc = "check" /\ merge_pc # "done" /\ merge_pc \in {"check", "merge"}
      /\ merge_call' = merge_call /\ UNCHANGED Pointers
  BY DEF Check
<1>2. /\ merge_call \in MergeCalls /\ DOMAIN mem = 1..MemSize
      /\ nX \in Nat /\ nY \in Nat /\ TookX \in 0..nX /\ TookY \in 0..nY
      /\ \A p \in 1..nX : KX[p] \in Int
      /\ \A q \in 1..nY : KY[q] \in Int
  BY <1>1, Standing, ElementsOf
<1>3. /\ x = end_x <=> TookX = nX
      /\ y = end_y <=> TookY = nY
      /\ x # end_x /\ y # end_y =>
           /\ comp(y, end_x - 1) <=> KY[TookY + 1] < KX[nX]
           /\ comp(end_y - 1, x) <=> KY[nY] < KX[TookX + 1]
  BY <1>1, Comparisons
<1>4. CASE merge_pc' = "merge" /\ mem' = mem
  <2>1. Pointing'
    BY <1>1, <1>4, SameCall DEF MergeInv, Pointing, Pointers, TookX, TookY
  <2>2. TookX' = TookX /\ TookY' = TookY /\ end_x' = end_x
    BY <1>1, SameCall DEF TookX, TookY, Pointers
  <2>3. UnreadX(mem) /\ UnreadY(mem) /\ Written(mem, TookX, TookY) /\ Ahead(TookX, TookY)
        /\ GapsFree(mem)
    BY <1>1 DEF MergeInv
  <2> QED BY <1>1, <1>2, <1>4, <2>1, <2>2, <2>3, Preserved DEF UnreadX, UnreadY, GapsFree
<1>5. CASE XBeforeY /\ Done(XFirst)
  <2>1. x # end_x /\ y # end_y => KX[nX] <= KY[TookY + 1]
    BY <1>2, <1>3, <1>5 DEF XBeforeY
  <2> QED BY <1>1, <1>5, <2>1, XFirstIs, Finished DEF Done
<1>6. CASE ~XBeforeY /\ YBeforeX /\ Done(YFirst)
  <2>1. KY[nY] < KX[TookX + 1]
    BY <1>3, <1>6 DEF XBeforeY, YBeforeX
  <2> QED BY <1>1, <1>6, <2>1, YFirstIs, Finished DEF Done
<1>7. \/ merge_pc' = "merge" /\ mem' = mem
      \/ XBeforeY /\ Done(XFirst)
      \/ ~XBeforeY /\ YBeforeX /\ Done(YFirst)
  BY DEF Check
<1> QED BY <1>4, <1>5, <1>6, <1>7

LEMMA MergeRestStep ==
  ASSUME MergeInv, MergeRest
  PROVE  MergeInv'
<1>1. /\ merge_pc = "merge" /\ merge_pc # "done" /\ merge_pc \in {"check", "merge"}
      /\ merge_call' = merge_call /\ UNCHANGED Pointers /\ merge_pc' = "done"
      /\ x = end_x \/ y = end_y
      /\ mem' = IF y = end_y THEN Moved(mem, out, x, end_x)
                ELSE IF merge_call.kernel = "merge" THEN Moved(mem, out, y, end_y)
                ELSE mem
  BY DEF MergeRest, Done
<1>2. /\ x \in Int /\ end_x \in Int /\ y \in Int /\ end_y \in Int /\ out \in Int
      /\ DOMAIN mem = 1..MemSize /\ MemSize \in Nat /\ y <= end_y
      /\ \A p \in y..(end_y - 1) : mem[p] = SY[TookY + 1 + (p - y)]
  BY <1>1, Standing
<1>3. /\ Kernel # "merge" => y = out + (end_x - x)
      /\ out + (end_x - x) + (end_y - y) <= MemSize + 1
  BY <1>1, WhereOut
<1>4. CASE y = end_y
  <2>1. /\ DOMAIN mem' = 1..MemSize
        /\ \A p \in 1..MemSize : p < out \/ out + (end_x - x) <= p => mem'[p] = mem[p]
        /\ \A d \in 0..((end_x - x) - 1) : mem'[out + d] = SX[TookX + 1 + d]
    BY <1>1, <1>2, <1>4, MovedX
  <2>2. out + (end_x - x) + (end_y - y) = out + (end_x - x)
    BY <1>2, <1>4
  <2>3. \A p \in 1..MemSize :
          p < out \/ out + (end_x - x) + (end_y - y) <= p => mem'[p] = mem[p]
    BY <2>1, <2>2
  <2>4. \A p \in 1..MemSize : p < out => mem'[p] = mem[p]
    BY <2>1
  <2>5. \A d \in 0..((end_y - y) - 1) : mem'[out + (end_x - x) + d] = SY[TookY + 1 + d]
    BY <1>2, <1>4
  <2>6. Written(mem', nX, nY)
    BY <1>1, <1>4, <2>1, <2>4, <2>5, XThenY
  <2> QED BY <1>1, <2>1, <2>3, <2>6, Finished
<1>5. CASE y # end_y /\ Kernel = "merge"
  <2>1. /\ DOMAIN mem' = 1..MemSize
        /\ \A p \in 1..MemSize : p < out \/ out + (end_y - y) <= p => mem'[p] = mem[p]
        /\ \A d \in 0..((end_y - y) - 1) : mem'[out + d] = SY[TookY + 1 + d]
    <3>1. mem' = Moved(mem, out, y, end_y)
      BY <1>1, <1>5 DEF Kernel
    <3> QED BY <1>1, <1>2, <3>1, MovedY
  <2>2. x = end_x /\ out + (end_x - x) + (end_y - y) = out + (end_y - y)
    BY <1>1, <1>2, <1>5
  <2>3. \A p \in 1..MemSize :
          p < out \/ out + (end_x - x) + (end_y - y) <= p => mem'[p] = mem[p]
    BY <2>1, <2>2
  <2>4. \A p \in 1..MemSize : p < out => mem'[p] = mem[p]
    BY <2>1
  <2>5. \A d \in 0..((end_x - x) - 1) : mem'[out + (end_y - y) + d] = SX[TookX + 1 + d]
    BY <1>2, <2>2
  <2>6. Written(mem', nX, nY)
    BY <1>1, <2>1, <2>2, <2>4, <2>5, YThenX
  <2> QED BY <1>1, <2>1, <2>3, <2>6, Finished
<1>6. CASE y # end_y /\ Kernel # "merge"
  <2>1. mem' = mem /\ x = end_x
    BY <1>1, <1>6 DEF Kernel
  <2>2. y = out /\ out + (end_x - x) = out
    BY <1>2, <1>3, <1>6, <2>1
  <2>3. \A d \in 0..((end_y - y) - 1) : mem'[out + (end_x - x) + d] = SY[TookY + 1 + d]
    <3> SUFFICES ASSUME NEW d \in 0..((end_y - y) - 1) PROVE mem[out + d] = SY[TookY + 1 + d]
      BY <2>1, <2>2
    <3>1. out + d \in y..(end_y - 1) /\ (out + d) - y = d
      <4>1. y \in Int /\ end_y \in Int /\ out = y
        BY <1>2, <2>2
      <4> QED BY <4>1
    <3>2. mem[out + d] = SY[TookY + 1 + ((out + d) - y)]
      BY <1>2, <3>1
    <3> QED BY <3>1, <3>2
  <2>4. \A d \in 0..((end_x - x) - 1) : mem'[out + d] = SX[TookX + 1 + d]
    BY <1>2, <2>1
  <2>5. \A p \in 1..MemSize : mem'[p] = mem[p]
    BY <2>1
  <2>6. Written(mem', nX, nY)
    BY <1>1, <2>1, <2>3, <2>4, <2>5, XThenY
  <2> QED BY <1>1, <1>2, <2>1, <2>5, <2>6, Finished
<1> QED BY <1>4, <1>5, <1>6

(* A turn of either loop: it writes over nothing that is still to be read. *)
LEMMA TurnStep ==
  ASSUME MergeInv, merge_pc \in {"merge", "fill"}, x # end_x, y # end_y, Turn, Pointing',
         out = Spot(TookX + TookY + 1),
         out \notin x..(end_x - 1), out \notin y..(end_y - 1)
  PROVE  MergeInv'
<1>1. /\ merge_pc # "done" /\ merge_pc' # "done" /\ merge_call' = merge_call
      /\ UNCHANGED <<end_x, end_y, end_out, next_out>>
      /\ mem' = [mem EXCEPT ![out] = mem[IF ~comp(y, x) THEN x ELSE y]]
      /\ x' = IF ~comp(y, x) THEN x + 1 ELSE x
      /\ y' = IF ~comp(y, x) THEN y ELSE y + 1
  BY DEF Turn
<1>2. /\ merge_call \in MergeCalls /\ MemSize \in Nat /\ YStart \in Nat
      /\ nX \in Nat /\ nY \in Nat /\ n1 + n2 = nX + nY
      /\ x \in Int /\ end_x \in Int /\ y \in Int /\ end_y \in Int /\ out \in Int
      /\ TookX \in 0..nX /\ end_x - x = nX - TookX /\ x <= end_x
      /\ TookY \in 0..nY /\ end_y - y = nY - TookY /\ y <= end_y
      /\ y = YStart + TookY /\ end_y = YStart + nY
      /\ 1 <= x /\ end_x <= MemSize + 1 /\ 1 <= y /\ end_y <= MemSize + 1
      /\ DOMAIN mem = 1..MemSize
      /\ \A p \in x..(end_x - 1) : mem[p] = SX[TookX + 1 + (p - x)]
      /\ \A p \in y..(end_y - 1) : mem[p] = SY[TookY + 1 + (p - y)]
      /\ Written(mem, TookX, TookY) /\ Ahead(TookX, TookY)
  BY <1>1, Standing
<1>3. /\ x \in Int /\ end_x \in Int /\ y \in Int /\ end_y \in Int
      /\ nX \in Nat /\ nY \in Nat /\ TookX \in Nat /\ TookY \in Nat
      /\ end_x - x = nX - TookX /\ end_y - y = nY - TookY
  BY <1>2
<1>4. comp(y, x) <=> KY[TookY + 1] < KX[TookX + 1]
  BY <1>1, Comparisons
<1>5. /\ TookX \in Nat /\ TookY \in Nat /\ TookX + 1 <= nX /\ TookY + 1 <= nY
      /\ TookX <= nX /\ TookY <= nY
      /\ TookX + 1 \in 1..nX /\ TookY + 1 \in 1..nY
      /\ TookX + TookY + 1 \in 1..(n1 + n2)
      /\ x \in x..(end_x - 1) /\ y \in y..(end_y - 1)
  BY <1>2
<1>6. KX[TookX + 1] \in Int /\ KY[TookY + 1] \in Int
  BY <1>2, <1>5, ElementsOf
<1>7. out \in 1..MemSize
  BY <1>2, <1>5, Spots
<1>8. /\ DOMAIN mem' = 1..MemSize
      /\ mem'[out] = mem[IF ~comp(y, x) THEN x ELSE y]
      /\ \A p \in 1..MemSize : p # out => mem'[p] = mem[p]
  BY <1>1, <1>2, <1>7
<1>9. mem[x] = SX[TookX + 1] /\ mem[y] = SY[TookY + 1]
  <2>1. x - x = 0 /\ y - y = 0 /\ TookX + 1 + 0 = TookX + 1 /\ TookY + 1 + 0 = TookY + 1
    BY <1>3
  <2>2. mem[x] = SX[TookX + 1 + (x - x)] /\ mem[y] = SY[TookY + 1 + (y - y)]
    BY <1>2, <1>5
  <2> QED BY <2>1, <2>2
<1>10. ASSUME NEW k \in 1..(TookX + TookY) PROVE mem'[Spot(k)] = mem[Spot(k)]
  <2> /\ TookX \in Nat /\ TookY \in Nat /\ nX \in Nat /\ nY \in Nat
      /\ TookX + 1 <= nX /\ TookY + 1 <= nY /\ n1 + n2 = nX + nY
    BY <1>2, <1>3, <1>5
  <2>1. k \in 1..(n1 + n2) /\ k < TookX + TookY + 1 /\ k \in Int /\ TookX + TookY + 1 \in Int
    OBVIOUS
  <2>2. Spot(k) \in 1..MemSize /\ Spot(k) < out
    BY <1>2, <2>1, Spots
  <2>3. Spot(k) # out
    BY <1>7, <2>2
  <2> QED BY <1>8, <2>2, <2>3
<1>11. \A p \in (TookX + 1)..nX : mem'[end_x - nX - 1 + p] = SX[p]
  <2> SUFFICES ASSUME NEW p \in (TookX + 1)..nX PROVE mem'[end_x - nX - 1 + p] = SX[p]
    OBVIOUS
  <2>1. /\ end_x - nX - 1 + p \in x..(end_x - 1) /\ end_x - nX - 1 + p \in 1..MemSize
        /\ TookX + 1 + ((end_x - nX - 1 + p) - x) = p
    <3> 1 <= x /\ end_x <= MemSize + 1 /\ MemSize \in Nat
      BY <1>2, <1>7
    <3> QED BY <1>3
  <2>2. mem[end_x - nX - 1 + p] = SX[p]
    BY <1>2, <2>1
  <2>3. end_x - nX - 1 + p # out
    BY <2>1
  <2> QED BY <1>8, <2>1, <2>2, <2>3
<1>12. \A q \in (TookY + 1)..nY : mem'[YStart - 1 + q] = SY[q]
  <2> SUFFICES ASSUME NEW q \in (TookY + 1)..nY PROVE mem'[YStart - 1 + q] = SY[q]
    OBVIOUS
  <2>1. /\ YStart - 1 + q \in y..(end_y - 1) /\ YStart - 1 + q \in 1..MemSize
        /\ TookY + 1 + ((YStart - 1 + q) - y) = q
    <3> 1 <= y /\ end_y <= MemSize + 1 /\ MemSize \in Nat /\ y = YStart + TookY
      BY <1>2, <1>7
    <3> YStart \in Int
      BY <1>1, Standing
    <3> QED BY <1>3
  <2>2. mem[YStart - 1 + q] = SY[q]
    BY <1>2, <2>1
  <2>3. YStart - 1 + q # out
    BY <2>1
  <2> QED BY <1>8, <2>1, <2>2, <2>3
<1>13. \A p \in Gaps : mem'[p] = Vacant
  <2> SUFFICES ASSUME NEW p \in Gaps PROVE mem'[p] = Vacant
    OBVIOUS
  <2>1. p \in 1..MemSize /\ mem[p] = Vacant /\ p # out
    BY <1>5 DEF Gaps, MergeInv, GapsFree
  <2> QED BY <1>8, <2>1
<1>14. 1 \in Nat /\ \A d \in 1..1 : d = 1
  OBVIOUS
<1>15. CASE ~comp(y, x)
  <2>1. TookX' = TookX + 1 /\ TookY' = TookY
    <3>1. TookX' = nX - (end_x - x') /\ TookY' = nY - (end_y - y')
      BY <1>1, SameCall DEF TookX, TookY
    <3>2. x' = x + 1 /\ y' = y
      BY <1>1, <1>15
    <3> QED BY <1>3, <3>1, <3>2
  <2>2. \A d \in 1..1 : mem'[Spot(TookX + TookY + d)] = SX[TookX + d]
    <3>1. mem'[Spot(TookX + TookY + 1)] = SX[TookX + 1]
      BY <1>8, <1>9, <1>15
    <3> QED BY <3>1
  <2>3. Written(mem', TookX + 1, TookY)
    BY <1>2, <1>5, <1>10, <1>14, <2>2, AppendX, Zenon
  <2>4. 1 > 0 /\ TookY < nY => KX[TookX + 1] <= KY[TookY + 1]
    BY <1>4, <1>6, <1>15
  <2>5. Ahead(TookX + 1, TookY)
    BY <1>2, <1>5, <2>4, AheadX
  <2>6. \A p \in (TookX' + 1)..nX : mem'[end_x' - nX - 1 + p] = SX[p]
    BY <1>1, <1>3, <1>11, <2>1
  <2> QED BY <1>1, <1>8, <1>12, <1>13, <2>1, <2>3, <2>5, <2>6, Preserved
<1>16. CASE comp(y, x)
  <2>1. TookX' = TookX /\ TookY' = TookY + 1
    <3>1. TookX' = nX - (end_x - x') /\ TookY' = nY - (end_y - y')
      BY <1>1, SameCall DEF TookX, TookY
    <3>2. x' = x /\ y' = y + 1
      BY <1>1, <1>16
    <3> QED BY <1>3, <3>1, <3>2
  <2>2. \A d \in 1..1 : mem'[Spot(TookX + TookY + d)] = SY[TookY + d]
    <3>1. mem'[Spot(TookX + TookY + 1)] = SY[TookY + 1]
      BY <1>8, <1>9, <1>16
    <3> QED BY <3>1
  <2>3. Written(mem', TookX, TookY + 1)
    BY <1>2, <1>5, <1>10, <1>14, <2>2, AppendY, Zenon
  <2>4. 1 > 0 /\ TookX < nX => KY[TookY + 1] < KX[TookX + 1]
    BY <1>4, <1>16
  <2>5. Ahead(TookX, TookY + 1)
    BY <1>2, <1>5, <2>4, AheadY
  <2>6. \A q \in (TookY' + 1)..nY : mem'[YStart - 1 + q] = SY[q]
    BY <1>1, <1>3, <1>12, <2>1
  <2> QED BY <1>1, <1>8, <1>11, <1>13, <2>1, <2>3, <2>5, <2>6, Preserved
<1> QED BY <1>15, <1>16

LEMMA MergeTurnStep ==
  ASSUME MergeInv, MergeTurn
  PROVE  MergeInv'
<1>1. /\ merge_pc = "merge" /\ merge_pc # "done" /\ merge_pc \in {"check", "merge"}
      /\ merge_pc \in {"merge", "fill"} /\ Turn
      /\ merge_pc' = merge_pc /\ merge_call' = merge_call
      /\ x # end_x /\ y # end_y
      /\ UNCHANGED <<end_x, end_y, end_out, next_out>>
      /\ out' = out + 1
      /\ \/ x' = x + 1 /\ y' = y
         \/ x' = x /\ y' = y + 1
  BY DEF MergeTurn, Turn
<1>2. Pointing /\ merge_call \in MergeCalls
  BY DEF MergeInv
<1>3. /\ x \in Int /\ end_x \in Int /\ y \in Int /\ end_y \in Int /\ out \in Int
      /\ nX \in Nat /\ nY \in Nat /\ TookX \in 0..nX /\ TookY \in 0..nY
      /\ end_x - x = nX - TookX /\ end_y - y = nY - TookY
      /\ x <= end_x /\ y <= end_y
  BY <1>1, Standing
<1>4. /\ Kernel = "merge" => end_y <= out
      /\ Kernel # "merge" => y = out + (end_x - x)
      /\ end_x <= out \/ out + (end_x - x) + (end_y - y) <= x
      /\ \A d \in Nat : Spot(TookX + TookY + 1 + d) = out + d
  BY <1>1, WhereOut
<1>5. out \notin x..(end_x - 1) /\ out \notin y..(end_y - 1)
  BY <1>1, <1>3, <1>4
<1>6. out = Spot(TookX + TookY + 1)
  BY <1>1, <1>2 DEF Pointing
<1>7. /\ TookX \in Int /\ TookY \in Int
      /\ \/ TookX' = TookX + 1 /\ TookY' = TookY
         \/ TookX' = TookX /\ TookY' = TookY + 1
  <2>1. TookX' = nX - (end_x - x') /\ TookY' = nY - (end_y - y')
    BY <1>1, SameCall DEF TookX, TookY
  <2>2. /\ nX - (end_x - (x + 1)) = TookX + 1 /\ nX - (end_x - x) = TookX
        /\ nY - (end_y - (y + 1)) = TookY + 1 /\ nY - (end_y - y) = TookY
    BY <1>3
  <2> QED BY <1>1, <1>3, <2>1, <2>2
<1>8. (out = Spot(TookX + TookY + 1))'
  <2>1. Spot(TookX + TookY + 1 + 1) = out + 1
    BY <1>4
  <2>2. TookX' + TookY' + 1 = TookX + TookY + 1 + 1
    BY <1>7
  <2>3. Spot(TookX' + TookY' + 1) = out'
    BY <1>1, <2>1, <2>2, Zenon
  <2> QED BY <1>1, <2>3, SameCall DEF Spot
<1>9. /\ x' \in Int /\ end_x' \in Int /\ y' \in Int /\ end_y' \in Int /\ out' \in Int
      /\ x' <= end_x' /\ end_x' - x' <= nX
      /\ y' <= end_y' /\ end_y' - y' <= nY
      /\ Kernel # "merge" => y' = out' + (end_x' - x')
      /\ x' >= x
  BY <1>1, <1>3, <1>4
<1>10. Pointing'
  <2>1. ASSUME Fills PROVE TookX' + TookY' >= n1
    <3>1. TookX + TookY >= n1 /\ TookX + TookY \in Int
      BY <1>1, <1>2, <1>3, <2>1 DEF Pointing
    <3>2. n1 \in Nat
      BY <1>1, Standing
    <3>3. TookX \in Int /\ TookY \in Int
      BY <1>3
    <3> QED BY <1>7, <3>1, <3>2, <3>3
  <2>2. (out = Spot(TookX + TookY + 1))'
    BY <1>8
  <2>3. IF Kernel = "uncontiguous" THEN x' >= n1 + n2 + 3 /\ end_x' <= MemSize + 1
                                   ELSE end_x' = nX + 1
    <3>1. n1 \in Nat /\ n2 \in Nat
      BY <1>1, Standing
    <3> QED BY <1>1, <1>2, <1>3, <1>9, <3>1 DEF Pointing
  <2>4. end_y = YStart + nY /\ end_out = Origin + n1 + 1 /\ next_out = YStart
    BY <1>2 DEF Pointing
  <2>5. merge_pc' = "merge"
    BY <1>1
  <2> QED BY <1>1, <1>9, <2>1, <2>2, <2>3, <2>4, <2>5, SameCall DEF Pointing
<1> QED BY <1>1, <1>5, <1>6, <1>10, TurnStep

-----------------------------------------------------------------------------
(* merge_uncontiguous and merge_flow. *)

LEMMA FlowStep ==
  ASSUME MergeInv, Flow
  PROVE  MergeInv'
<1>1. /\ merge_pc = "flow" /\ merge_pc # "done" /\ merge_pc' = "fill"
      /\ merge_call' = merge_call /\ mem' = mem /\ UNCHANGED Pointers
  BY DEF Flow
<1>2. /\ merge_call \in MergeCalls /\ DOMAIN mem = 1..MemSize
      /\ n1 \in Nat /\ n2 \in Nat
  BY <1>1, Standing
<1>3. Pointing
  BY DEF MergeInv
<1>4. TookX' = TookX /\ TookY' = TookY /\ end_x' = end_x
  BY <1>1, SameCall DEF TookX, TookY, Pointers
<1>5. Pointing'
  <2>1. Kernel = "flow" /\ TookX = 0 /\ TookY = 0 /\ out = Origin + 1
    BY <1>1, <1>3 DEF Pointing
  <2>2. Origin \in Nat /\ TookX' + TookY' <= n1 /\ Origin + 1 = Origin + TookX' + TookY' + 1
    BY <1>2, <1>4, <2>1, Spots
  <2>3. Fills
    BY <2>1 DEF Fills
  <2> QED BY <1>1, <1>3, <1>4, <2>1, <2>2, <2>3, SameCall DEF Pointing, Pointers
<1>6. UnreadX(mem) /\ UnreadY(mem) /\ Written(mem, TookX, TookY) /\ Ahead(TookX, TookY)
      /\ GapsFree(mem)
  BY <1>1 DEF MergeInv
<1> QED BY <1>1, <1>2, <1>4, <1>5, <1>6, Preserved DEF UnreadX, UnreadY, GapsFree

(* Where the loops that fill the first range write. *)
LEMMA WhereFill ==
  ASSUME MergeInv, merge_pc = "fill"
  PROVE  /\ Fills /\ TookX + TookY <= n1
         /\ out = Origin + TookX + TookY + 1 /\ end_out = Origin + n1 + 1
         /\ nX = n1 /\ end_out <= YStart /\ next_out = YStart /\ YStart = Origin + n1 + 2
         /\ Origin \in Nat /\ n1 \in Nat /\ n2 \in Nat
         /\ \A k \in 1..n1 : Spot(k) = Origin + k
         /\ \A k \in (n1 + 1)..(n1 + n2) : Spot(k) = YStart + (k - n1 - 1)
         /\ Kernel = "uncontiguous" \/ (Kernel = "flow" /\ n1 = n2 /\ nY = n1)
         /\ Kernel = "uncontiguous" => x >= n1 + n2 + 3 /\ nY = n2
         /\ Kernel = "flow" => end_x = nX + 1 /\ nX = Origin - 1
<1>1. Pointing /\ merge_call \in MergeCalls
  BY DEF MergeInv
<1>2. /\ Fills /\ TookX + TookY <= n1
      /\ out = Origin + TookX + TookY + 1 /\ end_out = Origin + n1 + 1
      /\ next_out = YStart
      /\ Kernel = "uncontiguous" => x >= n1 + n2 + 3
      /\ Kernel = "flow" => end_x = nX + 1
  BY <1>1 DEF Pointing
<1>3. /\ n1 \in Nat /\ n2 \in Nat /\ Origin \in Nat
      /\ Kernel = "flow" => n1 = n2 /\ nX = n2 /\ nY = n1
      /\ Kernel # "flow" => nX = n1 /\ nY = n2
  BY <1>1, CallShape, Spots
<1>4. Kernel = "uncontiguous" \/ Kernel = "flow"
  BY <1>2 DEF Fills
<1>5. Origin + n1 + 1 <= YStart /\ YStart = Origin + n1 + 2
  BY <1>3, <1>4 DEF Origin, YStart
<1>6. \A k \in 1..n1 : Spot(k) = Origin + k
  BY <1>2, <1>3 DEF Spot
<1>7. \A k \in (n1 + 1)..(n1 + n2) : Spot(k) = YStart + (k - n1 - 1)
  BY <1>2, <1>3, <1>5 DEF Spot
<1>8. Kernel = "flow" => Origin = n2 + 1
  BY DEF Origin
<1> QED BY <1>2, <1>3, <1>4, <1>5, <1>6, <1>7, <1>8

LEMMA FillHalfStep ==
  ASSUME MergeInv, FillHalf
  PROVE  MergeInv'
<1>1. /\ merge_pc = "fill" /\ merge_pc # "done" /\ merge_pc' = "check" /\ out = end_out
      /\ out' = next_out
      /\ UNCHANGED <<merge_call, mem, x, end_x, y, end_y, end_out, next_out>>
  BY DEF FillHalf, HalfOut
<1>2. /\ merge_call \in MergeCalls /\ DOMAIN mem = 1..MemSize
      /\ n1 \in Nat /\ n2 \in Nat /\ nX \in Nat /\ nY \in Nat
      /\ x \in Int /\ end_x \in Int /\ y \in Int /\ end_y \in Int
      /\ TookX \in 0..nX /\ TookY \in 0..nY
      /\ end_x - x = nX - TookX /\ end_y - y = nY - TookY
      /\ y = YStart + TookY /\ YStart \in Nat
  BY <1>1, Standing
<1>3. Pointing
  BY DEF MergeInv
<1>4. TookX' = TookX /\ TookY' = TookY /\ end_x' = end_x
  BY <1>1, SameCall DEF TookX, TookY
<1>5. /\ Fills /\ out = Origin + TookX + TookY + 1 /\ end_out = Origin + n1 + 1
      /\ next_out = YStart
  BY <1>1, <1>3 DEF Pointing
<1>6. TookX + TookY = n1
  <2>1. Origin \in Int /\ TookX \in Int /\ TookY \in Int /\ n1 \in Int
    BY <1>2, Spots
  <2>2. Origin + TookX + TookY + 1 = Origin + n1 + 1
    BY <1>1, <1>5
  <2> QED BY <2>1, <2>2
<1>7. Spot(n1 + 1) = YStart
  <2>1. YStart = Origin + n1 + 2 /\ Origin \in Nat
    BY <1>1, WhereFill
  <2>2. Spot(n1 + 1) = Origin + (n1 + 1) + 1
    BY <1>2, <1>5 DEF Spot
  <2> QED BY <1>2, <2>1, <2>2
<1>8. nX = n1
  BY <1>2, <1>5, CallShape DEF Fills
<1>9. Pointing'
  <2>1. out' = Spot(TookX + TookY + 1) /\ TookX + TookY >= n1
    BY <1>1, <1>2, <1>5, <1>6, <1>7
  <2>2. y' = out' + (end_x' - x')
    BY <1>1, <1>2, <1>5, <1>6, <1>8
  <2>3. (out = Spot(TookX + TookY + 1))'
    BY <1>1, <1>4, <2>1, SameCall DEF Spot
  <2>4. out' \in Int
    BY <1>1, <1>2, <1>5
  <2> QED BY <1>1, <1>2, <1>3, <1>4, <2>1, <2>2, <2>3, <2>4, SameCall DEF Pointing
<1>10. UnreadX(mem) /\ UnreadY(mem) /\ Written(mem, TookX, TookY) /\ Ahead(TookX, TookY)
      /\ GapsFree(mem)
  BY <1>1 DEF MergeInv
<1> QED BY <1>1, <1>2, <1>4, <1>9, <1>10, Preserved DEF UnreadX, UnreadY, GapsFree

LEMMA FillTurnStep ==
  ASSUME MergeInv, FillTurn
  PROVE  MergeInv'
<1>1. /\ merge_pc = "fill" /\ merge_pc # "done" /\ merge_pc \in {"merge", "fill"} /\ Turn
      /\ merge_pc' = merge_pc /\ merge_call' = merge_call /\ out # end_out
      /\ Kernel = "uncontiguous" => y # end_y
      /\ UNCHANGED <<end_x, end_y, end_out, next_out>>
      /\ out' = out + 1
      /\ \/ x' = x + 1 /\ y' = y
         \/ x' = x /\ y' = y + 1
  BY DEF FillTurn, Turn, Kernel
<1>2. Pointing
  BY DEF MergeInv
<1>3. /\ x \in Int /\ end_x \in Int /\ y \in Int /\ end_y \in Int /\ out \in Int
      /\ nX \in Nat /\ nY \in Nat /\ TookX \in 0..nX /\ TookY \in 0..nY
      /\ end_x - x = nX - TookX /\ end_y - y = nY - TookY
      /\ x <= end_x /\ y <= end_y /\ y = YStart + TookY /\ YStart \in Nat
  BY <1>1, Standing
<1>4. /\ Fills /\ TookX + TookY <= n1
      /\ out = Origin + TookX + TookY + 1 /\ end_out = Origin + n1 + 1
      /\ nX = n1 /\ end_out <= YStart
      /\ Origin \in Nat /\ n1 \in Nat /\ n2 \in Nat
      /\ Kernel = "uncontiguous" \/ (Kernel = "flow" /\ n1 = n2 /\ nY = n1)
      /\ Kernel = "uncontiguous" => x >= n1 + n2 + 3 /\ nY = n2
      /\ Kernel = "flow" => end_x = nX + 1 /\ nX = Origin - 1
  BY <1>1, WhereFill
<1>5. TookX + TookY < n1
  BY <1>1, <1>3, <1>4
<1>6. x # end_x /\ y # end_y
  BY <1>1, <1>3, <1>4, <1>5
<1>7. out \notin x..(end_x - 1) /\ out \notin y..(end_y - 1)
  <2>1. out < YStart
    BY <1>3, <1>4, <1>5
  <2>2. CASE Kernel = "uncontiguous"
    <3>1. Origin = 0
      BY <2>2 DEF Origin
    <3> QED BY <1>3, <1>4, <1>5, <2>1, <2>2, <3>1
  <2>3. CASE Kernel = "flow"
    BY <1>3, <1>4, <2>1, <2>3
  <2> QED BY <1>4, <2>2, <2>3
<1>8. out = Spot(TookX + TookY + 1)
  <2>1. TookX + TookY + 1 \in 1..n1
    BY <1>3, <1>4, <1>5
  <2>2. Spot(TookX + TookY + 1) = Origin + (TookX + TookY + 1)
    BY <1>1, <2>1, WhereFill
  <2> QED BY <1>3, <1>4, <2>2
<1>9. /\ TookX \in Int /\ TookY \in Int
      /\ \/ TookX' = TookX + 1 /\ TookY' = TookY
         \/ TookX' = TookX /\ TookY' = TookY + 1
  <2>1. TookX' = nX - (end_x - x') /\ TookY' = nY - (end_y - y')
    BY <1>1, SameCall DEF TookX, TookY
  <2>2. /\ nX - (end_x - (x + 1)) = TookX + 1 /\ nX - (end_x - x) = TookX
        /\ nY - (end_y - (y + 1)) = TookY + 1 /\ nY - (end_y - y) = TookY
    BY <1>3
  <2> QED BY <1>1, <1>3, <2>1, <2>2
<1>10. Pointing'
  <2>1. TookX' + TookY' <= n1 /\ out' = Origin + TookX' + TookY' + 1
    <3>1. TookX \in Int /\ TookY \in Int /\ n1 \in Int /\ Origin \in Int
      BY <1>3, <1>4
    <3>2. TookX' + TookY' <= n1
      BY <1>5, <1>9, <3>1
    <3>3. out' = Origin + TookX + TookY + 1 + 1
      BY <1>1, <1>4
    <3>4. Origin + TookX + TookY + 1 + 1 = Origin + TookX' + TookY' + 1
      BY <1>9, <3>1
    <3> QED BY <3>2, <3>3, <3>4
  <2>2. /\ x' \in Int /\ end_x' \in Int /\ y' \in Int /\ end_y' \in Int /\ out' \in Int
        /\ x' <= end_x' /\ end_x' - x' <= nX
        /\ y' <= end_y' /\ end_y' - y' <= nY
        /\ x' >= x
    BY <1>1, <1>3, <1>6
  <2>3. IF Kernel = "uncontiguous" THEN x' >= n1 + n2 + 3 /\ end_x' <= MemSize + 1
                                   ELSE end_x' = nX + 1
    <3>1. Kernel = "uncontiguous" => end_x <= MemSize + 1
      BY <1>1, <1>2 DEF Pointing
    <3> QED BY <1>1, <1>3, <1>4, <2>2, <3>1
  <2>4. end_y = YStart + nY /\ end_out = Origin + n1 + 1 /\ next_out = YStart
    BY <1>2 DEF Pointing
  <2>5. merge_pc' = "fill"
    BY <1>1
  <2> QED BY <1>1, <1>4, <2>1, <2>2, <2>3, <2>4, <2>5, SameCall DEF Pointing
<1> QED BY <1>1, <1>6, <1>7, <1>8, <1>10, TurnStep

(* The first element of src1 that does not stay. *)
LEMMA Src1Is ==
  ASSUME MergeInv, merge_pc = "uncontiguous", ~XBeforeY, NEW src1,
         src1 = CHOOSE i \in x..(end_x - 1) :
                  comp(y, i) /\ \A j \in x..(i - 1) : ~comp(y, j)
  PROVE  /\ src1 \in x..(end_x - 1)
         /\ comp(y, src1) /\ \A j \in x..(src1 - 1) : ~comp(y, j)
<1>1. x \in Int /\ end_x \in Int /\ 1 <= x /\ x <= end_x /\ merge_pc # "done"
  BY Standing
<1>2. end_x - 1 \in x..(end_x - 1) /\ comp(y, end_x - 1)
  BY <1>1 DEF XBeforeY
<1> DEFINE S == {i \in x..(end_x - 1) : comp(y, i)}
<1>3. PICK i \in S : \A j \in S : i <= j
  <2>1. S # {} /\ S \in SUBSET Nat
    <3>1. x..(end_x - 1) \subseteq Nat
      BY <1>1
    <3> QED BY <1>1, <1>2, <3>1
  <2> HIDE DEF S
  <2> QED BY <2>1, Least
<1>4. i \in x..(end_x - 1) /\ comp(y, i) /\ \A j \in x..(i - 1) : ~comp(y, j)
  <2> SUFFICES ASSUME NEW j \in x..(i - 1) PROVE ~comp(y, j)
    BY <1>3
  <2>1. j \in x..(end_x - 1) /\ ~(i <= j)
    BY <1>1, <1>3
  <2> QED BY <1>3, <2>1
<1> HIDE DEF S
<1> QED BY <1>4

LEMMA UncontiguousStep ==
  ASSUME MergeInv, Uncontiguous
  PROVE  MergeInv'
<1>1. merge_pc = "uncontiguous" /\ merge_pc # "done" /\ merge_call' = merge_call
  BY DEF Uncontiguous
<1>2. Pointing
  BY DEF MergeInv
<1>3. /\ Kernel = "uncontiguous" /\ TookX = 0 /\ TookY = 0 /\ out = Origin + 1
      /\ end_x = nX + 1 /\ end_out = Origin + n1 + 1 /\ next_out = YStart
  BY <1>1, <1>2 DEF Pointing
<1>4. Origin = 0 /\ Fills /\ YStart = n1 + 2 /\ MemSize = 2 * n1 + n2 + 2
  BY <1>3 DEF Origin, Fills, YStart, MemSize
<1>5. /\ merge_call \in MergeCalls
      /\ n1 \in Nat /\ n2 \in Nat /\ nX = n1 /\ nY = n2
      /\ \A p \in 1..nX : KX[p] \in Int
      /\ \A q \in 1..nY : KY[q] \in Int
  BY <1>1, <1>3, Standing, CallShape, ElementsOf
<1>6. /\ x \in Int /\ end_x \in Int /\ y \in Int /\ end_y \in Int /\ out \in Int
      /\ x = 1 /\ end_x = n1 + 1 /\ y = n1 + 2 /\ end_y = n1 + 2 + n2 /\ out = 1
  <2>1. /\ x \in Int /\ end_x \in Int /\ y \in Int /\ end_y \in Int /\ out \in Int
        /\ end_x - x = nX - TookX /\ y = YStart + TookY /\ end_y = YStart + nY
    BY <1>1, Standing
  <2> QED BY <1>3, <1>4, <1>5, <2>1
<1>7. /\ DOMAIN mem = 1..MemSize
      /\ \A p \in 1..n1 : mem[p] = SX[p]
      /\ \A q \in 1..n2 : mem[n1 + 1 + q] = SY[q]
      /\ Written(mem, 0, 0) /\ Ahead(0, 0)
      /\ \A p \in Gaps : p \in 1..MemSize /\ mem[p] = Vacant
  <2>1. UnreadX(mem) /\ UnreadY(mem)
    BY <1>1 DEF MergeInv
  <2>2. \A p \in 1..n1 : mem[p] = SX[p]
    <3>1. \A p \in 1..n1 : end_x - nX - 1 + p = p
      BY <1>5, <1>6
    <3>2. \A p \in 1..n1 : mem[end_x - nX - 1 + p] = SX[p]
      BY <1>3, <1>5, <2>1 DEF UnreadX
    <3> QED BY <3>1, <3>2
  <2>3. \A q \in 1..n2 : mem[n1 + 1 + q] = SY[q]
    <3>1. \A q \in 1..n2 : YStart - 1 + q = n1 + 1 + q
      BY <1>4, <1>5
    <3>2. \A q \in 1..n2 : mem[YStart - 1 + q] = SY[q]
      BY <1>3, <1>5, <2>1 DEF UnreadY
    <3> QED BY <3>1, <3>2
  <2> QED BY <1>1, <1>3, <2>2, <2>3 DEF MergeInv, GapsFree, Gaps
<1>8. /\ \A k \in 1..n1 : Spot(k) = k
      /\ \A k \in (n1 + 1)..(n1 + n2) : Spot(k) = k + 1
  BY <1>4, <1>5 DEF Spot
<1>9. /\ x = end_x <=> TookX = nX
      /\ y = end_y <=> TookY = nY
      /\ x # end_x /\ y # end_y => (comp(y, end_x - 1) <=> KY[TookY + 1] < KX[nX])
  BY <1>1, Comparisons
<1>10. CASE XBeforeY
  <2>1. mem' = mem /\ merge_pc' = "done" /\ UNCHANGED Pointers
    BY <1>10 DEF Uncontiguous, Done
  <2>2. \A d \in 1..n1 : mem[Spot(0 + 0 + d)] = SX[0 + d]
    BY <1>7, <1>8
  <2>3. Written(mem, n1, 0)
    <3>1. Written(mem, 0 + n1, 0)
      <4>1. /\ 0 \in Nat /\ 0 + n1 <= nX /\ 0 <= nY
            /\ \A k \in 1..(0 + 0) : mem[Spot(k)] = mem[Spot(k)]
        BY <1>5
      <4> QED BY <1>5, <1>7, <2>2, <4>1, AppendX, Zenon
    <3> QED BY <1>5, <3>1
  <2>4. Ahead(n1, 0)
    <3>1. n1 > 0 /\ 0 < nY => KX[0 + n1] <= KY[0 + 1]
      <4> SUFFICES ASSUME n1 > 0, 0 < nY PROVE KX[n1] <= KY[1]
        BY <1>5
      <4>1. x # end_x /\ y # end_y
        BY <1>5, <1>6
      <4>2. nX = n1 /\ TookY + 1 = 1
        BY <1>3, <1>5
      <4>3. ~(KY[1] < KX[n1])
        BY <1>9, <1>10, <4>1, <4>2 DEF XBeforeY
      <4>4. KY[1] \in Int /\ KX[n1] \in Int
        BY <1>5
      <4> QED BY <4>3, <4>4
    <3>2. 0 \in Nat /\ 0 + n1 <= nX /\ 0 <= nY
      BY <1>5
    <3>3. Ahead(0 + n1, 0)
      BY <1>5, <1>7, <3>1, <3>2, AheadX, Zenon
    <3> QED BY <1>5, <3>3
  <2>5. \A d \in 1..n2 : mem[Spot(n1 + 0 + d)] = SY[0 + d]
    <3> SUFFICES ASSUME NEW d \in 1..n2 PROVE mem[Spot(n1 + 0 + d)] = SY[0 + d]
      OBVIOUS
    <3>1. n1 + 0 + d \in (n1 + 1)..(n1 + n2) /\ (n1 + 0 + d) + 1 = n1 + 1 + d /\ 0 + d = d
      BY <1>5
    <3> QED BY <1>7, <1>8, <3>1
  <2>6. Written(mem, n1, n2)
    <3>1. Written(mem, n1, 0 + n2)
      <4>1. /\ 0 \in Nat /\ n1 <= nX /\ 0 + n2 <= nY
            /\ \A k \in 1..(n1 + 0) : mem[Spot(k)] = mem[Spot(k)]
        BY <1>5
      <4> QED BY <1>5, <2>3, <2>4, <2>5, <4>1, AppendY, Zenon
    <3> QED BY <1>5, <3>1
  <2>7. Pointing'
    BY <1>1, <1>2, <2>1, SameCall DEF Pointing, Pointers
  <2> QED BY <1>1, <1>5, <1>7, <2>1, <2>6, <2>7, Preserved
<1>11. CASE ~XBeforeY
  <2> DEFINE src1 == CHOOSE i \in x..(end_x - 1) :
                       comp(y, i) /\ \A j \in x..(i - 1) : ~comp(y, j)
             aux == n1 + n2 + 3
  <2>1. /\ mem' = Moved(mem, aux, src1, end_x)
        /\ x' = aux /\ end_x' = aux + end_x - src1 /\ out' = src1 /\ merge_pc' = "fill"
        /\ UNCHANGED <<y, end_y, end_out, next_out>>
    BY <1>11 DEF Uncontiguous
  <2>2. /\ src1 \in x..(end_x - 1)
        /\ comp(y, src1) /\ \A j \in x..(src1 - 1) : ~comp(y, j)
    BY <1>1, <1>11, Src1Is
  <2> HIDE DEF src1
  <2>3. src1 \in 1..n1 /\ src1 \in Int
    BY <1>5, <1>6, <2>2
  <2>4. /\ DOMAIN mem' = 1..MemSize
        /\ \A p \in 1..MemSize : p < aux => mem'[p] = mem[p]
        /\ \A p \in src1..n1 : mem'[aux + p - src1] = mem[p]
    <3>1. \A p \in src1..n1 : /\ aux + p - src1 \in 1..MemSize
                              /\ aux + p - src1 \in aux..(aux + end_x - src1 - 1)
                              /\ src1 + (aux + p - src1) - aux = p
      BY <1>4, <1>5, <1>6, <2>3
    <3>2. mem' = [p \in 1..MemSize |-> IF p \in aux..(aux + end_x - src1 - 1)
                                       THEN mem[src1 + p - aux] ELSE mem[p]]
      BY <1>7, <2>1 DEF Moved
    <3>3. \A p \in 1..MemSize : p < aux => p \notin aux..(aux + end_x - src1 - 1)
      BY <1>4, <1>5, <1>6, <2>3
    <3> HIDE DEF aux
    <3> QED BY <3>1, <3>2, <3>3
  <2>5. TookX' = src1 - 1 /\ TookY' = 0
    <3>1. TookX' = n1 - (end_x' - x') /\ TookY' = n2 - (end_y - y)
      BY <1>1, <1>5, <2>1, SameCall DEF TookX, TookY
    <3> QED BY <1>5, <1>6, <2>1, <2>3, <3>1
  <2>6. Pointing'
    <3>1. /\ x' \in Int /\ end_x' \in Int /\ y' \in Int /\ end_y' \in Int /\ out' \in Int
          /\ x' <= end_x' /\ end_x' - x' <= nX
          /\ y' <= end_y' /\ end_y' - y' <= nY
          /\ end_y' = YStart + nY
          /\ x' >= n1 + n2 + 3 /\ end_x' <= MemSize + 1
      BY <1>4, <1>5, <1>6, <2>1, <2>3
    <3>2. TookX' + TookY' <= n1 /\ out' = Origin + TookX' + TookY' + 1
      BY <1>4, <1>5, <2>1, <2>3, <2>5
    <3> QED BY <1>1, <1>3, <1>4, <2>1, <3>1, <3>2, SameCall DEF Pointing
  <2>7. \A p \in (TookX' + 1)..nX : mem'[end_x' - nX - 1 + p] = SX[p]
    <3> SUFFICES ASSUME NEW p \in src1..n1 PROVE mem'[end_x' - nX - 1 + p] = SX[p]
      BY <1>5, <2>3, <2>5
    <3>1. end_x' - nX - 1 + p = aux + p - src1 /\ p \in 1..n1
      BY <1>5, <1>6, <2>1, <2>3
    <3> QED BY <1>7, <2>4, <3>1
  <2>8. \A q \in (TookY' + 1)..nY : mem'[YStart - 1 + q] = SY[q]
    <3> SUFFICES ASSUME NEW q \in 1..n2 PROVE mem'[YStart - 1 + q] = SY[q]
      BY <1>5, <2>5
    <3>1. YStart - 1 + q = n1 + 1 + q /\ n1 + 1 + q \in 1..MemSize /\ n1 + 1 + q < aux
      BY <1>4, <1>5
    <3> QED BY <1>7, <2>4, <3>1
  <2>9. \A p \in Gaps : mem'[p] = Vacant
    <3> SUFFICES ASSUME NEW p \in Gaps PROVE mem'[p] = Vacant
      OBVIOUS
    <3>1. p = n1 + 1 \/ p = n1 + n2 + 2
      BY DEF Gaps
    <3>2. p < aux
      BY <1>5, <3>1
    <3> QED BY <1>7, <2>4, <3>2
  <2>10. \A p \in 1..(src1 - 1) : p \in 1..n1 /\ KX[p] <= KY[1]
    <3> SUFFICES ASSUME NEW p \in 1..(src1 - 1) PROVE p \in 1..n1 /\ KX[p] <= KY[1]
      OBVIOUS
    <3>1. p \in 1..n1 /\ p \in x..(src1 - 1)
      BY <1>5, <1>6, <2>3
    <3>2. y # end_y /\ n2 > 0 /\ 1 \in 1..n2
      BY <1>5, <1>6, <1>11 DEF XBeforeY
    <3>3. mem[y] = SY[1] /\ mem[p] = SX[p]
      <4>1. y = n1 + 1 + 1
        BY <1>5, <1>6
      <4> QED BY <1>7, <3>1, <3>2, <4>1
    <3>4. SY[1].key = KY[1] /\ SX[p].key = KX[p] /\ KY[1] \in Int /\ KX[p] \in Int
      BY <1>5, <3>1, <3>2, ElementsOf
    <3>5. ~(KY[1] < KX[p])
      BY <2>2, <3>1, <3>3, <3>4 DEF comp
    <3> QED BY <3>1, <3>4, <3>5
  <2>11. Written(mem', src1 - 1, 0)
    <3>1. \A d \in 1..(src1 - 1) : mem'[Spot(0 + 0 + d)] = SX[0 + d]
      <4> SUFFICES ASSUME NEW d \in 1..(src1 - 1) PROVE mem'[Spot(d)] = SX[d]
        BY <2>3
      <4>1. d \in 1..n1 /\ d \in 1..MemSize /\ d < aux
        BY <1>4, <1>5, <2>3
      <4> QED BY <1>7, <1>8, <2>4, <4>1
    <3>2. Written(mem', 0 + (src1 - 1), 0)
      <4>1. /\ 0 \in Nat /\ src1 - 1 \in Nat /\ 0 + (src1 - 1) <= nX /\ 0 <= nY
            /\ \A k \in 1..(0 + 0) : mem'[Spot(k)] = mem[Spot(k)]
        BY <1>5, <2>3
      <4> QED BY <1>5, <1>7, <3>1, <4>1, AppendX, Zenon
    <3>3. 0 + (src1 - 1) = src1 - 1
      BY <2>3
    <3> QED BY <3>2, <3>3
  <2>12. Ahead(src1 - 1, 0)
    <3>1. src1 - 1 > 0 /\ 0 < nY => KX[0 + (src1 - 1)] <= KY[0 + 1]
      BY <2>3, <2>10
    <3>2. Ahead(0 + (src1 - 1), 0)
      <4>1. 0 \in Nat /\ src1 - 1 \in Nat /\ 0 + (src1 - 1) <= nX /\ 0 <= nY
        BY <1>5, <2>3
      <4> QED BY <1>5, <1>7, <3>1, <4>1, AheadX
    <3>3. 0 + (src1 - 1) = src1 - 1
      BY <2>3
    <3> QED BY <3>2, <3>3
  <2>13. merge_pc' # "done"
    BY <2>1
  <2> QED BY <1>1, <2>4, <2>5, <2>6, <2>7, <2>8, <2>9, <2>11, <2>12, <2>13, Preserved
<1> QED BY <1>10, <1>11

LEMMA AuxRestStep ==
  ASSUME MergeInv, AuxRest
  PROVE  MergeInv'
<1> DEFINE n == end_out - out
           m == Moved(mem, out, x, x + n)
           m2 == Moved(m, next_out, x + n, end_x)
<1>1. /\ merge_pc = "fill" /\ merge_pc # "done" /\ merge_pc' = "done"
      /\ merge_call' = merge_call /\ UNCHANGED Pointers
      /\ Kernel = "uncontiguous" /\ y = end_y /\ mem' = m2
  BY DEF AuxRest, Done, Kernel
<1>2. /\ merge_call \in MergeCalls /\ nX \in Nat /\ nY \in Nat /\ n1 + n2 = nX + nY
      /\ x \in Int /\ end_x \in Int /\ y \in Int /\ end_y \in Int /\ out \in Int
      /\ TookX \in 0..nX /\ TookY \in 0..nY
      /\ end_x - x = nX - TookX /\ end_y - y = nY - TookY
      /\ x <= end_x /\ end_x <= MemSize + 1 /\ MemSize \in Nat
      /\ DOMAIN mem = 1..MemSize
      /\ \A p \in x..(end_x - 1) : mem[p] = SX[TookX + 1 + (p - x)]
      /\ Written(mem, TookX, TookY) /\ Ahead(TookX, TookY)
  BY <1>1, Standing
<1>3. /\ TookX + TookY <= n1
      /\ out = Origin + TookX + TookY + 1 /\ end_out = Origin + n1 + 1
      /\ nX = n1 /\ nY = n2 /\ next_out = YStart /\ YStart = Origin + n1 + 2
      /\ n1 \in Nat /\ n2 \in Nat
      /\ \A k \in 1..n1 : Spot(k) = Origin + k
      /\ \A k \in (n1 + 1)..(n1 + n2) : Spot(k) = YStart + (k - n1 - 1)
      /\ x >= n1 + n2 + 3
  BY <1>1, WhereFill
<1>4. Origin = 0 /\ MemSize = 2 * n1 + n2 + 2
  BY <1>1 DEF Origin, MemSize
<1>5. /\ TookX \in Nat /\ TookX <= n1 /\ TookY = n2 /\ TookX + n2 <= n1
      /\ out = TookX + n2 + 1 /\ n = n1 - TookX - n2 /\ next_out = n1 + 2
      /\ end_x = x + (n1 - TookX)
  <2>1. /\ nX = n1 /\ nY = n2 /\ n1 \in Nat /\ n2 \in Nat /\ Origin = 0
        /\ TookX + TookY <= n1 /\ next_out = YStart /\ YStart = Origin + n1 + 2
        /\ out = Origin + TookX + TookY + 1 /\ end_out = Origin + n1 + 1
    BY <1>3, <1>4
  <2>2. /\ x \in Int /\ end_x \in Int /\ y \in Int /\ y = end_y
        /\ TookX \in 0..nX /\ TookY \in 0..nY
        /\ end_x - x = nX - TookX /\ end_y - y = nY - TookY
    BY <1>1, <1>2
  <2>3. TookX \in Nat /\ TookY \in Nat /\ TookX <= n1 /\ TookY = n2
    BY <2>1, <2>2
  <2> QED BY <2>1, <2>2, <2>3
<1>6. /\ x \in Int /\ end_x \in Int /\ out \in Int /\ n \in Nat
      /\ n1 \in Nat /\ n2 \in Nat /\ TookX \in Nat /\ TookY \in Nat
      /\ TookY = n2 /\ TookX + n2 <= n1 /\ out = TookX + n2 + 1 /\ n = n1 - TookX - n2
      /\ next_out = n1 + 2 /\ end_x = x + (n1 - TookX)
  <2>1. x \in Int /\ end_x \in Int /\ out \in Int
    BY <1>2
  <2>2. n1 \in Nat /\ n2 \in Nat
    BY <1>3
  <2> QED BY <1>5, <2>1, <2>2
<1> HIDE DEF n
<1>7. m = [p \in 1..MemSize |-> IF p \in out..n1 THEN mem[x + p - out] ELSE mem[p]]
  <2>1. out + (x + n) - x - 1 = n1
    BY <1>6
  <2> QED BY <1>2, <2>1 DEF Moved
<1> HIDE DEF m
<1>8. mem' = [p \in 1..MemSize |-> IF p \in (n1 + 2)..(n1 + n2 + 1)
                                  THEN m[x + n + p - (n1 + 2)] ELSE m[p]]
  <2>1. next_out + end_x - (x + n) - 1 = n1 + n2 + 1
    BY <1>6
  <2> QED BY <1>1, <1>5, <1>7, <2>1 DEF Moved
<1> HIDE DEF m2
<1>9. /\ \A p \in out..n1 : mem'[p] = mem[x + p - out]
      /\ \A p \in (n1 + 2)..(n1 + n2 + 1) : mem'[p] = mem[x + n + p - (n1 + 2)]
      /\ \A p \in 1..MemSize :
           p \notin out..n1 /\ p \notin (n1 + 2)..(n1 + n2 + 1) => mem'[p] = mem[p]
  <2>1. \A p \in out..n1 : p \in 1..MemSize /\ p \notin (n1 + 2)..(n1 + n2 + 1)
    BY <1>2, <1>3, <1>4, <1>5
  <2>2. \A p \in (n1 + 2)..(n1 + n2 + 1) :
          /\ p \in 1..MemSize
          /\ x + n + p - (n1 + 2) \in 1..MemSize
          /\ x + n + p - (n1 + 2) \notin out..n1
    BY <1>2, <1>3, <1>4, <1>5
  <2>3. \A p \in out..n1 : mem'[p] = mem[x + p - out]
    BY <1>7, <1>8, <2>1
  <2>4. \A p \in (n1 + 2)..(n1 + n2 + 1) : mem'[p] = mem[x + n + p - (n1 + 2)]
    BY <1>7, <1>8, <2>2
  <2> QED BY <1>7, <1>8, <2>3, <2>4
<1>10. ASSUME NEW d \in 1..(n1 - TookX) PROVE mem'[Spot(TookX + TookY + d)] = SX[TookX + d]
  <2>1. /\ x + (d - 1) \in x..(end_x - 1) /\ TookX + 1 + ((x + (d - 1)) - x) = TookX + d
    BY <1>6
  <2>2. mem[x + (d - 1)] = SX[TookX + d]
    BY <1>2, <2>1
  <2>3. CASE d <= n
    <3>1. /\ TookX + TookY + d \in 1..n1 /\ TookX + TookY + d \in out..n1
          /\ x + (TookX + TookY + d) - out = x + (d - 1)
      BY <1>6, <2>3
    <3>2. Spot(TookX + TookY + d) = TookX + TookY + d
      BY <1>3, <1>4, <3>1
    <3>3. mem'[TookX + TookY + d] = mem[x + (TookX + TookY + d) - out]
      BY <1>9, <3>1
    <3> QED BY <2>2, <3>1, <3>2, <3>3
  <2>4. CASE d > n
    <3> DEFINE p == TookX + TookY + d + 1
    <3>a. /\ d \in Int /\ p \in Int /\ p = TookX + n2 + d + 1
          /\ d <= n1 - TookX /\ n1 - TookX - n2 < d
      BY <1>6, <2>4
    <3>b. TookX + TookY + d = p - 1
      BY <1>6
    <3> HIDE DEF p
    <3>c. p \in (n1 + 2)..(n1 + n2 + 1) /\ p - 1 \in (n1 + 1)..(n1 + n2)
      BY <1>6, <3>a
    <3>d. x + n + p - (n1 + 2) = x + (d - 1)
      BY <1>6, <3>a
    <3>e. n1 + 2 + ((p - 1) - n1 - 1) = p
      BY <1>6, <3>a
    <3>1. /\ TookX + TookY + d \in (n1 + 1)..(n1 + n2) /\ p \in (n1 + 2)..(n1 + n2 + 1)
          /\ x + n + p - (n1 + 2) = x + (d - 1)
          /\ n1 + 2 + ((TookX + TookY + d) - n1 - 1) = p
      BY <3>b, <3>c, <3>d, <3>e
    <3>2. Spot(TookX + TookY + d) = YStart + ((TookX + TookY + d) - n1 - 1)
      BY <1>3, <3>1
    <3>3. YStart = n1 + 2
      BY <1>3, <1>5
    <3>4. mem'[p] = mem[x + n + p - (n1 + 2)]
      BY <1>9, <3>1
    <3> QED BY <2>2, <3>1, <3>2, <3>3, <3>4
  <2> QED BY <1>3, <1>5, <2>3, <2>4
<1>11. \A k \in 1..(TookX + TookY) : mem'[Spot(k)] = mem[Spot(k)]
  <2> SUFFICES ASSUME NEW k \in 1..(TookX + TookY) PROVE mem'[Spot(k)] = mem[Spot(k)]
    OBVIOUS
  <2>1. k \in 1..n1 /\ k \in 1..MemSize /\ k \notin out..n1 /\ k \notin (n1 + 2)..(n1 + n2 + 1)
    BY <1>3, <1>4, <1>5
  <2>2. Spot(k) = k
    BY <1>3, <1>4, <2>1
  <2> QED BY <1>9, <2>1, <2>2
<1>12. Written(mem', nX, nY)
  <2>1. /\ TookX \in Nat /\ TookY \in Nat /\ n1 - TookX \in Nat
        /\ TookX + (n1 - TookX) <= nX /\ TookY <= nY
    BY <1>3, <1>5
  <2>2. Written(mem', TookX + (n1 - TookX), TookY)
    BY <1>2, <1>10, <1>11, <2>1, AppendX, Zenon
  <2>3. TookX + (n1 - TookX) = nX /\ TookY = nY
    BY <1>3, <1>5
  <2> QED BY <2>2, <2>3
<1>13. \A p \in Gaps : mem'[p] = Vacant
  <2> SUFFICES ASSUME NEW p \in Gaps PROVE mem'[p] = Vacant
    OBVIOUS
  <2>1. (p = n1 + 1 \/ p = n1 + n2 + 2) /\ p \in 1..MemSize /\ mem[p] = Vacant
    BY DEF Gaps, MergeInv, GapsFree
  <2>2. p \notin out..n1 /\ p \notin (n1 + 2)..(n1 + n2 + 1)
    BY <1>3, <2>1
  <2> QED BY <1>9, <2>1, <2>2
<1>14. Pointing'
  BY <1>1, SameCall DEF MergeInv, Pointing, Pointers
<1>15. DOMAIN mem' = 1..MemSize
  BY <1>8
<1> QED BY <1>1, <1>12, <1>13, <1>14, <1>15, Preserved

LEMMA FlowRestStep ==
  ASSUME MergeInv, FlowRest
  PROVE  MergeInv'
<1>1. /\ merge_pc = "fill" /\ merge_pc # "done" /\ merge_pc' = "done"
      /\ merge_call' = merge_call /\ UNCHANGED Pointers
      /\ Kernel = "flow" /\ out = end_out /\ (x = end_x \/ y = end_y)
      /\ mem' = IF x = end_x THEN mem ELSE Moved(mem, next_out, 1, end_x)
  BY DEF FlowRest, Done, Kernel
<1>2. /\ merge_call \in MergeCalls /\ DOMAIN mem = 1..MemSize
      /\ Written(mem, TookX, TookY) /\ Ahead(TookX, TookY)
      /\ \A p \in x..(end_x - 1) : mem[p] = SX[TookX + 1 + (p - x)]
      /\ \A p \in y..(end_y - 1) : mem[p] = SY[TookY + 1 + (p - y)]
  BY <1>1, Standing
<1>3. /\ x \in Int /\ end_x \in Int /\ y \in Int /\ end_y \in Int /\ out \in Int
      /\ nX \in Nat /\ nY \in Nat /\ TookX \in 0..nX /\ TookY \in 0..nY
      /\ end_x - x = nX - TookX /\ end_y - y = nY - TookY
      /\ y = YStart + TookY /\ end_y <= MemSize + 1 /\ MemSize \in Nat
      /\ n1 + n2 = nX + nY
  BY <1>1, Standing
<1>4. /\ out = Origin + TookX + TookY + 1 /\ end_out = Origin + n1 + 1
      /\ nX = n1 /\ nY = n1 /\ n1 = n2 /\ n1 \in Nat /\ n2 \in Nat /\ Origin \in Nat
      /\ next_out = YStart /\ YStart = Origin + n1 + 2
      /\ end_x = nX + 1 /\ nX = Origin - 1
      /\ \A k \in 1..n1 : Spot(k) = Origin + k
      /\ \A k \in (n1 + 1)..(n1 + n2) : Spot(k) = YStart + (k - n1 - 1)
  BY <1>1, WhereFill
<1>5. TookX + TookY = n1
  <2>1. Origin + TookX + TookY + 1 = Origin + n1 + 1
    BY <1>1, <1>4
  <2>2. TookX \in Int /\ TookY \in Int /\ n1 \in Int /\ Origin \in Int
    BY <1>3, <1>4
  <2> QED BY <2>1, <2>2
<1>6. ASSUME NEW d \in 1..n1
      PROVE  Spot(TookX + TookY + d) = YStart - 1 + d
  <2>1. /\ TookX + TookY + d = n1 + d /\ n1 + d \in (n1 + 1)..(n1 + n2)
        /\ YStart + ((n1 + d) - n1 - 1) = YStart - 1 + d
    BY <1>4, <1>5
  <2>2. Spot(n1 + d) = YStart + ((n1 + d) - n1 - 1)
    BY <1>4, <2>1
  <2> QED BY <2>1, <2>2
<1>7. Pointing'
  BY <1>1, SameCall DEF MergeInv, Pointing, Pointers
<1>8. \A p \in Gaps : p \in 1..MemSize /\ mem[p] = Vacant
  BY DEF MergeInv, GapsFree, Gaps
<1>9. CASE x = end_x
  <2>1. mem' = mem
    BY <1>1, <1>9
  <2>2. TookX = n1 /\ TookY = 0 /\ y = YStart /\ YStart \in Int /\ end_y = y + n1
    BY <1>3, <1>4, <1>5, <1>9
  <2>3. ASSUME NEW d \in 1..n1 PROVE mem[Spot(TookX + TookY + d)] = SY[TookY + d]
    <3>1. /\ YStart - 1 + d \in y..(end_y - 1)
          /\ TookY + 1 + ((YStart - 1 + d) - y) = TookY + d
      BY <1>4, <2>2
    <3>2. mem[YStart - 1 + d] = SY[TookY + 1 + ((YStart - 1 + d) - y)]
      BY <1>2, <3>1
    <3>3. Spot(TookX + TookY + d) = YStart - 1 + d
      BY <1>6
    <3> QED BY <3>1, <3>2, <3>3
  <2>4. Written(mem, TookX, TookY + n1)
    <3>1. /\ TookX \in Nat /\ TookY \in Nat /\ TookX <= nX /\ TookY + n1 <= nY
          /\ \A k \in 1..(TookX + TookY) : mem[Spot(k)] = mem[Spot(k)]
      BY <1>4, <2>2
    <3> QED BY <1>2, <1>4, <2>3, <3>1, AppendY, Zenon
  <2>5. TookX = nX /\ TookY + n1 = nY
    BY <1>4, <2>2
  <2>6. Written(mem', nX, nY)
    BY <2>1, <2>4, <2>5
  <2> QED BY <1>1, <1>2, <1>7, <1>8, <2>1, <2>6, Preserved
<1>10. CASE x # end_x
  <2>1. mem' = Moved(mem, YStart, 1, end_x)
    BY <1>1, <1>4, <1>10
  <2>2. TookX = 0 /\ TookY = n1 /\ x = 1 /\ end_x = n1 + 1 /\ YStart \in Int
        /\ YStart + n1 = end_y /\ n1 + 1 < YStart /\ n1 + n2 + 2 < YStart
    BY <1>1, <1>3, <1>4, <1>5, <1>10
  <2>3. /\ DOMAIN mem' = 1..MemSize
        /\ \A d \in 1..n1 : mem'[YStart - 1 + d] = mem[d]
        /\ \A p \in 1..MemSize : p < YStart => mem'[p] = mem[p]
    <3>1. mem' = [p \in 1..MemSize |-> IF p \in YStart..(YStart + n1 - 1)
                                       THEN mem[1 + p - YStart] ELSE mem[p]]
      <4>1. YStart + end_x - 1 - 1 = YStart + n1 - 1
        BY <1>4, <2>2
      <4> QED BY <1>2, <2>1, <4>1 DEF Moved
    <3>2. \A d \in 1..n1 : /\ YStart - 1 + d \in YStart..(YStart + n1 - 1)
                           /\ YStart - 1 + d \in 1..MemSize
                           /\ 1 + (YStart - 1 + d) - YStart = d
      BY <1>3, <1>4, <2>2
    <3>3. DOMAIN mem' = 1..MemSize
      BY <3>1
    <3>4. \A p \in 1..MemSize : p < YStart => mem'[p] = mem[p]
      <4>1. YStart \in Int /\ n1 \in Nat /\ MemSize \in Nat
        BY <1>3, <1>4, <2>2
      <4> QED BY <3>1, <4>1
    <3>5. \A d \in 1..n1 : mem'[YStart - 1 + d] = mem[d]
      <4> SUFFICES ASSUME NEW d \in 1..n1 PROVE mem'[YStart - 1 + d] = mem[d]
        OBVIOUS
      <4>1. mem'[YStart - 1 + d] = mem[1 + (YStart - 1 + d) - YStart]
        BY <3>1, <3>2
      <4> QED BY <3>2, <4>1
    <3> QED BY <3>3, <3>4, <3>5
  <2>4. ASSUME NEW d \in 1..n1 PROVE mem'[Spot(TookX + TookY + d)] = SX[TookX + d]
    <3>1. d \in x..(end_x - 1) /\ TookX + 1 + (d - x) = TookX + d
      BY <1>4, <2>2
    <3>2. mem[d] = SX[TookX + 1 + (d - x)]
      BY <1>2, <3>1
    <3>3. Spot(TookX + TookY + d) = YStart - 1 + d
      BY <1>6
    <3> QED BY <2>3, <3>1, <3>2, <3>3
  <2>5. \A k \in 1..(TookX + TookY) : mem'[Spot(k)] = mem[Spot(k)]
    <3> SUFFICES ASSUME NEW k \in 1..n1 PROVE mem'[Spot(k)] = mem[Spot(k)]
      BY <1>5
    <3>1. Origin + k \in 1..MemSize /\ Origin + k < YStart
      BY <1>3, <1>4, <2>2
    <3>2. Spot(k) = Origin + k
      BY <1>4
    <3> QED BY <2>3, <3>1, <3>2
  <2>6. Written(mem', TookX + n1, TookY)
    <3>1. TookX \in Nat /\ TookY \in Nat /\ TookX + n1 <= nX /\ TookY <= nY
      BY <1>4, <2>2
    <3> QED BY <1>2, <1>4, <2>4, <2>5, <3>1, AppendX, Zenon
  <2>7. TookX + n1 = nX /\ TookY = nY
    BY <1>4, <2>2
  <2>8. Written(mem', nX, nY)
    BY <2>6, <2>7
  <2>9. \A p \in Gaps : mem'[p] = Vacant
    <3> SUFFICES ASSUME NEW p \in Gaps PROVE mem'[p] = Vacant
      OBVIOUS
    <3>1. p = n1 + 1 \/ p = n1 + n2 + 2
      BY DEF Gaps
    <3> QED BY <1>8, <2>2, <2>3, <3>1
  <2> QED BY <1>1, <1>7, <2>3, <2>8, <2>9, Preserved
<1> QED BY <1>9, <1>10

-----------------------------------------------------------------------------
(* The invariant. *)

LEMMA MergeInvInit == MInit => MergeInv
<1> SUFFICES ASSUME MInit PROVE MergeInv
  OBVIOUS
<1>1. merge_call \in MergeCalls /\ mem = Layout(merge_call)
  BY DEF MInit
<1>2. /\ Kernel \in {"merge", "half", "uncontiguous", "flow"}
      /\ n1 \in Nat /\ n2 \in Nat /\ nX \in Nat /\ nY \in Nat /\ n1 + n2 = nX + nY
      /\ Kernel = "flow" => n1 = n2 /\ nX = n2 /\ nY = n1
      /\ Kernel # "flow" => nX = n1 /\ nY = n2
  BY <1>1, CallShape, Spots
<1>3. /\ DOMAIN mem = 1..MemSize
      /\ \A p \in 1..nX : mem[p] = SX[p]
      /\ \A q \in 1..nY : mem[YStart - 1 + q] = SY[q]
      /\ \A p \in 1..MemSize :
           p \notin 1..nX /\ p \notin YStart..(YStart + nY - 1) => mem[p] = Vacant
      /\ YStart \in Nat /\ MemSize \in Nat /\ nX < YStart /\ YStart + nY - 1 <= MemSize
  BY <1>1, LayoutIs, Spots
<1>4. /\ merge_pc = IF Kernel \in {"merge", "half"} THEN "check" ELSE Kernel
      /\ x = 1 /\ end_x = nX + 1
      /\ y = YStart /\ end_y = YStart + nY
      /\ out = Origin + 1 /\ end_out = Origin + n1 + 1 /\ next_out = YStart
  <2>1. CASE Kernel = "merge"
    BY <1>2, <2>1 DEF MInit, Kernel, YStart, Origin
  <2>2. CASE Kernel = "half"
    BY <1>2, <2>2 DEF MInit, Kernel, YStart, Origin
  <2>3. CASE Kernel = "uncontiguous"
    BY <1>2, <2>3 DEF MInit, Kernel, YStart, Origin
  <2>4. CASE Kernel = "flow"
    BY <1>2, <2>4 DEF MInit, Kernel, YStart, Origin
  <2> QED BY <1>2, <2>1, <2>2, <2>3, <2>4
<1>5. TookX = 0 /\ TookY = 0
  BY <1>2, <1>3, <1>4 DEF TookX, TookY
<1>6. Origin \in Nat
  BY <1>1, Spots
<1>7. Pointing
  <2>1. /\ x \in Int /\ end_x \in Int /\ y \in Int /\ end_y \in Int /\ out \in Int
        /\ x <= end_x /\ end_x - x <= nX
        /\ y <= end_y /\ end_y - y <= nY
    BY <1>2, <1>3, <1>4, <1>6
  <2>2. Kernel \in {"merge", "half"} => out = Spot(TookX + TookY + 1)
    BY <1>4, <1>5, <1>6 DEF Spot, Fills
  <2>3. Kernel = "half" => y = out + (end_x - x)
    BY <1>2, <1>4 DEF YStart, Origin
  <2>4. merge_pc \in {"check", "uncontiguous", "flow"} /\ (Kernel \in {"merge", "half"} <=> merge_pc = "check")
        /\ (merge_pc \in {"uncontiguous", "flow"} => Kernel = merge_pc)
    BY <1>2, <1>4
  <2>5. merge_pc = "check" => ~Fills
    BY <2>4 DEF Fills
  <2> QED BY <1>4, <1>5, <2>1, <2>2, <2>3, <2>4, <2>5 DEF Pointing
<1>8. UnreadX(mem) /\ UnreadY(mem)
  <2>1. \A p \in 1..nX : end_x - nX - 1 + p = p
    BY <1>2, <1>4
  <2> QED BY <1>3, <1>5, <2>1 DEF UnreadX, UnreadY
<1>9. Written(mem, 0, 0) /\ Ahead(0, 0)
  BY DEF Written, Ahead
<1>10. GapsFree(mem)
  <2> SUFFICES ASSUME NEW p \in Gaps PROVE mem[p] = Vacant
    BY DEF GapsFree
  <2>1. /\ p = n1 + 1 \/ p = n1 + n2 + 2
        /\ p \in 1..MemSize /\ \A k \in 1..(n1 + n2) : p # Spot(k)
    BY DEF Gaps
  <2>2. p \notin 1..nX /\ p \notin YStart..(YStart + nY - 1)
    <3>1. CASE Kernel \in {"merge", "uncontiguous"}
      BY <1>2, <2>1, <3>1 DEF YStart
    <3>2. CASE Kernel = "flow"
      BY <1>2, <2>1, <3>2 DEF YStart
    <3>3. CASE Kernel = "half"
      <4>1. CASE p = n1 + 1
        BY <1>2, <3>3, <4>1 DEF YStart
      <4>2. CASE p = n1 + n2 + 2
        <5>1. p <= 2 * n1 + n2 + 1
          BY <2>1, <3>3 DEF MemSize
        <5>2. n2 + 1 \in 1..(n1 + n2)
          BY <1>2, <4>2, <5>1
        <5>3. Spot(n2 + 1) = p
          BY <1>2, <3>3, <4>2 DEF Spot, Origin, Fills
        <5> QED BY <2>1, <5>2, <5>3
      <4> QED BY <2>1, <4>1, <4>2
    <3> QED BY <1>2, <3>1, <3>2, <3>3
  <2> QED BY <1>3, <2>1, <2>2
<1>11. merge_pc # "done"
  BY <1>2, <1>4
<1> QED BY <1>1, <1>3, <1>5, <1>7, <1>8, <1>9, <1>10, <1>11 DEF MergeInv

(* Every step of the merges keeps the invariant. *)
THEOREM MergeInvariance == MSpec => []MergeInv
<1>1. MInit => MergeInv
  BY MergeInvInit
<1>2. MergeInv /\ [MNext]_mergeVars => MergeInv'
  <2> SUFFICES ASSUME MergeInv, [MNext]_mergeVars PROVE MergeInv'
    OBVIOUS
  <2>1. CASE Check
    BY <2>1, CheckStep
  <2>2. CASE Uncontiguous
    BY <2>2, UncontiguousStep
  <2>3. CASE Flow
    BY <2>3, FlowStep
  <2>4. CASE MergeTurn
    BY <2>4, MergeTurnStep
  <2>5. CASE MergeRest
    BY <2>5, MergeRestStep
  <2>6. CASE FillTurn
    BY <2>6, FillTurnStep
  <2>7. CASE AuxRest
    BY <2>7, AuxRestStep
  <2>8. CASE FillHalf
    BY <2>8, FillHalfStep
  <2>9. CASE FlowRest
    BY <2>9, FlowRestStep
  <2>10. CASE UNCHANGED mergeVars
    <3>1. /\ merge_call' = merge_call /\ mem' = mem /\ merge_pc' = merge_pc
          /\ UNCHANGED Pointers
      BY <2>10 DEF mergeVars, Pointers
    <3>2. TookX' = TookX /\ TookY' = TookY /\ end_x' = end_x
      BY <3>1, SameCall DEF TookX, TookY, Pointers
    <3>3. Pointing'
      <4>1. (Spot(TookX + TookY + 1))' = Spot(TookX + TookY + 1)
        BY <3>1, <3>2, SameCall DEF Spot
      <4> QED BY <3>1, <3>2, <4>1, SameCall DEF MergeInv, Pointing, Pointers
    <3>4. DOMAIN mem' = 1..MemSize /\ \A p \in Gaps : mem'[p] = Vacant
      BY <3>1 DEF MergeInv, GapsFree
    <3>5. merge_pc = "done" => Written(mem, nX, nY)
      BY DEF MergeInv
    <3>6. merge_pc # "done" => UnreadX(mem) /\ UnreadY(mem) /\ Written(mem, TookX, TookY)
                               /\ Ahead(TookX, TookY)
      BY DEF MergeInv
    <3> QED BY <3>1, <3>2, <3>3, <3>4, <3>5, <3>6, Preserved DEF UnreadX, UnreadY
  <2> QED BY <2>1, <2>2, <2>3, <2>4, <2>5, <2>6, <2>7, <2>8, <2>9, <2>10
        DEF MNext, MTerminated
<1> QED BY <1>1, <1>2, PTL DEF MSpec

(* However far the pointers have come, no merge writes over an element it has
   not read: it ends with every element it was given, once, in order and (but
   for merge_flow) stable, and what lies between is as it was. *)
THEOREM MergesRight == MSpec => []MergeRight
<1>1. MergeInv => MergeRight
  <2> SUFFICES ASSUME MergeInv, merge_pc = "done" PROVE MergeRight
    BY DEF MergeRight
  <2>1. /\ merge_call \in MergeCalls /\ DOMAIN mem = 1..MemSize
        /\ Written(mem, nX, nY) /\ GapsFree(mem)
    BY DEF MergeInv
  <2>2. /\ n1 \in Nat /\ n2 \in Nat /\ nX \in Nat /\ nY \in Nat /\ n1 + n2 = nX + nY
    BY <2>1, CallShape, Spots
  <2>3. Result = [k \in 1..(n1 + n2) |-> Spot(k)] /\ Len(Result) = n1 + n2
    BY <2>1, ResultIs
  <2> DEFINE places == {Result[i] : i \in DOMAIN Result}
  <2>4. places = {Spot(k) : k \in 1..(n1 + n2)}
    BY <2>3
  <2> HIDE DEF places
  <2>5. {mem[p] : p \in places} = {SX[p] : p \in 1..nX} \cup {SY[q] : q \in 1..nY}
    <3>1. /\ \A k \in 1..(nX + nY) : \/ \E p \in 1..nX : mem[Spot(k)] = SX[p]
                                    \/ \E q \in 1..nY : mem[Spot(k)] = SY[q]
          /\ \A p \in 1..nX : \E k \in 1..(nX + nY) : mem[Spot(k)] = SX[p]
          /\ \A q \in 1..nY : \E k \in 1..(nX + nY) : mem[Spot(k)] = SY[q]
      BY <2>1 DEF Written
    <3>2. {mem[p] : p \in places} = {mem[Spot(k)] : k \in 1..(nX + nY)}
      BY <2>2, <2>4
    <3>3. {mem[Spot(k)] : k \in 1..(nX + nY)}
            \subseteq {SX[p] : p \in 1..nX} \cup {SY[q] : q \in 1..nY}
      BY <3>1
    <3>4. {SX[p] : p \in 1..nX} \cup {SY[q] : q \in 1..nY}
            \subseteq {mem[Spot(k)] : k \in 1..(nX + nY)}
      BY <3>1
    <3> QED BY <3>2, <3>3, <3>4
  <2>6. {Layout(merge_call)[p] : p \in DOMAIN mem} \ {Vacant}
          = {SX[p] : p \in 1..nX} \cup {SY[q] : q \in 1..nY}
    <3> DEFINE L == Layout(merge_call)
    <3>1. /\ \A p \in 1..nX : L[p] = SX[p]
          /\ \A q \in 1..nY : L[YStart - 1 + q] = SY[q]
          /\ \A p \in 1..MemSize :
               p \notin 1..nX /\ p \notin YStart..(YStart + nY - 1) => L[p] = Vacant
          /\ YStart \in Nat /\ MemSize \in Nat /\ nX < YStart /\ YStart + nY - 1 <= MemSize
      BY <2>1, LayoutIs, Spots
    <3> HIDE DEF L
    <3>2. ASSUME NEW p \in 1..nX PROVE p \in 1..MemSize /\ SX[p] # Vacant
      <4>1. SX[p] = [key |-> KX[p], from |-> SX[p].from, nth |-> p]
            /\ KX[p] \in Int /\ SX[p].from \in {1, 2}
        BY <2>1, ElementsOf
      <4>2. SX[p] \in [key : Int, from : {1, 2}, nth : Nat]
        BY <2>2, <4>1
      <4> QED BY <2>2, <3>1, <4>2, KernelAssumption
    <3>3. ASSUME NEW q \in 1..nY PROVE YStart - 1 + q \in 1..MemSize /\ SY[q] # Vacant
      <4>1. SY[q] = [key |-> KY[q], from |-> SY[q].from, nth |-> q]
            /\ KY[q] \in Int /\ SY[q].from \in {1, 2}
        BY <2>1, <2>2, ElementsOf DEF SY, Element
      <4>2. SY[q] \in [key : Int, from : {1, 2}, nth : Nat]
        BY <2>2, <4>1
      <4> QED BY <2>2, <3>1, <4>2, KernelAssumption
    <3>4. ASSUME NEW p \in 1..MemSize, L[p] # Vacant
          PROVE  \/ \E r \in 1..nX : L[p] = SX[r]
                 \/ \E q \in 1..nY : L[p] = SY[q]
      <4>1. CASE p \in 1..nX
        BY <3>1, <4>1
      <4>2. CASE p \in YStart..(YStart + nY - 1)
        <5>1. p - YStart + 1 \in 1..nY /\ YStart - 1 + (p - YStart + 1) = p
          BY <2>2, <3>1, <4>2
        <5> QED BY <3>1, <5>1
      <4> QED BY <3>1, <3>4, <4>1, <4>2
    <3>5. {L[p] : p \in 1..MemSize} \ {Vacant}
            = {SX[p] : p \in 1..nX} \cup {SY[q] : q \in 1..nY}
      BY <3>1, <3>2, <3>3, <3>4
    <3> QED BY <2>1, <3>5 DEF L
  <2>7. ASSUME NEW i \in 1..(Len(Result) - 1)
        PROVE  Earlier(mem[Result[i]], mem[Result[i + 1]])
    <3>1. i \in 1..(nX + nY) /\ i + 1 \in 1..(nX + nY) /\ i < i + 1
      BY <2>2, <2>3
    <3>2. Result[i] = Spot(i) /\ Result[i + 1] = Spot(i + 1)
      BY <2>2, <2>3, <3>1
    <3>3. Earlier(mem[Spot(i)], mem[Spot(i + 1)])
      BY <2>1, <3>1 DEF Written
    <3> QED BY <3>2, <3>3
  <2>8. \A p \in ({n1 + 1, n1 + n2 + 2} \cap DOMAIN mem) \ places : mem[p] = Vacant
    <3> SUFFICES ASSUME NEW p \in ({n1 + 1, n1 + n2 + 2} \cap DOMAIN mem) \ places
                 PROVE  p \in Gaps
      BY <2>1 DEF GapsFree
    <3> QED BY <2>1, <2>4 DEF Gaps
  <2> QED BY <2>5, <2>6, <2>7, <2>8 DEF MergeRight, places, Earlier, Kernel
<1> QED BY <1>1, MergeInvariance, PTL

=============================================================================

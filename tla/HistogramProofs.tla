--------------------------- MODULE HistogramProofs ---------------------------
(***************************************************************************)
(* The histogram benchmarks count right and look only at mapped pages, for *)
(* any number of threads, any file and any sizes of tuples, windows and    *)
(* pages.                                                                  *)
(*                                                                         *)
(* The argument: a task's counters are the cardinalities of the sets of    *)
(* tuples it has passed (Counters), which nobody else's store changes, as  *)
(* the tasks' parts of the array lie apart.  What the main thread adds up  *)
(* are then the sizes of disjoint sets, and a fold of them is the size of  *)
(* their union (FoldCounts): this is the one induction of the proof.       *)
(***************************************************************************)
EXTENDS Histogram, FiniteSetTheorems, WellFoundedInduction, TLAPS

(* Numbers of bytes that are a number of tuples. *)
Whole(x) == \E k \in Nat : x = k * TUPLE_SIZE

Cells == 0..(n_threads * N_PARTITIONS - 1)
Tuples == 0..(file_size \div TUPLE_SIZE - 1)
PartitionOf(t) == get_partition(file[t * TUPLE_SIZE], file[t * TUPLE_SIZE + 1])

(* Task i's place in its segment, and the tuples of partition p before it. *)
Reached(i) ==
  CASE phase[i] = "new" -> From(i)
    [] phase[i] = "next" -> from[i]
    [] phase[i] \in {"load", "store"} -> window[i] + index[i]
    [] phase[i] \in {"delete", "deleted"} -> To(i)

Passed(i, p) ==
  {t \in Tuples : /\ From(i) <= t * TUPLE_SIZE /\ t * TUPLE_SIZE < Reached(i)
                  /\ PartitionOf(t) = p}

Typing ==
  /\ benchmark \in {"parallel", "single"} /\ file \in Files /\ CHUNK_SIZE \in ChunkSizes
  /\ pc \in {"start", "add", "done", "exit"}
  /\ added \in 0..n_threads
  /\ mem \in BOOLEAN
  /\ histogram \in [Cells -> Nat]
  /\ phase \in [Tasks -> {"new", "next", "load", "store", "delete", "deleted"}]
  /\ from \in [Tasks -> Nat]
  /\ buffer \in [Tasks -> Nat \cup {NullPtr}]
  /\ map_size \in [Tasks -> Nat]
  /\ mapped \in [Tasks -> SUBSET (Nat \X Nat)]
  /\ window \in [Tasks -> Nat]
  /\ sz \in [Tasks -> Nat]
  /\ index \in [Tasks -> Nat]
  /\ loaded \in [Tasks -> Nat]

(* The file divides when tasks are added, and the sum comes when they are gone. *)
Stages ==
  /\ pc \in {"start", "exit"} => added = 0
  /\ pc \in {"add", "done"} =>
       file_size % n_threads = 0 /\ mem = (benchmark = "single")
  /\ pc = "done" => AllDeleted /\ sum = file_size \div TUPLE_SIZE
  /\ \A i \in Tasks : i >= added <=> phase[i] = "new"

(* A window lies in its task's segment, in whole tuples. *)
InWindow(i) ==
  /\ From(i) <= window[i] /\ window[i] + sz[i] <= To(i)
  /\ index[i] < sz[i]
  /\ Whole(window[i]) /\ Whole(sz[i]) /\ Whole(index[i])

Windows ==
  \A i \in Tasks :
    /\ phase[i] = "next" =>
         From(i) <= from[i] /\ from[i] <= To(i) /\ Whole(from[i])
    /\ phase[i] = "new" => from[i] = From(i) /\ index[i] = 0
    /\ phase[i] \in {"load", "store"} => InWindow(i)

(* A reader's pages are those of its last mapping, until they are given back; a
   task with a segment has none. *)
Mappings ==
  \A i \in Tasks :
    /\ mapped[i] \subseteq Mapping(buffer[i], map_size[i])
    /\ phase[i] \in {"new", "deleted"} => mapped[i] = {}
    /\ benchmark = "single" => mapped[i] = {} /\ phase[i] # "next"
    /\ benchmark = "single" /\ phase[i] \in {"load", "store"} =>
         window[i] + sz[i] = To(i)
    /\ benchmark = "parallel" /\ phase[i] \in {"load", "store"} =>
         /\ mapped[i] = Mapping(buffer[i], map_size[i])
         /\ buffer[i] = window[i]
         /\ map_size[i] = sz[i] + (window[i] - get_page_num(window[i]) * PAGE_SIZE)
         /\ from[i] = window[i] + sz[i]

Counters ==
  \A i \in Tasks :
    /\ \A p \in Partitions : histogram[LocalHist(i) + p] = Cardinality(Passed(i, p))
    /\ phase[i] = "store" => loaded[i] = histogram[Cell(i)]

IInv == Typing /\ Stages /\ Windows /\ Mappings /\ Counters

-----------------------------------------------------------------------------
(* Arithmetic. *)

(* The least element of a set of numbers. *)
LEMMA Least ==
  ASSUME NEW S \in SUBSET Nat, S # {}
  PROVE  \E x \in S : \A y \in S : x <= y
<1> DEFINE R == OpToRel(<, Nat)
<1>1. IsWellFoundedOn(R, Nat)
  BY NatLessThanWellFounded
<1>2. \A x, y \in Nat : x < y => <<x, y>> \in R
  BY DEF OpToRel
<1> HIDE DEF R
<1>3. PICK x \in S : \A y \in S : ~ (<<y, x>> \in R)
  BY <1>1, WFMin, Zenon
<1>4. \A y \in S : ~ (y < x)
  BY <1>2, <1>3
<1> QED BY <1>4

LEMMA Multiples ==
  ASSUME NEW a \in Nat, NEW b \in Nat, NEW m \in Nat
  PROVE  /\ a * m \in Nat /\ b * m \in Nat
         /\ a < b => a * m + m <= b * m
<1>1. a * m \in Nat /\ b * m \in Nat
  OBVIOUS
<1>2. ASSUME a < b PROVE a * m + m <= b * m
  <2>1. PICK d \in Nat : b = a + 1 + d
    <3>1. b - a - 1 \in Nat /\ b = a + 1 + (b - a - 1)
      BY <1>2
    <3> QED BY <3>1
  <2>2. b * m = a * m + m + d * m /\ d * m \in Nat
    BY <2>1, Z3
  <2> QED BY <1>1, <2>2
<1> QED BY <1>1, <1>2


LEMMA Division ==
  ASSUME NEW k \in Nat, NEW n \in Nat \ {0}
  PROVE  /\ k \div n \in Nat /\ k % n \in 0..(n - 1) /\ k = (k \div n) * n + (k % n)
         /\ (k \div n) * n \in Nat
<1>0. n \in Nat /\ n > 0
  OBVIOUS
<1>1. k \div n \in Int /\ k % n \in 0..(n - 1) /\ k = n * (k \div n) + (k % n)
  BY <1>0
<1>2. k \div n >= 0
  BY <1>0
<1> DEFINE q == k \div n
<1>3. q \in Nat
  BY <1>1, <1>2
<1> HIDE DEF q
<1>4. n * q = q * n /\ q * n \in Nat
  BY <1>3
<1> QED BY <1>1, <1>3, <1>4 DEF q

(* A number has one quotient and one remainder. *)
LEMMA Digits ==
  ASSUME NEW m \in Nat, NEW n \in Nat, NEW a \in 0..(m - 1), NEW b \in 0..(n - 1)
  PROVE  /\ a * n + b \in 0..(m * n - 1)
         /\ \A c \in Nat, d \in 0..(n - 1) : a * n + b = c * n + d => a = c /\ b = d
<1>1. a \in Nat /\ b \in Nat /\ a < m /\ b < n
  OBVIOUS
<1>2. a * n \in Nat /\ m * n \in Nat /\ a * n + n <= m * n
  BY <1>1, Multiples
<1>3. ASSUME NEW c \in Nat, NEW d \in 0..(n - 1), a * n + b = c * n + d
      PROVE  a = c /\ b = d
  <2>1. c * n \in Nat /\ d \in Nat /\ d < n
    BY <1>1, Multiples
  <2>2. ~(a < c)
    <3>1. a < c => a * n + n <= c * n
      BY <1>1, Multiples
    <3> QED BY <1>1, <1>2, <1>3, <2>1, <3>1
  <2>3. ~(c < a)
    <3>1. c < a => c * n + n <= a * n
      BY <1>1, Multiples
    <3> QED BY <1>1, <1>2, <1>3, <2>1, <3>1
  <2>4. a = c
    BY <1>1, <2>2, <2>3
  <2> QED BY <1>1, <1>2, <1>3, <2>1, <2>4
<1> QED BY <1>1, <1>2, <1>3

LEMMA QuotientBelow ==
  ASSUME NEW m \in Nat, NEW n \in Nat \ {0}, NEW k \in Nat, k < m * n
  PROVE  k \div n \in 0..(m - 1)
<1> DEFINE q == k \div n
<1>1. q \in Nat /\ q * n \in Nat /\ q * n <= k
  BY Division
<1> HIDE DEF q
<1>2. ~(m <= q)
  <2>1. m * n \in Nat
    BY Multiples
  <2>2. m < q => m * n + n <= q * n
    BY <1>1, Multiples
  <2> QED BY <1>1, <2>1, <2>2
<1> QED BY <1>1, <1>2 DEF q

LEMMA Wholes ==
  /\ Whole(0)
  /\ \A x : Whole(x) => x \in Nat
  /\ \A x, y : Whole(x) /\ Whole(y) => Whole(x + y)
  /\ \A x, y : Whole(x) /\ Whole(y) /\ x < y => x + TUPLE_SIZE <= y
  /\ \A x, y : Whole(x) /\ Whole(y) /\ x <= y => Whole(y - x)
  /\ \A x : \A n \in Nat : Whole(x) => Whole(n * x)
  /\ Whole(TUPLE_SIZE)
<1>1. TUPLE_SIZE \in Nat
  BY HistogramAssumption
<1> DEFINE T == TUPLE_SIZE
<1> HIDE DEF T
<1>2. T \in Nat
  BY <1>1 DEF T
<1>3. 0 = 0 * T /\ T = 1 * T
  BY <1>2
<1>4. \A k \in Nat : k * T \in Nat
  BY <1>2, Multiples
<1>5. ASSUME NEW j \in Nat, NEW k \in Nat
      PROVE  /\ j * T + k * T = (j + k) * T /\ j + k \in Nat
             /\ j * T < k * T => j * T + T <= k * T
             /\ j * T <= k * T => \E l \in Nat : k * T - j * T = l * T
             /\ j * (k * T) = (j * k) * T /\ j * k \in Nat
  <2>1. j * T \in Nat /\ k * T \in Nat
    BY <1>4
  <2>2. j * T + k * T = (j + k) * T
    BY <1>2
  <2>3. j * (k * T) = (j * k) * T /\ j * k \in Nat
    BY <1>2, Z3
  <2>4. j * T < k * T => j * T + T <= k * T
    <3>1. j < k => j * T + T <= k * T
      BY <1>2, Multiples
    <3>2. k < j => k * T + T <= j * T
      BY <1>2, Multiples
    <3> QED BY <1>2, <2>1, <3>1, <3>2
  <2>5. ASSUME j * T <= k * T PROVE \E l \in Nat : k * T - j * T = l * T
    <3>1. CASE j <= k
      <4>1. k - j \in Nat /\ (k - j) * T = k * T - j * T
        BY <1>2, <3>1
      <4> QED BY <4>1
    <3>2. CASE k < j
      <4>1. k * T + T <= j * T
        BY <1>2, <3>2, Multiples
      <4>2. k * T - j * T = 0
        BY <1>2, <2>1, <2>5, <4>1
      <4> QED BY <1>3, <4>2
    <3> QED BY <3>1, <3>2
  <2> QED BY <2>2, <2>3, <2>4, <2>5
<1>6. \A x : Whole(x) <=> \E k \in Nat : x = k * T
  BY DEF Whole, T
<1>7. \A x, y : Whole(x) /\ Whole(y) => Whole(x + y)
  BY <1>5, <1>6
<1>8. \A x, y : Whole(x) /\ Whole(y) /\ x < y => x + T <= y
  BY <1>5, <1>6
<1>9. \A x, y : Whole(x) /\ Whole(y) /\ x <= y => Whole(y - x)
  BY <1>5, <1>6
<1>10. \A x : \A n \in Nat : Whole(x) => Whole(n * x)
  BY <1>5, <1>6
<1>11. Whole(0) /\ Whole(T) /\ (\A x : Whole(x) => x \in Nat)
  BY <1>3, <1>4, <1>6
<1> QED BY <1>7, <1>8, <1>9, <1>10, <1>11 DEF T

LEMMA Quotient ==
  ASSUME NEW k \in Nat, NEW n \in Nat \ {0}, NEW q \in Nat, q * n <= k, k < q * n + n
  PROVE  k \div n = q
<1> DEFINE d == k \div n
           r == k % n
<1>1. d \in Nat /\ r \in 0..(n - 1) /\ k = d * n + r /\ d * n \in Nat /\ q * n \in Nat
  BY Division, Multiples
<1> HIDE DEF d, r
<1>2. ~(d < q)
  <2>1. d < q => d * n + n <= q * n
    BY <1>1, Multiples
  <2> QED BY <1>1, <2>1
<1>3. ~(q < d)
  <2>1. q < d => q * n + n <= d * n
    BY <1>1, Multiples
  <2> QED BY <1>1, <2>1
<1> QED BY <1>1, <1>2, <1>3 DEF d

(* The pages of a mapping that begins at the page of b and goes on to the end of
   s bytes from b are the pages of these bytes. *)
LEMMA Pages ==
  ASSUME NEW b \in Nat, NEW s \in Nat \ {0}, NEW P \in Nat \ {0}
  PROVE  {b \div P + n : n \in 0..(((s + (b - (b \div P) * P)) + P - 1) \div P - 1)}
           = {(b + k) \div P : k \in 0..(s - 1)}
<1> DEFINE q == b \div P
           a == b - q * P
           c == ((s + a) + P - 1) \div P
<1>1. q \in Nat /\ q * P \in Nat /\ a \in Nat /\ a < P /\ b = q * P + a
  <2>1. q \in Nat /\ q * P \in Nat /\ b % P \in 0..(P - 1) /\ b = q * P + (b % P)
    BY Division
  <2> QED BY <2>1
<1> HIDE DEF q, a
<1>2. c \in Nat /\ c * P \in Nat /\ s + a <= c * P /\ c * P <= (s + a) + P - 1
  <2> DEFINE x == (s + a) + P - 1
  <2>1. x \in Nat
    BY <1>1
  <2>2. c \in Nat /\ c * P \in Nat /\ x % P \in 0..(P - 1) /\ x = c * P + (x % P)
    BY <2>1, Division
  <2> HIDE DEF c
  <2> QED BY <1>1, <2>1, <2>2
<1> HIDE DEF c
<1>3. ASSUME NEW n \in 0..(c - 1)
      PROVE  \E k \in 0..(s - 1) : (b + k) \div P = q + n
  <2>1. n \in Nat /\ n * P \in Nat /\ n * P + P <= c * P
    BY <1>2, Multiples
  <2>2. CASE n = 0
    BY <1>1, <2>2 DEF q
  <2>3. CASE n # 0
    <3>1. P <= n * P
      <4>1. 0 * P + P <= n * P /\ 0 * P = 0
        BY <2>1, <2>3, Multiples
      <4> QED BY <4>1
    <3>2. n * P - a \in 0..(s - 1)
      BY <1>1, <1>2, <2>1, <3>1
    <3>3. (q + n) * P = q * P + n * P
      BY <1>1, <2>1
    <3>4. b + (n * P - a) = (q + n) * P /\ q + n \in Nat /\ (q + n) * P \in Nat
      BY <1>1, <2>1, <3>3
    <3>5. (b + (n * P - a)) \div P = q + n
      BY <3>4, Quotient
    <3> QED BY <3>2, <3>5
  <2> QED BY <2>2, <2>3
<1>4. ASSUME NEW k \in 0..(s - 1)
      PROVE  \E n \in 0..(c - 1) : (b + k) \div P = q + n
  <2> DEFINE r == (b + k) \div P
  <2>0. b + k \in Nat
    OBVIOUS
  <2>1. /\ r \in Nat /\ r * P \in Nat /\ (b + k) % P \in 0..(P - 1)
        /\ b + k = r * P + ((b + k) % P)
    BY <2>0, Division
  <2> HIDE DEF r
  <2>2. ~(r < q)
    <3>1. r < q => r * P + P <= q * P
      BY <1>1, <2>1, Multiples
    <3> QED BY <1>1, <2>1, <3>1
  <2>3. r - q \in Nat /\ (r - q) * P = r * P - q * P
    BY <1>1, <2>1, <2>2
  <2>4. (r - q) * P < c * P
    BY <1>1, <1>2, <2>1, <2>3
  <2>5. ~(c < r - q) /\ c # r - q
    <3>1. c < r - q => c * P + P <= (r - q) * P
      BY <1>2, <2>3, Multiples
    <3> QED BY <1>2, <2>3, <2>4, <3>1
  <2>6. r - q \in 0..(c - 1) /\ r = q + (r - q)
    BY <1>1, <1>2, <2>1, <2>3, <2>5
  <2> QED BY <2>6 DEF r
<1>5. {q + n : n \in 0..(c - 1)} = {(b + k) \div P : k \in 0..(s - 1)}
  <2>1. ASSUME NEW x \in {q + n : n \in 0..(c - 1)}
        PROVE  x \in {(b + k) \div P : k \in 0..(s - 1)}
    <3>1. PICK n \in 0..(c - 1) : x = q + n
      OBVIOUS
    <3>2. PICK k \in 0..(s - 1) : (b + k) \div P = q + n
      BY <1>3
    <3> QED BY <3>1, <3>2
  <2>2. ASSUME NEW x \in {(b + k) \div P : k \in 0..(s - 1)}
        PROVE  x \in {q + n : n \in 0..(c - 1)}
    <3>1. PICK k \in 0..(s - 1) : x = (b + k) \div P
      OBVIOUS
    <3> QED BY <1>4, <3>1
  <2> QED BY <2>1, <2>2
<1> QED BY <1>5 DEF q, a, c

LEMMA Below ==
  ASSUME NEW m \in Nat
  PROVE  IsFiniteSet(0..(m - 1)) /\ Cardinality(0..(m - 1)) = m
BY FS_Interval

(* A fold of the numbers of elements per owner is the number of all elements. *)
LEMMA FoldCounts ==
  ASSUME NEW S, IsFiniteSet(S), NEW T, IsFiniteSet(T), NEW own \in [T -> S],
         NEW fun, fun = [c \in S |-> Cardinality({t \in T : own[t] = c})]
  PROVE  Total(fun) = Cardinality(T)
<1> DEFINE Of(s) == {t \in T : own[t] \in s}
           One(s) == CHOOSE x \in s : TRUE
           Adds(f) == f = [s \in SUBSET S |->
                             IF s = {} THEN 0 ELSE fun[One(s)] + f[s \ {One(s)}]]
           sizes == [s \in SUBSET S |-> Cardinality(Of(s))]
           iter == CHOOSE f : Adds(f)
<1>1. Total(fun) = iter[S]
  BY DEF Total, FoldFunction, FoldFunctionOnSet, MapThenFoldSet
<1>2. ASSUME NEW s \in SUBSET S, s # {}
      PROVE  /\ One(s) \in s /\ s \ {One(s)} \in SUBSET S
             /\ Cardinality(Of(s)) = fun[One(s)] + Cardinality(Of(s \ {One(s)}))
  <2> PICK x : x = One(s)
    OBVIOUS
  <2>1. x \in s /\ x \in S
    BY <1>2
  <2> DEFINE A == {t \in T : own[t] = x}
             B == Of(s \ {x})
  <2>2. Of(s) = A \cup B /\ A \cap B = {} /\ A \in SUBSET T /\ B \in SUBSET T
    BY <2>1
  <2> HIDE DEF A, B
  <2>3. /\ IsFiniteSet(A) /\ IsFiniteSet(B)
        /\ Cardinality(A) \in Nat /\ Cardinality(B) \in Nat
    BY <2>2, FS_Subset, FS_CardinalityType
  <2>4. Cardinality(A \cup B) = Cardinality(A) + Cardinality(B)
    <3>1. Cardinality(A \cup B) =
            Cardinality(A) + Cardinality(B) - Cardinality(A \cap B)
      BY <2>3, FS_Union
    <3>2. Cardinality(A \cap B) = 0
      BY <2>2, FS_EmptySet
    <3> QED BY <2>3, <3>1, <3>2
  <2>5. fun[x] = Cardinality(A)
    BY <2>1 DEF A
  <2> QED BY <2>1, <2>2, <2>4, <2>5 DEF B
<1>3. Of({}) = {} /\ Cardinality(Of({})) = 0
  BY FS_EmptySet
<1> HIDE DEF Of, One
<1>4. Adds(sizes)
  <2> SUFFICES ASSUME NEW s \in SUBSET S
               PROVE  Cardinality(Of(s)) =
                        IF s = {} THEN 0 ELSE fun[One(s)] + sizes[s \ {One(s)}]
    OBVIOUS
  <2> QED BY <1>2, <1>3
<1>5. Adds(iter)
  <2> HIDE DEF Adds
  <2> QED BY <1>4
<1>6. ASSUME NEW s0 \in SUBSET S, iter[s0] # sizes[s0] PROVE FALSE
  <2> DEFINE Bad == {s \in SUBSET S : iter[s] # sizes[s]}
             D == {Cardinality(s) : s \in Bad}
  <2> HIDE DEF iter
  <2>1. \A s \in SUBSET S : IsFiniteSet(s) /\ Cardinality(s) \in Nat
    BY FS_Subset, FS_CardinalityType
  <2>2. D \in SUBSET Nat /\ D # {}
    BY <1>6, <2>1
  <2>3. PICK s \in Bad : \A u \in Bad : Cardinality(s) <= Cardinality(u)
    <3>1. PICK d \in D : \A e \in D : d <= e
      BY <2>2, Least
    <3> QED BY <3>1
  <2>4. iter[s] = IF s = {} THEN 0 ELSE fun[One(s)] + iter[s \ {One(s)}]
    BY <1>5
  <2>5. s # {}
    BY <1>3, <2>3, <2>4
  <2>6. /\ One(s) \in s /\ s \ {One(s)} \in SUBSET S
        /\ Cardinality(Of(s)) = fun[One(s)] + Cardinality(Of(s \ {One(s)}))
    BY <1>2, <2>5
  <2>7. Cardinality(s \ {One(s)}) = Cardinality(s) - 1
    <3>1. \A x \in s : Cardinality(s \ {x}) = Cardinality(s) - 1
      BY <2>1, FS_RemoveElement
    <3> QED BY <2>6, <3>1
  <2>8. s \ {One(s)} \notin Bad
    <3>1. Cardinality(s) \in Nat
      BY <2>1
    <3> HIDE DEF Bad
    <3>2. s \ {One(s)} \in Bad => Cardinality(s) <= Cardinality(s \ {One(s)})
      BY <2>3, Zenon
    <3> QED BY <2>7, <3>1, <3>2
  <2> QED BY <2>3, <2>4, <2>5, <2>6, <2>8
<1>7. Of(S) = T
  BY DEF Of
<1> QED BY <1>1, <1>6, <1>7

-----------------------------------------------------------------------------
(* Files, segments and tuples. *)

(* The file divides into segments, and the segments into tuples. *)
Divides == file \in Files /\ CHUNK_SIZE \in ChunkSizes /\ file_size % n_threads = 0

LEMMA Sizes ==
  ASSUME file \in Files
  PROVE  /\ file_size \in Nat /\ DOMAIN file = 0..(file_size - 1)
         /\ \A i \in DOMAIN file : file[i] \in Nat
         /\ segment_size \in Nat
         /\ \A i \in Tasks : From(i) \in Nat
         /\ n_threads \in Nat \ {0} /\ TUPLE_SIZE \in Nat \ {0, 1}
         /\ N_PARTITIONS \in Nat \ {0} /\ PAGE_SIZE \in Nat \ {0}
<1>1. /\ n_threads \in Nat \ {0} /\ TUPLE_SIZE \in Nat \ {0, 1}
      /\ N_PARTITIONS \in Nat \ {0} /\ PAGE_SIZE \in Nat \ {0}
  BY HistogramAssumption, PowersAssumption DEF N_PARTITIONS, PAGE_SIZE
<1>2. file_size \in Nat /\ DOMAIN file = 0..(file_size - 1)
  BY HistogramAssumption, FS_CardinalityType DEF file_size
<1>3. \A i \in DOMAIN file : file[i] \in Nat
  <2>1. 2^char_bits \in Nat
    BY PowersAssumption
  <2> QED BY <2>1, HistogramAssumption
<1>4. segment_size \in Nat
  BY <1>1, <1>2, Division DEF segment_size
<1>5. \A i \in Tasks : From(i) \in Nat
  BY <1>4, Multiples DEF From, Tasks
<1> QED BY <1>1, <1>2, <1>3, <1>4, <1>5

LEMMA Segments ==
  ASSUME Divides
  PROVE  /\ file_size = n_threads * segment_size
         /\ Whole(segment_size) /\ Whole(file_size)
         /\ chunk_size \in Nat /\ Whole(chunk_size)
         /\ chunk_size = 0 => segment_size = 0
         /\ \A i \in Tasks :
              /\ From(i) \in Nat /\ To(i) \in Nat
              /\ To(i) = From(i) + segment_size /\ To(i) <= file_size
              /\ Whole(From(i)) /\ Whole(To(i))
<1> USE DEF Divides
<1>1. /\ file_size \in Nat /\ segment_size \in Nat
      /\ n_threads \in Nat \ {0} /\ TUPLE_SIZE \in Nat \ {0, 1}
  BY Sizes
<1> DEFINE s == segment_size
<1>2. file_size = n_threads * s
  <2>1. file_size = s * n_threads + (file_size % n_threads)
    BY <1>1, Division DEF segment_size
  <2> HIDE DEF s
  <2>2. s \in Nat
    BY <1>1 DEF s
  <2> QED BY <1>1, <2>1, <2>2
<1>3. ASSUME NEW k \in Nat, k % TUPLE_SIZE = 0 PROVE Whole(k)
  <2>1. k = (k \div TUPLE_SIZE) * TUPLE_SIZE + 0 /\ k \div TUPLE_SIZE \in Nat
    BY <1>1, <1>3, Division
  <2> QED BY <1>1, <2>1, Multiples DEF Whole
<1>4. Whole(s)
  <2>1. s % TUPLE_SIZE = 0
    BY HistogramAssumption DEF segment_size, file_size
  <2> QED BY <1>1, <1>3, <2>1
<1>5. Whole(file_size)
  BY <1>1, <1>2, <1>4, Wholes
<1>6. chunk_size \in Nat /\ Whole(chunk_size) /\ (chunk_size = 0 => s = 0)
  BY <1>1, <1>3, <1>4, HistogramAssumption DEF chunk_size
<1>7. ASSUME NEW i \in Tasks
      PROVE  /\ From(i) \in Nat /\ To(i) \in Nat
             /\ To(i) = From(i) + s /\ To(i) <= file_size
             /\ Whole(From(i)) /\ Whole(To(i))
  <2>1. i \in Nat /\ i + 1 \in Nat /\ i + 1 <= n_threads /\ s \in Nat
    BY <1>1 DEF Tasks
  <2>2. Whole(i * s) /\ Whole((i + 1) * s)
    BY <1>4, <2>1, Wholes
  <2> HIDE DEF s
  <2>3. (i + 1) * s = i * s + s
    BY <2>1
  <2>4. (i + 1) * s <= n_threads * s
    <3>1. i + 1 < n_threads => (i + 1) * s + s <= n_threads * s
      BY <1>1, <2>1, Multiples
    <3>2. (i + 1) * s \in Nat /\ n_threads * s \in Nat
      BY <1>1, <2>1, Multiples
    <3> QED BY <1>1, <2>1, <3>1, <3>2
  <2>5. From(i) = i * s /\ To(i) = (i + 1) * s
    BY DEF From, To, s
  <2>6. i * s \in Nat /\ (i + 1) * s \in Nat
    BY <2>1, Multiples
  <2> QED BY <1>2, <2>2, <2>3, <2>4, <2>5, <2>6
<1> QED BY <1>2, <1>4, <1>5, <1>6, <1>7

(* A place of whole tuples in the file is one of the tuples. *)
LEMMA TupleAt ==
  ASSUME Divides
  PROVE  /\ file_size = (file_size \div TUPLE_SIZE) * TUPLE_SIZE
         /\ file_size \div TUPLE_SIZE \in Nat
         /\ \A t \in Tuples :
              /\ t * TUPLE_SIZE \in Nat /\ t * TUPLE_SIZE < file_size
              /\ PartitionOf(t) \in Partitions
         /\ \A x : Whole(x) /\ x < file_size =>
              \E t \in Tuples : x = t * TUPLE_SIZE
<1> USE DEF Divides
<1> DEFINE T == TUPLE_SIZE
           m == file_size \div T
<1>1. /\ file_size \in Nat /\ DOMAIN file = 0..(file_size - 1)
      /\ \A i \in DOMAIN file : file[i] \in Nat
      /\ T \in Nat \ {0, 1} /\ N_PARTITIONS \in Nat \ {0}
  BY Sizes
<1>2. m \in Nat /\ file_size = m * T
  <2>1. PICK k \in Nat : file_size = k * T
    BY Segments DEF Whole
  <2>2. file_size \div T = k
    BY <1>1, <2>1, Quotient
  <2> QED BY <2>1, <2>2
<1> HIDE DEF T, m
<1>3. ASSUME NEW t \in Tuples
      PROVE  /\ t * T \in Nat /\ t * T < file_size
             /\ PartitionOf(t) \in Partitions
  <2>1. t \in Nat /\ t < m
    BY <1>2 DEF Tuples, m, T
  <2>2. t * T \in Nat /\ t * T + T <= file_size
    BY <1>1, <1>2, <2>1, Multiples
  <2>3. t * T \in DOMAIN file /\ t * T + 1 \in DOMAIN file
    BY <1>1, <2>2
  <2> DEFINE k == 2^(partition_bits - char_bits)
             a == file[t * T]
             b == file[t * T + 1]
  <2>4. k \in Nat \ {0}
    BY PowersAssumption
  <2>5. a \in Nat /\ b \in Nat
    BY <1>1, <2>3
  <2>6. PartitionOf(t) = (a * k + (b % k)) % N_PARTITIONS
    BY DEF PartitionOf, get_partition, T
  <2> HIDE DEF a, b, k
  <2>7. a * k + (b % k) \in Nat
    <3>1. b % k \in 0..(k - 1) /\ a * k \in Nat
      BY <2>4, <2>5, Division, Multiples
    <3> QED BY <2>4, <3>1
  <2>8. PartitionOf(t) \in 0..(N_PARTITIONS - 1)
    BY <1>1, <2>6, <2>7, Division
  <2> QED BY <1>1, <2>2, <2>8 DEF Partitions
<1>4. ASSUME NEW x, Whole(x), x < file_size
      PROVE  \E t \in Tuples : x = t * T
  <2>1. PICK t \in Nat : x = t * T
    BY <1>4 DEF Whole, T
  <2>2. t < m
    <3>1. m < t => m * T + T <= t * T
      BY <1>1, <1>2, <2>1, Multiples
    <3>2. t * T \in Nat
      BY <1>1, <2>1, Multiples
    <3> QED BY <1>1, <1>2, <1>4, <2>1, <3>1, <3>2
  <2> QED BY <1>2, <2>1, <2>2 DEF Tuples, m, T
<1> QED BY <1>2, <1>3, <1>4 DEF m, T

(* The segment a tuple lies in. *)
Segment(t) == (t * TUPLE_SIZE) \div segment_size

LEMMA SegmentOfTuple ==
  ASSUME Divides, NEW t \in Tuples
  PROVE  /\ Segment(t) \in Tasks
         /\ \A i \in Tasks :
              From(i) <= t * TUPLE_SIZE /\ t * TUPLE_SIZE < To(i) <=> Segment(t) = i
<1> DEFINE x == t * TUPLE_SIZE
           s == segment_size
<1>1. x \in Nat /\ x < file_size /\ file_size = n_threads * s
  BY TupleAt, Segments
<1>2. n_threads \in Nat \ {0} /\ s \in Nat
  BY Sizes DEF Divides
<1>3. Segment(t) = x \div s
  BY DEF Segment
<1>4. \A i \in Tasks : From(i) = i * s /\ To(i) = i * s + s
  BY Segments DEF From
<1> HIDE DEF x, s
<1>5. s # 0
  <2>1. n_threads * 0 = 0
    BY <1>2
  <2> QED BY <1>1, <2>1
<1>6. x \div s \in Tasks
  BY <1>1, <1>2, <1>5, QuotientBelow DEF Tasks
<1>7. ASSUME NEW i \in Tasks
      PROVE  From(i) <= x /\ x < To(i) <=> x \div s = i
  <2>1. i \in Nat
    BY DEF Tasks
  <2>2. From(i) <= x /\ x < To(i) => x \div s = i
    BY <1>1, <1>2, <1>4, <1>5, <2>1, Quotient
  <2>3. ASSUME x \div s = i PROVE From(i) <= x /\ x < To(i)
    <3>1. x = i * s + (x % s) /\ x % s \in 0..(s - 1) /\ i * s \in Nat
      BY <1>1, <1>2, <1>5, <2>3, Division
    <3> QED BY <1>1, <1>2, <1>4, <3>1
  <2> QED BY <2>2, <2>3
<1> QED BY <1>3, <1>6, <1>7 DEF x

-----------------------------------------------------------------------------
(* The invariant. *)

LEMMA Same ==
  ASSUME UNCHANGED input
  PROVE  /\ file' = file /\ benchmark' = benchmark /\ CHUNK_SIZE' = CHUNK_SIZE
         /\ file_size' = file_size /\ Tuples' = Tuples
         /\ \A i \in Tasks : From(i)' = From(i) /\ To(i)' = To(i)
         /\ \A t : PartitionOf(t)' = PartitionOf(t)
BY DEF input, file_size, Tuples, From, To, segment_size, PartitionOf, get_partition

(* A task that has stayed where it was has passed the same tuples. *)
LEMMA PassedSame ==
  ASSUME UNCHANGED input, NEW i \in Tasks, Reached(i)' = Reached(i)
  PROVE  \A p : Passed(i, p)' = Passed(i, p)
<1>1. Tuples' = Tuples /\ From(i)' = From(i) /\ \A t : PartitionOf(t)' = PartitionOf(t)
  BY Same
<1> QED BY <1>1 DEF Passed

LEMMA CountersKept ==
  ASSUME Counters, UNCHANGED input, histogram' = histogram,
         \A i \in Tasks : Reached(i)' = Reached(i),
         \A i \in Tasks : phase'[i] = "store" => loaded'[i] = histogram[Cell(i)']
  PROVE  Counters'
<1> SUFFICES ASSUME NEW i \in Tasks
             PROVE  /\ \A p \in Partitions :
                         histogram'[LocalHist(i) + p] = Cardinality(Passed(i, p)')
                    /\ phase'[i] = "store" => loaded'[i] = histogram'[Cell(i)']
  BY DEF Counters, LocalHist, Partitions, N_PARTITIONS, Tasks
<1>1. \A p : Passed(i, p)' = Passed(i, p)
  BY PassedSame
<1> QED BY <1>1 DEF Counters

LEMMA MappingOfNumbers ==
  ASSUME NEW b \in Nat, NEW l
  PROVE  Mapping(b, l) \in SUBSET (Nat \X Nat)
<1>1. 0..(PagesFor(l) - 1) \in SUBSET Int /\ \A n \in 0..(PagesFor(l) - 1) : n >= 0
  OBVIOUS
<1> QED BY <1>1 DEF Mapping

LEMMA Started ==
  ASSUME IInv, NEW i \in Tasks, phase[i] # "new"
  PROVE  Divides /\ pc \in {"add", "done"}
<1>1. i < added /\ added # 0
  BY DEF IInv, Typing, Stages, Tasks
<1> QED BY <1>1 DEF IInv, Typing, Stages, Divides

(* Where a task looks there is a tuple, and its counter is in the task's part of
   the array. *)
LEMMA AtTuple ==
  ASSUME IInv, NEW i \in Tasks, phase[i] \in {"load", "store"}
  PROVE  /\ index[i] + TUPLE_SIZE <= sz[i]
         /\ Cell(i) \in Cells
         /\ \E t \in Tuples : /\ window[i] + index[i] = t * TUPLE_SIZE
                              /\ From(i) <= t * TUPLE_SIZE
                              /\ PartitionOf(t) \in Partitions
                              /\ Cell(i) = LocalHist(i) + PartitionOf(t)
<1>1. Divides
  BY Started
<1>2. InWindow(i)
  BY DEF IInv, Windows
<1>3. window[i] \in Nat /\ index[i] \in Nat /\ sz[i] \in Nat /\ TUPLE_SIZE \in Nat
  BY HistogramAssumption DEF IInv, Typing
<1>4. index[i] + TUPLE_SIZE <= sz[i]
  BY <1>2, Wholes DEF InWindow
<1>5. /\ Whole(window[i] + index[i]) /\ window[i] + index[i] < file_size
      /\ From(i) <= window[i] + index[i]
  <2>1. /\ To(i) <= file_size /\ To(i) \in Nat /\ From(i) \in Nat
        /\ file_size \in Nat
    BY <1>1, Segments, Sizes DEF Divides
  <2> QED BY <1>2, <1>3, <2>1, Wholes DEF InWindow
<1>6. PICK t \in Tuples : window[i] + index[i] = t * TUPLE_SIZE
  BY <1>1, <1>5, TupleAt
<1>7. Cell(i) = LocalHist(i) + PartitionOf(t) /\ PartitionOf(t) \in Partitions
  BY <1>1, <1>6, TupleAt DEF Cell, PartitionOf
<1>8. Cell(i) \in Cells
  <2>1. n_threads \in Nat /\ N_PARTITIONS \in Nat
    BY <1>1, Sizes DEF Divides
  <2> QED BY <1>7, <2>1, Digits DEF Cells, LocalHist, Tasks, Partitions
<1> QED BY <1>4, <1>5, <1>6, <1>7, <1>8

LEMMA InitInv ==
  ASSUME Init
  PROVE  IInv
<1> USE DEF Init
<1>1. file \in Files /\ n_threads \in Nat \ {0} /\ \A i \in Tasks : From(i) \in Nat
  BY Sizes
<1>2. Typing
  <2>1. /\ added \in 0..n_threads
        /\ histogram \in [Cells -> Nat]
        /\ phase \in [Tasks -> {"new", "next", "load", "store", "delete", "deleted"}]
        /\ from \in [Tasks -> Nat]
    BY <1>1 DEF Cells
  <2>2. /\ buffer \in [Tasks -> Nat \cup {NullPtr}]
        /\ map_size \in [Tasks -> Nat]
        /\ mapped \in [Tasks -> SUBSET (Nat \X Nat)]
    OBVIOUS
  <2>3. /\ window \in [Tasks -> Nat]
        /\ sz \in [Tasks -> Nat]
        /\ index \in [Tasks -> Nat]
        /\ loaded \in [Tasks -> Nat]
    OBVIOUS
  <2> QED BY <2>1, <2>2, <2>3 DEF Typing
<1>3. Stages
  BY <1>1 DEF Stages, Tasks
<1>4. Windows
  BY DEF Windows
<1>5. Mappings
  BY DEF Mappings
<1>6. Counters
  <2> SUFFICES ASSUME NEW i \in Tasks, NEW p \in Partitions
               PROVE  histogram[LocalHist(i) + p] = Cardinality(Passed(i, p))
    BY DEF Counters
  <2>1. LocalHist(i) + p \in Cells
    <3>1. n_threads \in Nat /\ N_PARTITIONS \in Nat
      BY Sizes
    <3> QED BY <3>1, Digits DEF Cells, LocalHist, Tasks, Partitions
  <2>2. Passed(i, p) = {}
    <3>1. Reached(i) = From(i) /\ From(i) \in Nat /\ TUPLE_SIZE \in Nat
      BY Sizes DEF Reached
    <3>2. \A t \in Tuples : t * TUPLE_SIZE \in Nat
      BY <3>1, Multiples DEF Tuples
    <3> QED BY <3>1, <3>2 DEF Passed
  <2> QED BY <2>1, <2>2, FS_EmptySet DEF Cells
<1> QED BY <1>2, <1>3, <1>4, <1>5, <1>6 DEF IInv

LEMMA StartStep ==
  ASSUME IInv, Start
  PROVE  IInv'
<1> USE DEF Start, main, reader
<1>1. Typing'
  BY DEF IInv, Typing, input
<1>2. Stages'
  BY Same DEF IInv, Stages, AllDeleted, Typing
<1>3. Windows'
  BY Same DEF IInv, Windows, InWindow
<1>4. Mappings'
  BY Same DEF IInv, Mappings
<1>5. Counters'
  <2>1. \A i \in Tasks : Reached(i)' = Reached(i)
    BY Same DEF Reached
  <2>2. \A i \in Tasks : phase[i] = "store" => loaded[i] = histogram[Cell(i)]
    BY DEF IInv, Counters
  <2>3. \A i \in Tasks : Cell(i)' = Cell(i)
    BY Same DEF Cell
  <2> QED BY <2>1, <2>2, <2>3, CountersKept DEF IInv
<1> QED BY <1>1, <1>2, <1>3, <1>4, <1>5 DEF IInv

(* The task that is added is a new one. *)
LEMMA Adding ==
  ASSUME IInv, pc = "add", added < n_threads
  PROVE  /\ added \in Tasks /\ phase[added] = "new" /\ added + 1 \in 0..n_threads
         /\ \A i \in Tasks : i >= added + 1 <=> i >= added /\ i # added
         /\ Divides
         /\ from[added] = From(added) /\ index[added] = 0 /\ mapped[added] = {}
<1>1. n_threads \in Nat /\ added \in Nat
  BY HistogramAssumption DEF IInv, Typing
<1>2. added \in Tasks /\ added + 1 \in 0..n_threads
  BY <1>1 DEF Tasks
<1>3. \A i \in Tasks : i >= added + 1 <=> i >= added /\ i # added
  BY <1>1 DEF Tasks
<1>4. phase[added] = "new"
  BY <1>1, <1>2 DEF IInv, Stages
<1>5. Divides
  BY DEF IInv, Typing, Stages, Divides
<1> QED BY <1>2, <1>3, <1>4, <1>5 DEF IInv, Windows, Mappings

LEMMA AddInterleavedStep ==
  ASSUME IInv, AddInterleaved
  PROVE  IInv'
<1> USE DEF AddInterleaved, main, reader
<1>1. /\ added \in Tasks /\ phase[added] = "new" /\ added + 1 \in 0..n_threads
      /\ \A i \in Tasks : i >= added + 1 <=> i >= added /\ i # added
      /\ Divides
      /\ from[added] = From(added)
  BY Adding
<1>2. /\ phase \in [Tasks -> {"new", "next", "load", "store", "delete", "deleted"}]
      /\ phase'[added] = "next"
      /\ \A i \in Tasks : i # added => phase'[i] = phase[i]
  BY <1>1 DEF IInv, Typing
<1>3. Typing'
  BY <1>1 DEF IInv, Typing, input
<1>4. Stages'
  BY <1>1, <1>2, Same DEF IInv, Stages
<1>5. Windows'
  <2> SUFFICES ASSUME NEW i \in Tasks
               PROVE  /\ phase'[i] = "next" =>
                           From(i)' <= from'[i] /\ from'[i] <= To(i)' /\ Whole(from[i])
                      /\ phase'[i] = "new" => from'[i] = From(i)' /\ index'[i] = 0
                      /\ phase'[i] \in {"load", "store"} => InWindow(i)'
    BY DEF Windows, Tasks, Whole
  <2>1. CASE i = added
    <3>1. From(i) <= To(i) /\ Whole(From(i)) /\ From(i) \in Nat
      BY <1>1, Segments, Sizes DEF Divides
    <3> QED BY <1>1, <1>2, <2>1, <3>1, Same
  <2>2. CASE i # added
    BY <1>2, <2>2, Same DEF IInv, Windows, InWindow, Whole
  <2> QED BY <2>1, <2>2
<1>6. Mappings'
  BY <1>1, <1>2, Same DEF IInv, Mappings
<1>7. Counters'
  <2>1. \A i \in Tasks : Reached(i)' = Reached(i)
    BY <1>1, <1>2, Same DEF Reached
  <2>2. \A i \in Tasks : phase'[i] = "store" => loaded[i] = histogram[Cell(i)]
    BY <1>2 DEF IInv, Counters
  <2>3. \A i \in Tasks : Cell(i)' = Cell(i)
    BY Same DEF Cell
  <2> QED BY <2>1, <2>2, <2>3, CountersKept DEF IInv
<1> QED BY <1>3, <1>4, <1>5, <1>6, <1>7 DEF IInv

LEMMA AddSegmentStep ==
  ASSUME IInv, AddSegment
  PROVE  IInv'
<1> USE DEF AddSegment, main, reader
<1>1. /\ added \in Tasks /\ phase[added] = "new" /\ added + 1 \in 0..n_threads
      /\ \A i \in Tasks : i >= added + 1 <=> i >= added /\ i # added
      /\ Divides
      /\ index[added] = 0 /\ mapped[added] = {}
  BY Adding
<1>2. /\ segment_size \in Nat /\ From(added) \in Nat /\ To(added) = From(added) + segment_size
      /\ Whole(From(added)) /\ Whole(segment_size)
  BY <1>1, Segments, Sizes DEF Divides
<1>3. /\ phase \in [Tasks -> {"new", "next", "load", "store", "delete", "deleted"}]
      /\ phase'[added] = IF segment_size = 0 THEN "delete" ELSE "load"
      /\ window'[added] = From(added) /\ sz'[added] = segment_size
      /\ \A i \in Tasks : i # added =>
           phase'[i] = phase[i] /\ window'[i] = window[i] /\ sz'[i] = sz[i]
  BY <1>1 DEF IInv, Typing
<1>4. Typing'
  BY <1>1, <1>2 DEF IInv, Typing, input
<1>5. Stages'
  BY <1>1, <1>3, Same DEF IInv, Stages
<1>6. Windows'
  <2> SUFFICES ASSUME NEW i \in Tasks
               PROVE  /\ phase'[i] = "next" =>
                           From(i)' <= from'[i] /\ from'[i] <= To(i)' /\ Whole(from[i])
                      /\ phase'[i] = "new" => from'[i] = From(i)' /\ index'[i] = 0
                      /\ phase'[i] \in {"load", "store"} => InWindow(i)'
    BY DEF Windows, Tasks, Whole
  <2>1. CASE i = added
    <3>1. Whole(window'[i]) /\ Whole(sz'[i]) /\ Whole(index'[i])
      BY <1>1, <1>2, <1>3, <2>1, Wholes
    <3>2. phase'[i] = "load" => InWindow(i)'
      BY <1>1, <1>2, <1>3, <2>1, <3>1, Same DEF InWindow, Whole
    <3> QED BY <1>3, <2>1, <3>2
  <2>2. CASE i # added
    BY <1>3, <2>2, Same DEF IInv, Windows, InWindow, Whole
  <2> QED BY <2>1, <2>2
<1>7. Mappings'
  BY <1>1, <1>2, <1>3, Same DEF IInv, Mappings
<1>8. Counters'
  <2>1. \A i \in Tasks : Reached(i)' = Reached(i)
    BY <1>1, <1>2, <1>3, Same DEF Reached
  <2>2. \A i \in Tasks : phase'[i] = "store" =>
          i # added /\ loaded[i] = histogram[Cell(i)]
    BY <1>3 DEF IInv, Counters
  <2>3. \A i \in Tasks : i # added => Cell(i)' = Cell(i)
    BY <1>3, Same DEF Cell, LocalHist, N_PARTITIONS, get_partition
  <2> QED BY <2>1, <2>2, <2>3, CountersKept DEF IInv
<1> QED BY <1>4, <1>5, <1>6, <1>7, <1>8 DEF IInv

LEMMA Stutter ==
  ASSUME IInv,
         UNCHANGED <<input, main, reader, histogram, phase, window, sz, index, loaded>>
  PROVE  IInv'
<1> USE DEF main, reader
<1>1. Typing'
  BY DEF IInv, Typing, input
<1>2. Stages'
  BY Same DEF IInv, Stages, AllDeleted
<1>3. Windows'
  BY Same DEF IInv, Windows, InWindow, Whole
<1>4. Mappings'
  BY Same DEF IInv, Mappings
<1>5. Counters'
  <2>1. \A i \in Tasks : Reached(i)' = Reached(i)
    BY Same DEF Reached
  <2>2. \A i \in Tasks : phase[i] = "store" => loaded[i] = histogram[Cell(i)]
    BY DEF IInv, Counters
  <2>3. \A i \in Tasks : Cell(i)' = Cell(i)
    BY Same DEF Cell
  <2> QED BY <2>1, <2>2, <2>3, CountersKept DEF IInv
<1> QED BY <1>1, <1>2, <1>3, <1>4, <1>5 DEF IInv

(* The window a reader gives out is the next part of its segment. *)
LEMMA Window ==
  ASSUME IInv, NEW i \in Tasks, phase[i] = "next"
  PROVE  /\ benchmark = "parallel"
         /\ ReadAmount(i) \in Nat /\ Whole(ReadAmount(i))
         /\ from[i] \in Nat /\ from[i] + ReadAmount(i) <= To(i)
         /\ ReadAmount(i) = 0 => from[i] = To(i)
         /\ Pointer(i) = from[i] /\ MapSize(i) \in Nat
         /\ MapSize(i) = ReadAmount(i) + (from[i] - get_page_num(from[i]) * PAGE_SIZE)
<1>1. Divides /\ benchmark = "parallel"
  BY Started DEF IInv, Mappings, Typing
<1>2. /\ from[i] \in Nat /\ From(i) <= from[i] /\ from[i] <= To(i) /\ Whole(from[i])
  BY DEF IInv, Typing, Windows
<1>3. /\ To(i) \in Nat /\ Whole(To(i)) /\ From(i) \in Nat
      /\ To(i) = From(i) + segment_size /\ segment_size \in Nat
      /\ chunk_size \in Nat /\ Whole(chunk_size) /\ (chunk_size = 0 => segment_size = 0)
  BY <1>1, Segments, Sizes DEF Divides
<1>4. Whole(To(i) - from[i]) /\ To(i) - from[i] \in Nat
  BY <1>2, <1>3, Wholes
<1>5. /\ ReadAmount(i) \in Nat /\ Whole(ReadAmount(i))
      /\ from[i] + ReadAmount(i) <= To(i)
      /\ ReadAmount(i) = 0 => from[i] = To(i)
  BY <1>2, <1>3, <1>4 DEF ReadAmount
<1> DEFINE o == get_page_num(from[i]) * PAGE_SIZE
<1>6. o \in Nat /\ o <= from[i]
  <2>1. PAGE_SIZE \in Nat \ {0}
    BY <1>1, Sizes DEF Divides
  <2>2. /\ from[i] % PAGE_SIZE \in 0..(PAGE_SIZE - 1)
        /\ from[i] = (from[i] \div PAGE_SIZE) * PAGE_SIZE + (from[i] % PAGE_SIZE)
        /\ (from[i] \div PAGE_SIZE) * PAGE_SIZE \in Nat
    BY <1>2, <2>1, Division
  <2> QED BY <1>2, <2>1, <2>2 DEF get_page_num
<1>7. PageOffset(i) = o /\ Adjust(i) = from[i] - o
  BY DEF PageOffset, Adjust
<1> HIDE DEF o
<1>8. Pointer(i) = from[i]
  BY <1>2, <1>6, <1>7 DEF Pointer
<1>9. MapSize(i) = ReadAmount(i) + (from[i] - o) /\ MapSize(i) \in Nat
  BY <1>2, <1>5, <1>6, <1>7 DEF MapSize
<1> QED BY <1>1, <1>2, <1>5, <1>8, <1>9 DEF o

LEMMA NextWindowStep ==
  ASSUME IInv, NEW i \in Tasks, NextWindow(i)
  PROVE  IInv'
<1> USE DEF NextWindow, main
<1>1. /\ benchmark = "parallel"
      /\ ReadAmount(i) \in Nat /\ Whole(ReadAmount(i))
      /\ from[i] \in Nat /\ from[i] + ReadAmount(i) <= To(i)
      /\ ReadAmount(i) = 0 => from[i] = To(i)
      /\ Pointer(i) = from[i] /\ MapSize(i) \in Nat
      /\ MapSize(i) = ReadAmount(i) + (from[i] - get_page_num(from[i]) * PAGE_SIZE)
  BY Window
<1>2. /\ phase[i] = "next"
      /\ phase'[i] = IF ReadAmount(i) = 0 THEN "delete" ELSE "load"
      /\ from'[i] = from[i] + ReadAmount(i) /\ window'[i] = from[i]
      /\ buffer'[i] = from[i] /\ map_size'[i] = MapSize(i)
      /\ sz'[i] = ReadAmount(i) /\ index'[i] = 0
      /\ mapped'[i] = Mapping(from[i], MapSize(i))
  <2>1. mapped[i] \ Mapping(buffer[i], map_size[i]) = {}
    BY DEF IInv, Mappings
  <2>2. mapped'[i] = (mapped[i] \ Mapping(buffer[i], map_size[i]))
                       \union Mapping(from[i], MapSize(i))
    BY DEF IInv, Typing, MapSize
  <2> QED BY <1>1, <2>1, <2>2 DEF IInv, Typing
<1>3. \A j \in Tasks : j # i =>
        /\ phase'[j] = phase[j] /\ from'[j] = from[j] /\ window'[j] = window[j]
        /\ buffer'[j] = buffer[j] /\ map_size'[j] = map_size[j]
        /\ sz'[j] = sz[j] /\ index'[j] = index[j] /\ mapped'[j] = mapped[j]
  BY DEF IInv, Typing
<1>4. /\ From(i) \in Nat /\ From(i) <= from[i] /\ Whole(from[i])
      /\ i < added
  <2>1. Divides
    BY <1>2, Started
  <2>2. From(i) \in Nat
    BY <2>1, Sizes DEF Divides
  <2>3. i < added
    BY <1>2 DEF IInv, Typing, Stages, Tasks
  <2> QED BY <1>2, <2>2, <2>3 DEF IInv, Windows
<1>5. Typing'
  <2>1. mapped'[i] \in SUBSET (Nat \X Nat)
    <3>1. Mapping(from[i], MapSize(i)) \in SUBSET (Nat \X Nat)
      BY <1>1, MappingOfNumbers
    <3> QED BY <1>2, <3>1
  <2>2. mapped' \in [Tasks -> SUBSET (Nat \X Nat)]
    BY <1>3, <2>1 DEF IInv, Typing
  <2>3. /\ phase' \in [Tasks -> {"new", "next", "load", "store", "delete", "deleted"}]
        /\ from' \in [Tasks -> Nat]
        /\ buffer' \in [Tasks -> Nat \cup {NullPtr}]
        /\ map_size' \in [Tasks -> Nat]
        /\ window' \in [Tasks -> Nat]
        /\ sz' \in [Tasks -> Nat]
        /\ index' \in [Tasks -> Nat]
    BY <1>1 DEF IInv, Typing
  <2> QED BY <2>2, <2>3 DEF IInv, Typing, input
<1>6. Stages'
  <2>1. pc # "done"
    BY <1>2 DEF IInv, Stages, AllDeleted
  <2> QED BY <1>2, <1>3, <1>4, <2>1, Same DEF IInv, Stages
<1>7. Windows'
  <2> SUFFICES ASSUME NEW j \in Tasks
               PROVE  /\ phase'[j] = "next" =>
                           From(j)' <= from'[j] /\ from'[j] <= To(j)' /\ Whole(from'[j])
                      /\ phase'[j] = "new" => from'[j] = From(j)' /\ index'[j] = 0
                      /\ phase'[j] \in {"load", "store"} => InWindow(j)'
    BY DEF Windows, Tasks, Whole
  <2>1. CASE j = i
    <3>1. Whole(window'[i]) /\ Whole(sz'[i]) /\ Whole(index'[i])
      BY <1>1, <1>2, <1>4, Wholes
    <3>2. phase'[i] = "load" => InWindow(i)'
      BY <1>1, <1>2, <1>4, <3>1, Same DEF InWindow, Whole
    <3> QED BY <1>2, <2>1, <3>2
  <2>2. CASE j # i
    BY <1>3, <2>2, Same DEF IInv, Windows, InWindow, Whole
  <2> QED BY <2>1, <2>2
<1>8. Mappings'
  <2> SUFFICES ASSUME NEW j \in Tasks
               PROVE  /\ mapped'[j] \subseteq Mapping(buffer'[j], map_size'[j])
                      /\ phase'[j] \in {"new", "deleted"} => mapped'[j] = {}
                      /\ benchmark = "single" => mapped'[j] = {} /\ phase'[j] # "next"
                      /\ benchmark = "single" /\ phase'[j] \in {"load", "store"} =>
                           window'[j] + sz'[j] = To(j)
                      /\ benchmark = "parallel" /\ phase'[j] \in {"load", "store"} =>
                           /\ mapped'[j] = Mapping(buffer'[j], map_size'[j])
                           /\ buffer'[j] = window'[j]
                           /\ map_size'[j] = sz'[j] + (window'[j] - get_page_num(window'[j]) * PAGE_SIZE)
                           /\ from'[j] = window'[j] + sz'[j]
    BY Same DEF Mappings, Tasks, Mapping, PagesFor, get_page_num, PAGE_SIZE
  <2>1. CASE j = i
    BY <1>1, <1>2, <2>1
  <2>2. CASE j # i
    BY <1>3, <2>2 DEF IInv, Mappings
  <2> QED BY <2>1, <2>2
<1>9. Counters'
  <2>1. \A j \in Tasks : Reached(j)' = Reached(j)
    <3> SUFFICES ASSUME NEW j \in Tasks PROVE Reached(j)' = Reached(j)
      OBVIOUS
    <3>1. CASE j = i
      BY <1>1, <1>2, <3>1, Same DEF Reached
    <3>2. CASE j # i
      BY <1>3, <3>2, Same DEF Reached
    <3> QED BY <3>1, <3>2
  <2>2. \A j \in Tasks : phase'[j] = "store" =>
          j # i /\ loaded[j] = histogram[Cell(j)]
    BY <1>2, <1>3 DEF IInv, Counters
  <2>3. \A j \in Tasks : j # i => Cell(j)' = Cell(j)
    BY <1>3, Same DEF Cell, LocalHist, N_PARTITIONS, get_partition
  <2> QED BY <2>1, <2>2, <2>3, CountersKept DEF IInv
<1> QED BY <1>5, <1>6, <1>7, <1>8, <1>9 DEF IInv

LEMMA LoadStep ==
  ASSUME IInv, NEW i \in Tasks, Load(i)
  PROVE  IInv'
<1> USE DEF Load, main, reader
<1>1. Cell(i) \in Cells
  BY AtTuple
<1>2. /\ phase[i] = "load" /\ phase'[i] = "store"
      /\ loaded'[i] = histogram[Cell(i)] /\ histogram[Cell(i)] \in Nat
      /\ \A j \in Tasks : j # i => phase'[j] = phase[j] /\ loaded'[j] = loaded[j]
  BY <1>1 DEF IInv, Typing
<1>3. Typing'
  BY <1>2 DEF IInv, Typing, input
<1>4. Stages'
  BY <1>2, Same DEF IInv, Stages, AllDeleted
<1>5. Windows'
  BY <1>2, Same DEF IInv, Windows, InWindow, Whole
<1>6. Mappings'
  BY <1>2, Same DEF IInv, Mappings
<1>7. Counters'
  <2>1. \A j \in Tasks : Reached(j)' = Reached(j)
    BY <1>2, Same DEF Reached
  <2>2. \A j \in Tasks : phase'[j] = "store" => loaded'[j] = histogram[Cell(j)]
    BY <1>2 DEF IInv, Counters
  <2>3. \A j \in Tasks : Cell(j)' = Cell(j)
    BY Same DEF Cell
  <2> QED BY <2>1, <2>2, <2>3, CountersKept DEF IInv
<1> QED BY <1>3, <1>4, <1>5, <1>6, <1>7 DEF IInv

LEMMA DeleteStep ==
  ASSUME IInv, NEW i \in Tasks, Delete(i)
  PROVE  IInv'
<1> USE DEF Delete, main
<1>1. /\ phase[i] = "delete" /\ phase'[i] = "deleted" /\ mapped'[i] = {}
      /\ \A j \in Tasks : j # i => phase'[j] = phase[j] /\ mapped'[j] = mapped[j]
  BY DEF IInv, Typing, Mappings
<1>2. Typing'
  <2>1. mapped' \in [Tasks -> SUBSET (Nat \X Nat)]
    BY <1>1 DEF IInv, Typing
  <2>2. phase' \in [Tasks -> {"new", "next", "load", "store", "delete", "deleted"}]
    BY DEF IInv, Typing
  <2> QED BY <2>1, <2>2 DEF IInv, Typing, input
<1>3. Stages'
  BY <1>1, Same DEF IInv, Stages, AllDeleted
<1>4. Windows'
  BY <1>1, Same DEF IInv, Windows, InWindow, Whole
<1>5. Mappings'
  BY <1>1, Same DEF IInv, Mappings
<1>6. Counters'
  <2>1. \A j \in Tasks : Reached(j)' = Reached(j)
    BY <1>1, Same DEF Reached
  <2>2. \A j \in Tasks : phase'[j] = "store" => loaded[j] = histogram[Cell(j)]
    BY <1>1 DEF IInv, Counters
  <2>3. \A j \in Tasks : Cell(j)' = Cell(j)
    BY Same DEF Cell
  <2> QED BY <2>1, <2>2, <2>3, CountersKept DEF IInv
<1> QED BY <1>2, <1>3, <1>4, <1>5, <1>6 DEF IInv

(* With every store its task passes one more tuple, in the partition whose
   counter goes up. *)
LEMMA StoreStep ==
  ASSUME IInv, NEW i \in Tasks, Store(i)
  PROVE  IInv'
<1> USE DEF Store, main, reader
<1>1. /\ phase[i] = "store" /\ Divides
      /\ Cell(i) \in Cells /\ index[i] + TUPLE_SIZE <= sz[i]
  BY AtTuple, Started
<1>2. PICK t \in Tuples : /\ window[i] + index[i] = t * TUPLE_SIZE
                          /\ From(i) <= t * TUPLE_SIZE
                          /\ PartitionOf(t) \in Partitions
                          /\ Cell(i) = LocalHist(i) + PartitionOf(t)
  BY <1>1, AtTuple
<1>3. /\ phase'[i] = IF index[i] + TUPLE_SIZE < sz[i] THEN "load" ELSE AfterWindow
      /\ index'[i] = index[i] + TUPLE_SIZE
      /\ \A j \in Tasks : j # i => phase'[j] = phase[j] /\ index'[j] = index[j]
      /\ AfterWindow \in {"next", "delete"}
      /\ AfterWindow = "next" <=> benchmark = "parallel"
  BY DEF IInv, Typing, AfterWindow
<1>4. /\ window[i] \in Nat /\ index[i] \in Nat /\ sz[i] \in Nat /\ from[i] \in Nat
      /\ TUPLE_SIZE \in Nat \ {0} /\ loaded[i] \in Nat
      /\ loaded[i] = histogram[Cell(i)]
  BY <1>1, HistogramAssumption DEF IInv, Typing, Counters
<1>5. InWindow(i) /\ From(i) \in Nat /\ To(i) \in Nat
  BY <1>1, Segments DEF IInv, Windows
<1>6. /\ benchmark = "parallel" => from[i] = window[i] + sz[i]
      /\ benchmark = "single" => To(i) = window[i] + sz[i]
      /\ benchmark \in {"parallel", "single"}
  BY <1>1 DEF IInv, Typing, Mappings
<1>7. Reached(i) = t * TUPLE_SIZE /\ Reached(i)' = t * TUPLE_SIZE + TUPLE_SIZE
  <2>1. Reached(i) = t * TUPLE_SIZE
    BY <1>1, <1>2 DEF Reached
  <2>2. CASE index[i] + TUPLE_SIZE < sz[i]
    BY <1>2, <1>3, <1>4, <2>2 DEF Reached
  <2>3. CASE index[i] + TUPLE_SIZE = sz[i] /\ benchmark = "parallel"
    BY <1>2, <1>3, <1>4, <1>6, <2>3 DEF Reached
  <2>4. CASE index[i] + TUPLE_SIZE = sz[i] /\ benchmark = "single"
    BY <1>2, <1>3, <1>4, <1>6, <2>4, Same DEF Reached
  <2> QED BY <1>1, <1>4, <1>6, <2>1, <2>2, <2>3, <2>4
<1>8. \A j \in Tasks : j # i => Reached(j)' = Reached(j)
  BY <1>3, Same DEF Reached
<1>9. Typing'
  <2>1. histogram' \in [Cells -> Nat]
    <3>1. loaded[i] + 1 \in Nat
      BY <1>4
    <3> QED BY <3>1 DEF IInv, Typing
  <2>2. index' \in [Tasks -> Nat]
    BY <1>4 DEF IInv, Typing
  <2>3. phase' \in [Tasks -> {"new", "next", "load", "store", "delete", "deleted"}]
    BY <1>3 DEF IInv, Typing
  <2> QED BY <2>1, <2>2, <2>3 DEF IInv, Typing, input
<1>10. Stages'
  <2>1. pc # "done"
    BY <1>1 DEF IInv, Stages, AllDeleted
  <2>2. phase'[i] # "new"
    BY <1>3
  <2> QED BY <1>1, <1>3, <2>1, <2>2, Same DEF IInv, Stages
<1>11. Windows'
  <2> SUFFICES ASSUME NEW j \in Tasks
               PROVE  /\ phase'[j] = "next" =>
                           From(j)' <= from[j] /\ from[j] <= To(j)' /\ Whole(from[j])
                      /\ phase'[j] = "new" => from[j] = From(j)' /\ index'[j] = 0
                      /\ phase'[j] \in {"load", "store"} => InWindow(j)'
    BY DEF Windows, Tasks, Whole
  <2>1. CASE j = i
    <3>1. Whole(index[i] + TUPLE_SIZE)
      BY <1>5, Wholes DEF InWindow
    <3>2. phase'[i] = "load" => InWindow(i)'
      BY <1>3, <1>5, <3>1, Same DEF InWindow, Whole
    <3>3. phase'[i] = "next" =>
            From(i) <= from[i] /\ from[i] <= To(i) /\ Whole(from[i])
      BY <1>3, <1>4, <1>5, <1>6, Wholes DEF InWindow
    <3> QED BY <1>3, <2>1, <3>2, <3>3, Same
  <2>2. CASE j # i
    BY <1>3, <2>2, Same DEF IInv, Windows, InWindow, Whole
  <2> QED BY <2>1, <2>2
<1>12. Mappings'
  <2>1. phase'[i] \notin {"new", "deleted", "store"}
        /\ (benchmark = "single" => phase'[i] # "next")
    BY <1>3
  <2> QED BY <1>1, <1>3, <2>1, Same DEF IInv, Mappings
<1>13. Counters'
  <2> DEFINE q == PartitionOf(t)
  <2>1. /\ n_threads \in Nat /\ N_PARTITIONS \in Nat
    BY <1>1, Sizes DEF Divides
  <2>2. ASSUME NEW j \in Tasks, NEW p \in Partitions
        PROVE  /\ LocalHist(j) + p \in Cells
               /\ LocalHist(j) + p = Cell(i) <=> j = i /\ p = q
    <3>1. i \in Nat /\ j \in Nat /\ p \in 0..(N_PARTITIONS - 1) /\ q \in 0..(N_PARTITIONS - 1)
      BY <1>2 DEF Tasks, Partitions
    <3>2. LocalHist(j) + p = j * N_PARTITIONS + p /\ Cell(i) = i * N_PARTITIONS + q
      BY <1>2 DEF LocalHist
    <3> HIDE DEF q
    <3>3. j * N_PARTITIONS + p = i * N_PARTITIONS + q => j = i /\ p = q
      BY <2>1, <3>1, Digits DEF Tasks
    <3>4. j * N_PARTITIONS + p \in Cells
      BY <2>1, <3>1, Digits DEF Tasks, Cells
    <3> QED BY <3>2, <3>3, <3>4
  <2>3. ASSUME NEW p \in Partitions
        PROVE  histogram'[LocalHist(i) + p] = Cardinality(Passed(i, p)')
    <3>1. \A u \in Tuples : /\ u * TUPLE_SIZE \in Nat
                            /\ u * TUPLE_SIZE < t * TUPLE_SIZE + TUPLE_SIZE <=>
                                 u * TUPLE_SIZE < t * TUPLE_SIZE \/ u = t
      <4> SUFFICES ASSUME NEW u \in Tuples
                   PROVE  /\ u * TUPLE_SIZE \in Nat
                          /\ u * TUPLE_SIZE < t * TUPLE_SIZE + TUPLE_SIZE <=>
                               u * TUPLE_SIZE < t * TUPLE_SIZE \/ u = t
        OBVIOUS
      <4>1. u \in Nat /\ t \in Nat /\ TUPLE_SIZE \in Nat
        BY <1>4 DEF Tuples
      <4>2. u * TUPLE_SIZE \in Nat /\ t * TUPLE_SIZE \in Nat
        BY <4>1, Multiples
      <4>3. u < t => u * TUPLE_SIZE + TUPLE_SIZE <= t * TUPLE_SIZE
        BY <4>1, Multiples
      <4>4. t < u => t * TUPLE_SIZE + TUPLE_SIZE <= u * TUPLE_SIZE
        BY <4>1, Multiples
      <4> QED BY <1>4, <4>1, <4>2, <4>3, <4>4
    <3>2. Passed(i, p)' = IF p = q THEN Passed(i, p) \cup {t} ELSE Passed(i, p)
      <4>1. Passed(i, p)' = {u \in Tuples : /\ From(i) <= u * TUPLE_SIZE
                                            /\ u * TUPLE_SIZE < t * TUPLE_SIZE + TUPLE_SIZE
                                            /\ PartitionOf(u) = p}
        BY <1>7, Same DEF Passed
      <4>2. Passed(i, p) = {u \in Tuples : /\ From(i) <= u * TUPLE_SIZE
                                           /\ u * TUPLE_SIZE < t * TUPLE_SIZE
                                           /\ PartitionOf(u) = p}
        BY <1>7 DEF Passed
      <4> QED BY <1>2, <3>1, <4>1, <4>2
    <3>3. t \notin Passed(i, p) /\ IsFiniteSet(Passed(i, p))
      <4>1. t * TUPLE_SIZE \in Nat
        BY <3>1
      <4>2. Passed(i, p) \in SUBSET Tuples /\ IsFiniteSet(Tuples)
        BY <1>1, TupleAt, Below DEF Passed, Tuples
      <4> QED BY <1>7, <4>1, <4>2, FS_Subset DEF Passed
    <3>4. Cardinality(Passed(i, p) \cup {t}) = Cardinality(Passed(i, p)) + 1
      BY <3>3, FS_AddElement
    <3>5. histogram[LocalHist(i) + p] = Cardinality(Passed(i, p))
      BY DEF IInv, Counters
    <3>6. histogram'[LocalHist(i) + p] =
            IF p = q THEN loaded[i] + 1 ELSE histogram[LocalHist(i) + p]
      BY <1>2, <2>2 DEF IInv, Typing
    <3>7. p = q => loaded[i] = Cardinality(Passed(i, p))
      BY <1>2, <1>4, <3>5
    <3> HIDE DEF q
    <3> QED BY <3>2, <3>4, <3>5, <3>6, <3>7
  <2>4. ASSUME NEW j \in Tasks, j # i
        PROVE  /\ \A p \in Partitions :
                    histogram'[LocalHist(j) + p] = Cardinality(Passed(j, p)')
               /\ phase'[j] = "store" => loaded[j] = histogram'[Cell(j)']
    <3>1. \A p \in Partitions :
            histogram'[LocalHist(j) + p] = histogram[LocalHist(j) + p]
      BY <2>2, <2>4 DEF IInv, Typing
    <3>2. \A p \in Partitions :
            histogram'[LocalHist(j) + p] = Cardinality(Passed(j, p)')
      BY <1>8, <2>4, <3>1, PassedSame DEF IInv, Counters
    <3>3. ASSUME phase'[j] = "store" PROVE loaded[j] = histogram'[Cell(j)']
      <4>1. phase[j] = "store"
        BY <1>3, <2>4, <3>3
      <4>2. \E p \in Partitions : Cell(j) = LocalHist(j) + p
        BY <4>1, AtTuple
      <4>3. Cell(j)' = Cell(j)
        BY <1>3, <2>4, Same DEF Cell, LocalHist, N_PARTITIONS, get_partition
      <4>4. histogram'[Cell(j)] = histogram[Cell(j)]
        BY <3>1, <4>2
      <4> QED BY <4>1, <4>3, <4>4 DEF IInv, Counters
    <3> QED BY <3>2, <3>3
  <2>5. phase'[i] # "store"
    BY <1>3
  <2> SUFFICES ASSUME NEW j \in Tasks
               PROVE  /\ \A p \in Partitions :
                           histogram'[LocalHist(j) + p] = Cardinality(Passed(j, p)')
                      /\ phase'[j] = "store" => loaded[j] = histogram'[Cell(j)']
    BY DEF Counters, LocalHist, Partitions, N_PARTITIONS, Tasks
  <2> QED BY <2>3, <2>4, <2>5
<1> QED BY <1>9, <1>10, <1>11, <1>12, <1>13 DEF IInv

(* When all tasks are gone, each has passed the tuples of its segment. *)
LEMMA AllPassed ==
  ASSUME IInv, AllDeleted, pc \in {"add", "done"}
  PROVE  /\ Divides
         /\ \A i \in Tasks, p \in Partitions :
              histogram[LocalHist(i) + p] =
                Cardinality({t \in Tuples : Segment(t) = i /\ PartitionOf(t) = p})
<1>1. Divides
  BY DEF IInv, Typing, Stages, Divides
<1>2. ASSUME NEW i \in Tasks, NEW p \in Partitions
      PROVE  Passed(i, p) = {t \in Tuples : Segment(t) = i /\ PartitionOf(t) = p}
  <2>1. Reached(i) = To(i)
    BY DEF AllDeleted, Reached
  <2>2. \A t \in Tuples :
          From(i) <= t * TUPLE_SIZE /\ t * TUPLE_SIZE < To(i) <=> Segment(t) = i
    BY <1>1, SegmentOfTuple
  <2> QED BY <2>1, <2>2 DEF Passed
<1> QED BY <1>1, <1>2 DEF IInv, Counters

LEMMA VerifyStep ==
  ASSUME IInv, Verify
  PROVE  IInv'
<1> USE DEF Verify, reader
<1>1. /\ Divides
      /\ \A i \in Tasks, p \in Partitions :
           histogram[LocalHist(i) + p] =
             Cardinality({t \in Tuples : Segment(t) = i /\ PartitionOf(t) = p})
  BY AllPassed
<1>2. /\ n_threads \in Nat \ {0} /\ N_PARTITIONS \in Nat \ {0}
      /\ n_threads * N_PARTITIONS \in Nat
  BY <1>1, Sizes, Multiples DEF Divides
<1> DEFINE own == [t \in Tuples |-> LocalHist(Segment(t)) + PartitionOf(t)]
<1>3. own \in [Tuples -> Cells]
  <2> SUFFICES ASSUME NEW t \in Tuples
               PROVE  LocalHist(Segment(t)) + PartitionOf(t) \in Cells
    OBVIOUS
  <2>1. Segment(t) \in Tasks /\ PartitionOf(t) \in Partitions
    BY <1>1, SegmentOfTuple, TupleAt
  <2> QED BY <1>2, <2>1, Digits DEF Cells, LocalHist, Tasks, Partitions
<1>4. histogram = [c \in Cells |-> Cardinality({t \in Tuples : own[t] = c})]
  <2>1. ASSUME NEW c \in Cells
        PROVE  histogram[c] = Cardinality({t \in Tuples : own[t] = c})
    <3> DEFINE i == c \div N_PARTITIONS
               p == c % N_PARTITIONS
    <3>1. c \in Nat /\ c < n_threads * N_PARTITIONS
      BY <1>2 DEF Cells
    <3>2. i \in Tasks /\ p \in Partitions /\ c = LocalHist(i) + p
      BY <1>2, <3>1, QuotientBelow, Division DEF Tasks, Partitions, LocalHist
    <3> HIDE DEF i, p
    <3>3. \A t \in Tuples : own[t] = c <=> Segment(t) = i /\ PartitionOf(t) = p
      <4> SUFFICES ASSUME NEW t \in Tuples
                   PROVE  LocalHist(Segment(t)) + PartitionOf(t) = c <=>
                            Segment(t) = i /\ PartitionOf(t) = p
        OBVIOUS
      <4>1. Segment(t) \in Tasks /\ PartitionOf(t) \in Partitions
        BY <1>1, SegmentOfTuple, TupleAt
      <4> DEFINE a == Segment(t)
                 b == PartitionOf(t)
      <4>2. /\ a \in 0..(n_threads - 1) /\ b \in 0..(N_PARTITIONS - 1)
            /\ i \in Nat /\ p \in 0..(N_PARTITIONS - 1)
        BY <3>2, <4>1 DEF Tasks, Partitions
      <4> HIDE DEF a, b
      <4>3. a * N_PARTITIONS + b = i * N_PARTITIONS + p => a = i /\ b = p
        BY <1>2, <4>2, Digits
      <4> QED BY <3>2, <4>3 DEF LocalHist, a, b
    <3>4. {t \in Tuples : own[t] = c} =
            {t \in Tuples : Segment(t) = i /\ PartitionOf(t) = p}
      BY <3>3
    <3> QED BY <1>1, <3>2, <3>4
  <2> QED BY <2>1 DEF IInv, Typing
<1>5. sum' = file_size \div TUPLE_SIZE
  <2>1. IsFiniteSet(Tuples) /\ Cardinality(Tuples) = file_size \div TUPLE_SIZE
    BY <1>1, TupleAt, Below DEF Tuples
  <2>2. IsFiniteSet(Cells)
    BY <1>2, Below DEF Cells
  <2> HIDE DEF own
  <2>3. Total(histogram) = Cardinality(Tuples)
    BY <1>3, <1>4, <2>1, <2>2, FoldCounts
  <2> QED BY <2>1, <2>3
<1>6. Typing'
  BY DEF IInv, Typing, input
<1>7. Stages'
  BY <1>5, Same DEF IInv, Stages, AllDeleted, input, file_size
<1>8. Windows'
  BY Same DEF IInv, Windows, InWindow, Whole
<1>9. Mappings'
  BY Same DEF IInv, Mappings
<1>10. Counters'
  <2>1. \A i \in Tasks : Reached(i)' = Reached(i)
    BY Same DEF Reached
  <2>2. \A i \in Tasks : phase'[i] = "store" => loaded'[i] = histogram[Cell(i)']
    BY DEF AllDeleted
  <2> QED BY <2>1, <2>2, CountersKept DEF IInv
<1> QED BY <1>6, <1>7, <1>8, <1>9, <1>10 DEF IInv

(* The invariant: what every counter counts, where every window lies and which
   pages are mapped for it. *)
THEOREM Invariance == Spec => []IInv
<1>1. Init => IInv
  BY InitInv
<1>2. IInv /\ [Next]_vars => IInv'
  <2> SUFFICES ASSUME IInv, [Next]_vars PROVE IInv'
    OBVIOUS
  <2>1. CASE Start
    BY <2>1, StartStep
  <2>2. CASE AddInterleaved
    BY <2>2, AddInterleavedStep
  <2>3. CASE AddSegment
    BY <2>3, AddSegmentStep
  <2>4. CASE Verify
    BY <2>4, VerifyStep
  <2>5. ASSUME NEW i \in Tasks, Task(i) PROVE IInv'
    <3>1. CASE NextWindow(i)
      BY <3>1, NextWindowStep
    <3>2. CASE UnmapAll(i)
      BY <3>2, Stutter DEF UnmapAll
    <3>3. CASE Load(i)
      BY <3>3, LoadStep
    <3>4. CASE Store(i)
      BY <3>4, StoreStep
    <3>5. CASE Delete(i)
      BY <3>5, DeleteStep
    <3> QED BY <2>5, <3>1, <3>2, <3>3, <3>4, <3>5 DEF Task
  <2>6. CASE UNCHANGED vars
    BY <2>6, Stutter DEF vars
  <2>7. CASE Terminated
    BY <2>6, <2>7 DEF Terminated
  <2> QED BY <2>1, <2>2, <2>3, <2>4, <2>5, <2>6, <2>7 DEF Next
<1> QED BY <1>1, <1>2, PTL DEF Spec

(* A task looks only at bytes whose pages are mapped: the pages its reader holds
   are those of the window it has given out, no more and no fewer, and a reader
   that is deleted holds none. *)
THEOREM WindowsMapped == Spec => []MappedExactly
<1>1. IInv => MappedExactly
  <2> SUFFICES ASSUME IInv, NEW i \in Tasks
               PROVE  /\ phase[i] \in {"load", "store"} =>
                           LET pages == {get_page_num(window[i] + k) : k \in 0..(sz[i] - 1)}
                           IN \/ mem /\ mapped[i] = {}
                              \/ /\ \A m \in mapped[i] : m[1] = buffer[i]
                                 /\ {get_page_num(m[1]) + m[2] : m \in mapped[i]} = pages
                      /\ phase[i] = "deleted" => mapped[i] = {}
    BY DEF MappedExactly
  <2> DEFINE pages == {get_page_num(window[i] + k) : k \in 0..(sz[i] - 1)}
  <2>1. phase[i] = "deleted" => mapped[i] = {}
    BY DEF IInv, Mappings
  <2>2. ASSUME phase[i] \in {"load", "store"}
        PROVE  \/ mem /\ mapped[i] = {}
               \/ /\ \A m \in mapped[i] : m[1] = buffer[i]
                  /\ {get_page_num(m[1]) + m[2] : m \in mapped[i]} = pages
    <3>1. CASE benchmark = "single"
      <4>1. pc \in {"add", "done"}
        BY <2>2, Started
      <4> QED BY <3>1, <4>1 DEF IInv, Stages, Mappings
    <3>2. CASE benchmark = "parallel"
      <4> DEFINE b == window[i]
                 q == b \div PAGE_SIZE
                 l == sz[i] + (b - q * PAGE_SIZE)
                 last == (l + PAGE_SIZE - 1) \div PAGE_SIZE - 1
      <4>1. mapped[i] = {<<b, n>> : n \in 0..last} /\ buffer[i] = b
        BY <2>2, <3>2 DEF IInv, Mappings, Mapping, PagesFor, get_page_num
      <4>2. {q + n : n \in 0..last} = pages
        <5>1. b \in Nat /\ sz[i] \in Nat \ {0} /\ PAGE_SIZE \in Nat \ {0}
          BY <2>2, Sizes DEF IInv, Typing, Windows, InWindow
        <5> QED BY <5>1, Pages DEF get_page_num
      <4> HIDE DEF last, b, pages
      <4>3. {get_page_num(m[1]) + m[2] : m \in mapped[i]} = {q + n : n \in 0..last}
        <5> DEFINE page(m) == get_page_num(m[1]) + m[2]
        <5>1. ASSUME NEW k \in 0..last PROVE page(<<b, k>>) = q + k
          BY DEF get_page_num
        <5> HIDE DEF page
        <5>2. {page(m) : m \in mapped[i]} = {page(<<b, k>>) : k \in 0..last}
          BY <4>1
        <5>3. {page(<<b, k>>) : k \in 0..last} = {q + k : k \in 0..last}
          BY <5>1
        <5> QED BY <5>2, <5>3 DEF page
      <4> QED BY <4>1, <4>2, <4>3
    <3> QED BY <3>1, <3>2 DEF IInv, Typing
  <2> QED BY <2>1, <2>2
<1> QED BY <1>1, Invariance, PTL

(* When the sum is printed every tuple has been counted exactly once, in its own
   partition: no task's load and store has lost another's, and no tuple lies in
   two windows or in none. *)
THEOREM CountsAllTuples == Spec => []HistogramRight
<1>1. IInv => HistogramRight
  <2> SUFFICES ASSUME IInv, pc = "done" PROVE HistogramRight
    BY DEF HistogramRight
  <2> DEFINE n == file_size \div TUPLE_SIZE
             InPartition(p) ==
               {t \in 0..(n - 1) :
                  get_partition(file[t * TUPLE_SIZE], file[t * TUPLE_SIZE + 1]) = p}
             Counts(p) == [i \in Tasks |-> histogram[i * N_PARTITIONS + p]]
             Counted(p) == Total(Counts(p))
  <2>1. sum = n /\ AllDeleted
    BY DEF IInv, Stages
  <2>2. /\ Divides
        /\ \A i \in Tasks, p \in Partitions :
             histogram[LocalHist(i) + p] =
               Cardinality({t \in Tuples : Segment(t) = i /\ PartitionOf(t) = p})
    BY <2>1, AllPassed
  <2>3. ASSUME NEW p \in Partitions
        PROVE  Counted(p) = Cardinality(InPartition(p))
    <3> DEFINE T == InPartition(p)
               own == [t \in T |-> Segment(t)]
    <3>1. T \in SUBSET Tuples /\ \A t \in Tuples : t \in T <=> PartitionOf(t) = p
      BY DEF Tuples, PartitionOf
    <3> HIDE DEF InPartition
    <3>2. IsFiniteSet(T) /\ IsFiniteSet(Tasks)
      <4>1. IsFiniteSet(Tuples) /\ IsFiniteSet(Tasks)
        BY <2>2, TupleAt, Sizes, Below DEF Tuples, Tasks, Divides
      <4> QED BY <3>1, <4>1, FS_Subset
    <3>3. own \in [T -> Tasks]
      BY <2>2, <3>1, SegmentOfTuple
    <3>4. Counts(p) = [i \in Tasks |-> Cardinality({t \in T : own[t] = i})]
      <4>1. ASSUME NEW i \in Tasks
            PROVE  histogram[i * N_PARTITIONS + p] = Cardinality({t \in T : own[t] = i})
        <5>1. {t \in T : own[t] = i} =
                {t \in Tuples : Segment(t) = i /\ PartitionOf(t) = p}
          BY <3>1
        <5> QED BY <2>2, <5>1 DEF LocalHist
      <4> QED BY <4>1
    <3> HIDE DEF own, T, Counts
    <3> QED BY <3>2, <3>3, <3>4, FoldCounts DEF T
  <2> QED BY <2>1, <2>3 DEF HistogramRight
<1> QED BY <1>1, Invariance, PTL

=============================================================================

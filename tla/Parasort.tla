------------------------------ MODULE Parasort ------------------------------
(***************************************************************************)
(* parasort (include/utilities/borrowedsort.h), the sample sort with which *)
(* ColumnStoreBenchmark sorts the column store.  The elements are divided  *)
(* into np buckets by a range of np - 1 delimiters, which come from a      *)
(* random sample.  Every thread counts how many elements of its part of    *)
(* the list go to each bucket; from the counts follows where in the new    *)
(* array each thread puts its elements of each bucket; the threads then    *)
(* scatter their parts, all into the same array, and finally each sorts    *)
(* one bucket.                                                             *)
(***************************************************************************)
EXTENDS Integers, Functions

CONSTANTS
  np,       (* the number of threads                                       *)
  Keys,     (* the keys a tuple may have                                   *)
  MaxSize   (* bound on the length of the list                             *)

ASSUME ParasortAssumption ==
  /\ np \in Nat \ {0}
  /\ Keys \subseteq Nat
  /\ MaxSize \in Nat \ {0}

VARIABLES
  sz,      (* the length of the list                                       *)
  list,    (* the argument                                                 *)
  range,   (* the delimiters                                               *)
  bucket,  (* thread t's number of elements for bucket n, at t * np + n    *)
  map,     (* where thread t's elements of bucket n begin, likewise        *)
  tmp,     (* where the next of them goes, likewise                        *)
  sorted,  (* the new array                                                *)
  phase,   (* the main thread's step                                       *)
  done     (* per thread, what it has done of this step                    *)

vars == <<sz, list, range, bucket, map, tmp, sorted, phase, done>>

-----------------------------------------------------------------------------

Threads == 0..(np - 1)
Cells == 0..(np * np - 1)
Positions == 0..(sz - 1)

(* A tuple is its key and its rowID; Blank is one that nobody has set. *)
Blank == [key |-> 0, rowID |-> -1]
Tuples == [key : Keys, rowID : 0..(MaxSize - 1)]

(* Every thread's part of the list; the last one takes what is left over. *)
part == sz \div np

Length(t) == IF t + 1 = np THEN sz - t * part ELSE part

(* The loop over the delimiters in _count and _reorder. *)
Below(x, n) == x.key < range[n]

BucketOf(x) ==
  CHOOSE n \in Threads :
    /\ n = np - 1 \/ Below(x, n)
    /\ \A m \in 0..(n - 1) : ~Below(x, m)

Same(t, n) == t * np + n

(* Step 1: np * sf elements of the list, chosen at random and sorted; every
   sf-th is a delimiter. *)
Sample ==
  /\ phase = "sample"
  /\ range' \in {r \in [0..(np - 2) -> {list[i].key : i \in Positions}] :
                   \A i, j \in 0..(np - 2) : i <= j => r[i] <= r[j]}
  /\ phase' = "count"
  /\ UNCHANGED <<sz, list, bucket, map, tmp, sorted, done>>

(* Step 2: _count, one element at a time. *)
Count(t) ==
  /\ phase = "count"
  /\ done[t] < Length(t)
  /\ bucket' = [bucket EXCEPT ![Same(t, BucketOf(list[t * part + done[t]]))]
                              = @ + 1]
  /\ done' = [done EXCEPT ![t] = @ + 1]
  /\ UNCHANGED <<sz, list, range, map, tmp, sorted, phase>>

Joined == \A t \in Threads : done[t] = Length(t)

(* Step 3: where the elements of a cell begin, behind those of the buckets
   before it and those of the threads before it in its bucket (and if they are
   laid out thread by thread). *)
ByThread(i) == i

ByBucket(i) == (i % np) * np + i \div np

Sum[i \in 0..(np * np)] ==
  IF i = 0 THEN 0 ELSE Sum[i - 1] + bucket[ByBucket(i - 1)]

StartOf(i) == Sum[ByBucket(i)]

MakeMap ==
  /\ phase = "count" /\ Joined
  /\ map' = [i \in Cells |-> StartOf(i)]
  /\ tmp' = map'
  /\ done' = [t \in Threads |-> 0]
  /\ phase' = "reorder"
  /\ UNCHANGED <<sz, list, range, bucket, sorted>>

(* Step 4: _reorder, one element at a time. *)
After(p) == p + 1

Reorder(t) ==
  /\ phase = "reorder"
  /\ done[t] < Length(t)
  /\ LET x == list[t * part + done[t]]
         c == Same(t, BucketOf(x))
     IN /\ sorted' = [sorted EXCEPT ![tmp[c]] = x]
        /\ tmp' = [tmp EXCEPT ![c] = After(@)]
  /\ done' = [done EXCEPT ![t] = @ + 1]
  /\ UNCHANGED <<sz, list, range, bucket, map, phase>>

ReorderJoin ==
  /\ phase = "reorder" /\ Joined
  /\ done' = [t \in Threads |-> 0]
  /\ phase' = "sort"
  /\ UNCHANGED <<sz, list, range, bucket, map, tmp, sorted>>

(* Step 5: std::sort of the part of the new array that holds bucket t, with
   ties in any order (and of one that ends a tuple too early). *)
SliceEnd(t) == IF t + 1 = np THEN sz ELSE map[t + 1]

SliceShort(t) == map[t]..(SliceEnd(t) - 2)

Slice(t) == map[t]..(SliceEnd(t) - 1)

SortSlice(t) ==
  /\ phase = "sort" /\ done[t] = 0
  /\ \E p \in Bijection(Slice(t), Slice(t)) :
       /\ sorted' = [i \in Positions |->
                       sorted[IF i \in Slice(t) THEN p[i] ELSE i]]
       /\ \A i, j \in Slice(t) : i <= j => sorted'[i].key <= sorted'[j].key
  /\ done' = [done EXCEPT ![t] = 1]
  /\ UNCHANGED <<sz, list, range, bucket, map, tmp, phase>>

(* Step 6. *)
CopyBack ==
  /\ phase = "sort" /\ \A t \in Threads : done[t] = 1
  /\ list' = sorted
  /\ phase' = "done"
  /\ UNCHANGED <<sz, range, bucket, map, tmp, sorted, done>>

Terminated == phase = "done" /\ UNCHANGED vars

(* The column store before it is sorted: rowID is a tuple's position. *)
Init ==
  /\ sz \in 1..MaxSize
  /\ \E keys \in [Positions -> Keys] :
       list = [i \in Positions |-> [key |-> keys[i], rowID |-> i]]
  /\ range = [i \in 0..(np - 2) |-> 0]
  /\ bucket = [c \in Cells |-> 0]
  /\ map = bucket /\ tmp = bucket
  /\ sorted = [i \in Positions |-> Blank]
  /\ phase = "sample"
  /\ done = [t \in Threads |-> 0]

Next ==
  \/ Sample \/ MakeMap \/ ReorderJoin \/ CopyBack \/ Terminated
  \/ \E t \in Threads : Count(t) \/ Reorder(t) \/ SortSlice(t)

Spec == Init /\ [][Next]_vars

-----------------------------------------------------------------------------
(* Properties. *)

(* When the buckets are sorted, each by its own thread, they lie apart, cover
   the new array, which has no gap, and are in the order of their keys. *)
Partitioned ==
  phase = "sort" =>
    /\ \A i \in Positions : sorted[i] # Blank
    /\ \A i \in Positions : \E t \in Threads : i \in Slice(t)
    /\ \A t, u \in Threads : t < u =>
         \A i \in Slice(t), j \in Slice(u) :
           i < j /\ sorted[i].key <= sorted[j].key

(* What parasort leaves in the list is sorted and holds exactly the tuples
   that were in it, rowIDs included. *)
ResultSorted ==
  [][phase' = "done" /\ phase # "done" =>
       /\ \A i, j \in Positions : i <= j => list'[i].key <= list'[j].key
       /\ {list'[i] : i \in Positions} = {list[i] : i \in Positions}]_vars

=============================================================================

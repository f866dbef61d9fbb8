---------------------------- MODULE MCSequential ----------------------------
(* What one thread does at a time: the functions of RangePartition, PdqSort and
   MergeKernels, each with inputs of its own, and the operations of TaskQueue,
   in any order.  A behaviour is of one of the four; the variables of the others
   do not change. *)
EXTENDS TaskQueue, RangePartition, MergeKernels, PdqSort

-----------------------------------------------------------------------------
(* The ranges only compare, so two values are enough for the delimiters: the
   first n are low, the others high.  The keys are below, at, between and above
   them; t and s bring every value to every lane, beside every other. *)
MCKeys == {[k \in 0..7 |-> (s * k + t) % 5] : s \in 0..4, t \in 0..4}

Delimiters(way, n) ==
  [d \in 0..(way - 2) |-> IF d < n THEN 1 ELSE 3]

(* The number behind the 7 delimiters fits into their order or does not. *)
MCInputs ==
  {[way |-> 17, dels |-> Delimiters(17, n), keys |-> ks] :
     n \in 0..16, ks \in MCKeys}
  \union
  {[way |-> 8, keys |-> ks,
    dels |-> [d \in 0..7 |-> IF d = 7 THEN b ELSE Delimiters(8, n)[d]]] :
     n \in 0..7, ks \in MCKeys, b \in {0, 3}}

(* All keys of small arrays, and one array that pdqsort partitions badly until
   it gives up: every pivot it would choose has been given a small key. *)
Killer ==
  <<0, 2, 4, 37, 35, 36, 47, 28, 38, 45, 39, 40, 32, 30, 50, 49, 48, 44, 43, 42,
    34, 6, 8, 9, 46, 11, 13, 14, 41, 16, 18, 20, 73, 22, 24, 26, 3, 1, 5, 7, 10,
    12, 15, 19, 17, 21, 25, 23, 27, 31, 29, 33, 51, 52, 53, 55, 58, 70, 59, 71,
    60, 61, 72, 62, 63, 64, 65, 66, 67, 68, 69, 54, 56, 57>>

Keys(n, k) == [1..n -> 1..k]
MCSortCalls ==
  {[kernel |-> "pdqsort", s |-> s] :
     s \in UNION {Keys(n, 3) : n \in 1..7} \union Keys(11, 2) \union {Killer}}
  \union {[kernel |-> "divide", s |-> s] :
            s \in {t \in Keys(9, 3) : t[1] = 2} \union Keys(10, 2)}

(* Sorted sequences, empty ones, shorter and longer ones. *)
Ascending(n, k) ==
  {s \in [1..n -> 1..k] : \A i \in 1..(n - 1) : s[i] <= s[i + 1]}
MCMergeCalls ==
  {[kernel |-> k, s1 |-> s, s2 |-> t] :
     k \in {"merge", "half", "uncontiguous"},
     s \in UNION {Ascending(n, 3) : n \in 0..3},
     t \in UNION {Ascending(n, 3) : n \in {0, 1, 2, 4}}}
  \union {[kernel |-> "flow", s1 |-> s, s2 |-> t] :
            s \in Ascending(3, 4), t \in Ascending(3, 4)}
  \union {[kernel |-> "flow", s1 |-> s, s2 |-> t] :
            s \in Ascending(2, 3), t \in Ascending(2, 3)}

-----------------------------------------------------------------------------

RangeIdle ==
  /\ call = [way |-> 17, keys |-> <<>>, dels |-> <<>>]
  /\ beg = 0 /\ at = 0 /\ key_128 = Zero /\ result = Zero /\ merged = Zero
  /\ indices = <<>> /\ step = "idle"
SortIdle ==
  /\ sort_call = [kernel |-> "none", s |-> <<>>]
  /\ a = <<>> /\ loops = <<>> /\ sort_pc = "idle"
  /\ first = 0 /\ last = 0 /\ already = FALSE
MergeIdle ==
  /\ merge_call = [kernel |-> "none", s1 |-> <<>>, s2 |-> <<>>]
  /\ mem = <<>> /\ merge_pc = "idle"
  /\ x = 0 /\ end_x = 0 /\ y = 0 /\ end_y = 0
  /\ out = 0 /\ end_out = 0 /\ next_out = 0

MCInit ==
  /\ LInit
  /\ \/ RInit /\ SortIdle /\ MergeIdle
     \/ SInit /\ RangeIdle /\ MergeIdle
     \/ MInit /\ RangeIdle /\ SortIdle
     \/ RangeIdle /\ SortIdle /\ MergeIdle

OnlyRange == UNCHANGED <<listVars, sortVars, mergeVars>>
OnlySort == UNCHANGED <<listVars, rangeVars, mergeVars>>
OnlyMerge == UNCHANGED <<listVars, rangeVars, sortVars>>
OnlyList ==
  /\ step = "idle" /\ sort_pc = "idle" /\ merge_pc = "idle"
  /\ UNCHANGED <<rangeVars, sortVars, mergeVars>>

MCNext ==
  \/ LoadKeys(IF call.way = 17 THEN "scan" ELSE "root") /\ OnlyRange
  \/ Scan /\ OnlyRange
  \/ Root /\ OnlyRange
  \/ Child /\ OnlyRange
  \/ Leaf /\ OnlyRange
  \/ RTerminated /\ OnlyRange
  \/ InsertionSort /\ OnlySort
  \/ UnguardedInsertionSort /\ OnlySort
  \/ ChoosePivot /\ OnlySort
  \/ LeftSearch /\ OnlySort
  \/ LeftSwap /\ OnlySort
  \/ LeftPlace /\ OnlySort
  \/ RightSearch /\ OnlySort
  \/ RightSwap /\ OnlySort
  \/ RightPlace /\ OnlySort
  \/ HeapSort /\ OnlySort
  \/ Shuffle /\ OnlySort
  \/ InsertParts /\ OnlySort
  \/ SplitParts /\ OnlySort
  \/ pivot9 /\ OnlySort
  \/ DivideSearch /\ OnlySort
  \/ DivideSwap /\ OnlySort
  \/ DividePlace /\ OnlySort
  \/ STerminated /\ OnlySort
  \/ Check /\ OnlyMerge
  \/ Uncontiguous /\ OnlyMerge
  \/ Flow /\ OnlyMerge
  \/ MergeTurn /\ OnlyMerge
  \/ MergeRest /\ OnlyMerge
  \/ FillTurn /\ OnlyMerge
  \/ AuxRest /\ OnlyMerge
  \/ FillHalf /\ OnlyMerge
  \/ FlowRest /\ OnlyMerge
  \/ MTerminated /\ OnlyMerge
  \/ \E t \in QueueTasks : insert(t) /\ OnlyList
  \/ NextOfNone /\ OnlyList
  \/ next /\ OnlyList
  \/ DestroyQueue /\ OnlyList
  \/ DestroyNode /\ OnlyList
  \/ LTerminated /\ OnlyList

MCSpec == MCInit /\ [][MCNext]_<<listVars, rangeVars, sortVars, mergeVars>>

=============================================================================

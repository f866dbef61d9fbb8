------------------------------- MODULE PdqSort -------------------------------
(***************************************************************************)
(* pdqsort (include/libs/boost/sort/pdqsort), the sort of one thread in    *)
(* block_indirect_sort, and the partition of parallel_sort::divide_sort,   *)
(* which splits a range between threads.  A Tuple is not arithmetic, so it *)
(* is partition_right that runs and not its branchless variant.            *)
(*                                                                         *)
(* Most searches and sifts of these functions do not look where they are:  *)
(* something is known to stop them in time.  Here they only see the range  *)
(* they are meant for, and sort_pc is "out" when they would have left it.  *)
(*                                                                         *)
(* An element is its key, the array starts at 0.  The heap sort is known.  *)
(***************************************************************************)
EXTENDS Integers, Sequences, FiniteSetsExt

CONSTANTS
  SortCalls,                   (* [kernel |-> "pdqsort" or "divide",
                                  s |-> the keys]                          *)
  insertion_sort_threshold,    (* shorter ranges; 24, the shuffles need 4  *)
  ninther_threshold,           (* longer ranges; 128                       *)
  partial_insertion_sort_limit (* the moves before it gives up; 8          *)

(* pdqsort returns at once for an empty range; divide_sort leaves what is shorter
   than max_per_thread, which is far more than 9, to pdqsort. *)
ASSUME SortAssumption ==
  /\ \A c \in SortCalls :
       /\ c.kernel \in {"pdqsort", "divide"}
       /\ c.s \in Seq(Int)
       /\ Len(c.s) >= (IF c.kernel = "divide" THEN 9 ELSE 1)
  /\ {insertion_sort_threshold, ninther_threshold, partial_insertion_sort_limit}
       \subseteq Nat
  /\ insertion_sort_threshold >= 4

VARIABLES
  sort_call,  (* the arguments                                             *)
  a,          (* the array                                                 *)
  loops,      (* the calls of pdqsort_loop, the innermost first            *)
  sort_pc,    (* where it is                                               *)
  first,      (* the searches: the one that goes up ...                    *)
  last,       (* ... and the one that goes down                            *)
  already     (* already_partitioned                                       *)

sortVars == <<sort_call, a, loops, sort_pc, first, last, already>>

-----------------------------------------------------------------------------
(* Searches, exchanges, sifts. *)

(* The first place of S between from and hi, or hi; the last one down to lo, or
   the one before lo. *)
Up(from, hi, S) == Min({hi} \cup ((from..(hi - 1)) \cap S))
Down(from, lo, S) == Max({lo - 1} \cup ((lo..from) \cap S))

Swap(m, i, j) == [m EXCEPT ![i] = m[j], ![j] = m[i]]

sort2(m, i, j) == IF m[j] < m[i] THEN Swap(m, i, j) ELSE m
sort3(m, i, j, k) == sort2(sort2(sort2(m, i, j), j, k), i, j)

(* Where the element at cur sinks to, not below lo, and the array then. *)
Sift(m, lo, cur) ==
  Max({lo} \cup {s \in (lo + 1)..cur : m[s - 1] <= m[cur]})
Sunk(m, s, cur) ==
  [i \in DOMAIN m |-> CASE i = s -> m[cur]
                        [] i \in (s + 1)..cur -> m[i - 1]
                        [] OTHER -> m[i]]

(* The array after each element of [lo, hi) has sunk, not below lowest. *)
Inserted(lowest, lo, hi) ==
  LET M[cur \in lo..(hi - 1)] ==
        IF cur = lo THEN a
        ELSE LET m == M[cur - 1] IN Sunk(m, Sift(m, lowest, cur), cur)
  IN M

(* partial_insertion_sort gives up when it has moved too much (and says so, or
   forgets to). *)
AbandonedSilently(p) == p

Abandoned(p) == [p EXCEPT !.sorted = FALSE]

partial_insertion_sort(m, lo, hi) ==
  LET P[cur \in lo..(hi - 1)] ==
        IF cur = lo THEN [mem |-> m, moved |-> 0, sorted |-> TRUE]
        ELSE LET p == P[cur - 1]
                 s == Sift(p.mem, lo, cur)
             IN IF p.moved > partial_insertion_sort_limit THEN Abandoned(p)
                ELSE [p EXCEPT !.mem = Sunk(@, s, cur), !.moved = @ + cur - s]
  IN IF lo = hi THEN [mem |-> m, moved |-> 0, sorted |-> TRUE] ELSE P[hi - 1]

(* The range in order.  Elements are keys: whatever sorts them leaves what
   insertion leaves. *)
Ordered(lo, hi) ==
  IF lo = hi THEN a ELSE Inserted(lo, lo, hi)[hi - 1]

-----------------------------------------------------------------------------
(* pdqsort_loop, its innermost call. *)

begin == Head(loops).begin
end == Head(loops).end
size == end - begin
pivot == a[begin]

(* The places of m whose elements stop a search. *)
Above(m) == {i \in DOMAIN m : pivot < m[i]}
AtLeast(m) == {i \in DOMAIN m : pivot <= m[i]}
AtMost(m) == {i \in DOMAIN m : m[i] <= pivot}
Below(m) == {i \in DOMAIN m : m[i] < pivot}

ILog2(n) == CHOOSE k \in 0..n : 2^k <= n /\ n < 2^(k + 1)

Return ==
  /\ loops' = Tail(loops)
  /\ sort_pc' = IF Tail(loops) = <<>> THEN "done" ELSE "loop"

Found(ok, next) == sort_pc' = IF ok THEN next ELSE "out"

InsertionSort ==
  /\ sort_pc = "loop" /\ size < insertion_sort_threshold
  /\ Head(loops).leftmost
  /\ a' = Ordered(begin, end)
  /\ Return
  /\ UNCHANGED <<sort_call, first, last, already>>

(* The element before begin, or one before that, ends every sift. *)
UnguardedInsertionSort ==
  /\ sort_pc = "loop" /\ size < insertion_sort_threshold
  /\ ~Head(loops).leftmost
  /\ LET M == Inserted(0, begin, end)
         InRange == \A cur \in (begin + 1)..(end - 1) :
                      begin > 0 /\ Sift(M[cur - 1], 0, cur) >= begin
     IN /\ a' = IF size = 0 THEN a ELSE M[end - 1]
        /\ loops' = Tail(loops)
        /\ Found(InRange, IF Tail(loops) = <<>> THEN "done" ELSE "loop")
  /\ UNCHANGED <<sort_call, first, last, already>>

PivotChosen ==
  LET s2 == begin + size \div 2
      m1 == sort3(a, begin, s2, end - 1)
      m2 == sort3(m1, begin + 1, s2 - 1, end - 2)
      m3 == sort3(m2, begin + 2, s2 + 1, end - 3)
      m4 == sort3(m3, s2 - 1, s2, s2 + 1)
  IN IF size > ninther_threshold THEN Swap(m4, begin, s2)
     ELSE sort3(a, s2, begin, end - 1)

(* Equal to the element before: everything equal goes to the left. *)
ChoosePivot ==
  /\ sort_pc = "loop" /\ size >= insertion_sort_threshold
  /\ a' = PivotChosen
  /\ sort_pc' = CASE Head(loops).leftmost -> "right"
             [] ~Head(loops).leftmost /\ begin = 0 -> "out"
             [] OTHER -> IF a[begin - 1] < a'[begin] THEN "right" ELSE "left"
  /\ UNCHANGED <<sort_call, loops, first, last, already>>

(* partition_left *)
LeftSearch ==
  /\ sort_pc = "left"
  /\ last' = Down(end - 1, begin, AtMost(a))
  /\ first' = IF last' + 1 = end
              THEN Up(begin + 1, last', Above(a))
              ELSE Up(begin + 1, end, Above(a))
  /\ Found(last' >= begin /\ first' < end, "leftswap")
  /\ UNCHANGED <<sort_call, a, loops, already>>

LeftSwap ==
  /\ sort_pc = "leftswap" /\ first < last
  /\ a' = Swap(a, first, last)
  /\ last' = Down(last - 1, begin, AtMost(a'))
  /\ first' = Up(first + 1, end, Above(a'))
  /\ Found(last' >= begin /\ first' < end, "leftswap")
  /\ UNCHANGED <<sort_call, loops, already>>

LeftPlace ==
  /\ sort_pc = "leftswap" /\ first >= last
  /\ a' = Swap(a, begin, last)
  /\ loops' = [loops EXCEPT ![1].begin = last + 1]
  /\ sort_pc' = "loop"
  /\ UNCHANGED <<sort_call, first, last, already>>

(* partition_right *)
RightSearch ==
  /\ sort_pc = "right"
  /\ first' = Up(begin + 1, end, AtLeast(a))
  /\ last' = IF first' - 1 = begin
             THEN Max({first', Down(end - 1, begin, Below(a))})
             ELSE Down(end - 1, begin, Below(a))
  /\ already' = (first' >= last')
  /\ Found(first' < end /\ last' >= begin, "rightswap")
  /\ UNCHANGED <<sort_call, a, loops>>

RightSwap ==
  /\ sort_pc = "rightswap" /\ first < last
  /\ a' = Swap(a, first, last)
  /\ first' = Up(first + 1, end, AtLeast(a'))
  /\ last' = Down(last - 1, begin, Below(a'))
  /\ Found(first' < end /\ last' >= begin, "rightswap")
  /\ UNCHANGED <<sort_call, loops, already>>

RightPlace ==
  /\ sort_pc = "rightswap" /\ first >= last
  /\ a' = Swap(a, begin, first - 1)
  /\ sort_pc' = "balance"
  /\ UNCHANGED <<sort_call, loops, first, last, already>>

(* The pivot is at first - 1. *)
pivot_pos == first - 1
l_size == pivot_pos - begin
r_size == end - (pivot_pos + 1)
HighlyUnbalanced == l_size < size \div 8 \/ r_size < size \div 8

(* The left part next, then the rest with nothing smaller behind it (and one
   that forgets which part has nothing before it). *)
LeftGuarded(loop) == FALSE

Leftmost(loop) == loop.leftmost

SplitLoop(bad_allowed) ==
  LET left == [begin |-> begin, end |-> pivot_pos, bad |-> bad_allowed,
               leftmost |-> Leftmost(Head(loops))]
      right == [begin |-> pivot_pos + 1, end |-> end, bad |-> bad_allowed,
                leftmost |-> FALSE]
  IN loops' = <<left, right>> \o Tail(loops) /\ sort_pc' = "loop"

HeapSort ==
  /\ sort_pc = "balance" /\ HighlyUnbalanced /\ Head(loops).bad = 1
  /\ a' = Ordered(begin, end)
  /\ Return
  /\ UNCHANGED <<sort_call, first, last, already>>

(* The exchanges of the shuffle, in their order. *)
ShuffleLeft(m) ==
  LET q == l_size \div 4
      m1 == Swap(Swap(m, begin, begin + q), pivot_pos - 1, pivot_pos - q)
      m2 == Swap(Swap(m1, begin + 1, begin + q + 1), begin + 2, begin + q + 2)
      m3 == Swap(Swap(m2, pivot_pos - 2, pivot_pos - (q + 1)),
                 pivot_pos - 3, pivot_pos - (q + 2))
  IN IF l_size < insertion_sort_threshold THEN m
     ELSE IF l_size > ninther_threshold THEN m3 ELSE m1

ShuffleRight(m) ==
  LET q == r_size \div 4
      m1 == Swap(Swap(m, pivot_pos + 1, pivot_pos + 1 + q), end - 1, end - q)
      m2 == Swap(Swap(m1, pivot_pos + 2, pivot_pos + 2 + q),
                 pivot_pos + 3, pivot_pos + 3 + q)
      m3 == Swap(Swap(m2, end - 2, end - (1 + q)), end - 3, end - (2 + q))
  IN IF r_size < insertion_sort_threshold THEN m
     ELSE IF r_size > ninther_threshold THEN m3 ELSE m1

Shuffle ==
  /\ sort_pc = "balance" /\ HighlyUnbalanced /\ Head(loops).bad # 1
  /\ a' = ShuffleRight(ShuffleLeft(a))
  /\ SplitLoop(Head(loops).bad - 1)
  /\ UNCHANGED <<sort_call, first, last, already>>

(* Both parts in place with few moves: done. *)
InsertParts ==
  /\ sort_pc = "balance" /\ ~HighlyUnbalanced /\ already
  /\ LET l == partial_insertion_sort(a, begin, pivot_pos)
         r == partial_insertion_sort(l.mem, pivot_pos + 1, end)
     IN IF l.sorted THEN /\ a' = r.mem
                         /\ IF r.sorted THEN Return ELSE SplitLoop(Head(loops).bad)
        ELSE a' = l.mem /\ SplitLoop(Head(loops).bad)
  /\ UNCHANGED <<sort_call, first, last, already>>

SplitParts ==
  /\ sort_pc = "balance" /\ ~HighlyUnbalanced /\ ~already
  /\ SplitLoop(Head(loops).bad)
  /\ UNCHANGED <<sort_call, a, first, last, already>>

-----------------------------------------------------------------------------
(* divide_sort between its tests and its pushes: first and last are c_first
   and c_last. *)

mid3(i, j, k) ==
  IF a[i] < a[j] THEN IF a[j] < a[k] THEN j ELSE IF a[i] < a[k] THEN k ELSE i
  ELSE IF a[k] < a[j] THEN j ELSE IF a[k] < a[i] THEN k ELSE i

mid9 ==
  LET cupo == size \div 8
  IN mid3(mid3(1, cupo, 2 * cupo), mid3(3 * cupo, 4 * cupo, 5 * cupo),
          mid3(6 * cupo, 7 * cupo, size - 1))

pivot9 ==
  /\ sort_pc = "pivot9"
  /\ a' = Swap(a, 0, mid9)
  /\ sort_pc' = "divide"
  /\ UNCHANGED <<sort_call, loops, first, last, already>>

DivideSearch ==
  /\ sort_pc = "divide"
  /\ first' = Up(1, size, AtLeast(a))
  /\ last' = Down(size - 1, 0, AtMost(a))
  /\ Found(first' < size /\ last' >= 0, "divideswap")
  /\ UNCHANGED <<sort_call, a, loops, already>>

(* The pair that is exchanged guards the next searches. *)
DivideSwap ==
  /\ sort_pc = "divideswap" /\ first <= last
  /\ a' = Swap(a, first, last)
  /\ first' = Up(first + 1, size, AtLeast(a'))
  /\ last' = Down(last - 1, 0, AtMost(a'))
  /\ Found(first' < size /\ last' >= 0, "divideswap")
  /\ UNCHANGED <<sort_call, loops, already>>

DividePlace ==
  /\ sort_pc = "divideswap" /\ first > last
  /\ a' = Swap(a, 0, last)
  /\ sort_pc' = "divided"
  /\ UNCHANGED <<sort_call, loops, first, last, already>>

-----------------------------------------------------------------------------

SInit ==
  /\ sort_call \in SortCalls
  /\ a = [i \in 0..(Len(sort_call.s) - 1) |-> sort_call.s[i + 1]]
  /\ loops = <<[begin |-> 0, end |-> Len(sort_call.s),
                bad |-> ILog2(Len(sort_call.s)), leftmost |-> TRUE]>>
  /\ sort_pc = IF sort_call.kernel = "pdqsort" THEN "loop" ELSE "pivot9"
  /\ first = 0 /\ last = 0 /\ already = FALSE

STerminated == sort_pc \in {"done", "divided"} /\ UNCHANGED sortVars

SNext ==
  \/ InsertionSort \/ UnguardedInsertionSort \/ ChoosePivot
  \/ LeftSearch \/ LeftSwap \/ LeftPlace
  \/ RightSearch \/ RightSwap \/ RightPlace
  \/ HeapSort \/ Shuffle \/ InsertParts \/ SplitParts
  \/ pivot9 \/ DivideSearch \/ DivideSwap \/ DividePlace
  \/ STerminated

SSpec == SInit /\ [][SNext]_sortVars

-----------------------------------------------------------------------------

(* No search and no sift leaves the range it is meant for, whatever the keys:
   the pivot is a median of three, the pair exchanged before or the element
   before the range, which is not greater than any in it, stops it. *)
InBounds == sort_pc # "out"

(* pdqsort leaves the elements it was given, in order, through all its ways:
   few or many equal keys, bad pivots and their shuffles, the heap sort, parts
   that were in order before.  divide_sort leaves them in two parts that are
   not empty, as the tests of the next divide_sort need, with nothing greater
   than the pivot before it and nothing smaller behind it, and one or two
   elements between that equal it: what DividePartition of BlockIndirectSort
   assumes. *)
SortRight ==
  LET n == Len(sort_call.s)
      Count(m, x) == Cardinality({i \in DOMAIN m : m[i] = x})
  IN sort_pc \in {"done", "divided"} =>
       /\ \A i \in DOMAIN sort_call.s :
            Count(a, sort_call.s[i]) = Count(sort_call.s, sort_call.s[i])
       /\ sort_pc = "done" => \A i \in 1..(n - 1) : a[i - 1] <= a[i]
       /\ sort_pc = "divided" =>
            /\ 0 < last /\ first < n /\ first - last \in {1, 2}
            /\ \A i \in 0..(last - 1) : a[i] <= a[last]
            /\ \A i \in last..(first - 1) : a[i] = a[last]
            /\ \A i \in first..(n - 1) : a[i] >= a[last]

=============================================================================

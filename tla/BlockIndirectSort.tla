-------------------------- MODULE BlockIndirectSort --------------------------
(***************************************************************************)
(* block_indirect_sort (include/libs/boost/sort/block_indirect_sort), with *)
(* which single_run and FileInMemColumnStoreBenchmark sort a column store. *)
(*                                                                         *)
(* The threads share a stack of works.  A work may push further works,     *)
(* which count themselves in an atomic counter of the function that pushed *)
(* them, and later wait for that counter to reach zero (backbone::exec).   *)
(* A thread that waits executes whatever work it finds on the stack, on    *)
(* top of the one that waits: so stack[t], the C++ stack of thread t, may  *)
(* hold many unfinished works, and only the first of them runs.            *)
(*                                                                         *)
(* Half of the blocks are sorted by one work, half by another; then the    *)
(* two sequences of sorted blocks are merged without moving any block: the *)
(* order of the blocks goes to index, elements are exchanged between       *)
(* neighbours in index, in parallel.  At the end the blocks are moved to   *)
(* where index says, cycle by cycle, in parallel.                          *)
(*                                                                         *)
(* An element is its key.  An action is what a thread does from one access *)
(* to shared memory to the next; a step on elements or blocks is one such  *)
(* access, and NoRace says why that is enough.  Memory can be allocated.   *)
(***************************************************************************)
EXTENDS Integers, Sequences, FiniteSets, TLC

CONSTANTS
  Inputs,         (* the arrays to sort: sequences of keys                 *)
  NThreads,       (* the numbers of threads the caller may ask for         *)
  Block_size,     (* elements in a block; 2048 for a Tuple of 16 bytes     *)
  Group_size,     (* blocks one work should deal with; 64                  *)
  NTHREAD_BORDER, (* fewer threads only use parallel_sort; 6               *)
  max_per_thread, (* fewer elements are sorted by one thread; 2^16         *)
  NoWork          (* not a counter                                         *)

ASSUME SortAssumption ==
  /\ \A s \in Inputs : s \in Seq(Nat) /\ s # <<>>
  /\ IsFiniteSet(NThreads) /\ NThreads \subseteq Nat \ {0}
  /\ Block_size \in Nat \ {0} /\ Group_size \in Nat \ {0, 1}
  /\ NTHREAD_BORDER \in Nat /\ NTHREAD_BORDER >= 3
  /\ max_per_thread \in Nat /\ max_per_thread >= 3

VARIABLES
  input,    (* history: the array as it was given                          *)
  a,        (* the array, from 0                                           *)
  index,    (* backbone::index                                             *)
  nthread,  (* block_indirect_sort::nthread                                *)
  main_pc,  (* the calling thread: "call", "join" or "done"                *)
  works,    (* backbone::works, the top last                               *)
  counter,  (* the atomic counters of the functions in progress            *)
  stack,    (* per thread, the functions it is in, the innermost last      *)
  buf       (* backbone::buf of each thread                                *)

sortVars == <<input, a, index, nthread, main_pc, works, counter, stack, buf>>
data == <<a, index, buf>>
caller == <<input, nthread, main_pc>>

-----------------------------------------------------------------------------
(* Ranges and blocks. *)

AllThreads == UNION {1..n : n \in NThreads}
nelem == Cardinality(DOMAIN a)
nblock == (nelem + Block_size - 1) \div Block_size
ntail == nelem % Block_size

(* nbits64 *)
NBits(n) == IF n = 0 THEN 0 ELSE CHOOSE k \in 1..n : 2^(k - 1) <= n /\ n < 2^k

(* get_range: a block is what lies between First and Last. *)
First(p) == p * Block_size
Last(p) == IF p = nblock - 1 THEN nelem ELSE (p + 1) * Block_size
Block(p) == First(p)..(Last(p) - 1)

Slice(mem, first, last) == [i \in 1..(last - first) |-> mem[first + i - 1]]
Content(mem, p) == Slice(mem, First(p), Last(p))
Front(mem, p) == mem[First(p)]
Back(mem, p) == mem[Last(p) - 1]

Put(mem, first, s) ==
  [i \in DOMAIN mem |->
     IF i \in first..(first + Len(s) - 1) THEN s[i - first + 1] ELSE mem[i]]

IsSorted(s) == \A i \in 2..Len(s) : s[i - 1] <= s[i]
IsReversed(s) == \A i \in 2..Len(s) : s[i - 1] >= s[i]

(* pdqsort, see PdqSort. *)
Sorted(s) == SortSeq(s, <)
SortRange(first, last) == Put(a, first, Sorted(Slice(a, first, last)))

(* util::merge, by the keys of the elements: of equal ones, those of s first. *)
Itself == [k \in Nat |-> k]

Merge(s, t, key) ==
  LET M[i \in 0..Len(s), j \in 0..Len(t)] ==
        IF i = Len(s) THEN SubSeq(t, j + 1, Len(t))
        ELSE IF j = Len(t) THEN SubSeq(s, i + 1, Len(s))
        ELSE IF key[t[j + 1]] < key[s[i + 1]] THEN <<t[j + 1]>> \o M[i, j + 1]
        ELSE <<s[i + 1]>> \o M[i + 1, j]
  IN M[0, 0]

is_mergeable(mem, p, q) == Front(mem, q) < Back(mem, p)

(* merge_uncontiguous of two blocks, whatever lies between them. *)
MergeBlocks(mem, p, q) ==
  IF ~is_mergeable(mem, p, q) THEN mem
  ELSE LET m == Merge(Content(mem, p), Content(mem, q), Itself)
           n == Last(p) - First(p)
       IN Put(Put(mem, First(p), SubSeq(m, 1, n)),
              First(q), SubSeq(m, n + 1, Len(m)))

-----------------------------------------------------------------------------
(* Works, counters and the threads' stacks. *)

(* Something to execute: pushed on the stack of works, then it decrements the
   counter owner when it has finished; or called, then the caller goes on. *)
Pushed(op, arg, owner) ==
  [op |-> op, arg |-> arg, owner |-> owner, pushed |-> TRUE]
Called(op, arg, owner) ==
  [op |-> op, arg |-> arg, owner |-> owner, pushed |-> FALSE]

(* The functions that have a counter, a local variable: it is named after the
   place of the function on the stack.  The one of the whole sort belongs to
   none of them. *)
Counting == {"split", "sort", "merge", "cut", "blocks", "long"}
Whole == <<0, 0>>

Top(t) == stack[t][Len(stack[t])]
Self(t) == <<t, Len(stack[t])>>
Callee(t) == <<t, Len(stack[t]) + 1>>
Arg(t) == Top(t).arg
At(t, op, at) == stack[t] # <<>> /\ Top(t).op = op /\ Top(t).at = at

(* The counter that a function waits for. *)
CounterOf(t) == IF Top(t).op = "thread" THEN Whole ELSE Self(t)

(* son_counter of a split_range that splits is 1 from the start. *)
Splits(w) == w.op = "split" /\ w.arg[2] - w.arg[1] >= Group_size
NewCounter(name, w) == IF w.op \in Counting THEN {name} ELSE {}

(* at is where the function goes on, i what it has dealt with. *)
Frame(w) ==
  [op |-> w.op, arg |-> w.arg, owner |-> w.owner, pushed |-> w.pushed,
   at |-> "begin", i |-> 0]

GotoWith(t, at, i) ==
  stack' = [stack EXCEPT
    ![t][Len(stack[t])] = [Top(t) EXCEPT !.at = at, !.i = i]]
Goto(t, at) == GotoWith(t, at, Top(t).i)

(* Thread t begins w, and later goes on at its own place. *)
Enter(t, at, w) ==
  /\ stack' = [stack EXCEPT
       ![t] = Append([@ EXCEPT ![Len(stack[t])].at = at], Frame(w))]
  /\ counter' = [c \in DOMAIN counter \cup NewCounter(Callee(t), w) |->
                   IF c \in DOMAIN counter THEN counter[c]
                   ELSE IF Splits(w) THEN 1 ELSE 0]

Call(t, at, w) == Enter(t, at, w) /\ UNCHANGED <<caller, data, works>>

(* The counter is incremented before the work is visible to others (and one
   that forgets to). *)
Uncounted(n) == n

Counted(n) == n + 1

Push(w) ==
  /\ works' = Append(works, w)
  /\ counter' = [counter EXCEPT ![w.owner] = Counted(@)]

(* A function returns; a pushed one decrements its counter. *)
Return(t) ==
  /\ stack[t] # <<>> /\ Top(t).at = "end"
  /\ stack' = [stack EXCEPT ![t] = SubSeq(@, 1, Len(@) - 1)]
  /\ counter' = [c \in DOMAIN counter \ {Self(t)} |->
                   IF Top(t).pushed /\ c = Top(t).owner
                   THEN counter[c] - 1 ELSE counter[c]]
  /\ UNCHANGED <<caller, data, works>>

(* backbone::exec: the test of the counter ... (and one that is content when
   there is no work left to take) *)
NoneLeft(c) == works = <<>>

Finished(c) == counter[c] = 0

(* ... where a function goes on when it holds ... *)
AfterExec(op) ==
  CASE op = "split" -> "merge" [] op = "long" -> "again" [] OTHER -> "end"

Test(t) ==
  /\ stack[t] # <<>> /\ Top(t).at = "exec"
  /\ Goto(t, IF Finished(CounterOf(t)) THEN AfterExec(Top(t).op) ELSE "pop")
  /\ UNCHANGED <<caller, data, works, counter>>

(* ... pop_move_back, and the execution of what it found; or yield. *)
Pop(t) ==
  /\ stack[t] # <<>> /\ Top(t).at = "pop" /\ works # <<>>
  /\ Enter(t, "exec", works[Len(works)])
  /\ works' = SubSeq(works, 1, Len(works) - 1)
  /\ UNCHANGED <<caller, data>>

Yield(t) ==
  /\ stack[t] # <<>> /\ Top(t).at = "pop" /\ works = <<>>
  /\ Goto(t, "exec")
  /\ UNCHANGED <<caller, data, works, counter>>

-----------------------------------------------------------------------------
(* The caller: the constructor of block_indirect_sort. *)

Least(m, n) == IF m < n THEN m ELSE n
IsOrdered(s) == IsSorted(s) \/ IsReversed(s)

ThreadCount == Least(nthread, nelem \div (Block_size * Group_size) + 1)
Alone == IsOrdered(Slice(a, 0, nelem)) \/ nelem < max_per_thread \/ ThreadCount < 2

SortAlone ==
  /\ main_pc = "call" /\ Alone
  /\ a' = SortRange(0, nelem)
  /\ main_pc' = "done"
  /\ UNCHANGED <<input, index, nthread, works, counter, stack, buf>>

Launch ==
  /\ main_pc = "call" /\ ~Alone
  /\ nthread' = ThreadCount
  /\ counter' = [c \in {Whole} |-> 1]
  /\ works' = <<Pushed("start", <<>>, Whole)>>
  /\ stack' = [t \in AllThreads |->
                 IF t \in 1..ThreadCount
                 THEN <<[Frame(Called("thread", <<>>, NoWork)) EXCEPT !.at = "exec"]>>
                 ELSE <<>>]
  /\ main_pc' = "join"
  /\ UNCHANGED <<input, data>>

(* Every vfuture[i].get(). *)
GetFutures ==
  /\ main_pc = "join" /\ \A t \in AllThreads : stack[t] = <<>>
  /\ main_pc' = "done"
  /\ UNCHANGED <<input, nthread, data, works, counter, stack>>

(* start_function *)
StartSort(t) ==
  /\ At(t, "start", "begin") /\ nthread < NTHREAD_BORDER
  /\ Call(t, "end", Called("sort", <<0, nelem>>, NoWork))

StartSplit(t) ==
  /\ At(t, "start", "begin") /\ nthread >= NTHREAD_BORDER
  /\ Call(t, "move", Called("split", <<0, nblock, NBits(nthread - 1) - 2>>, NoWork))

StartMove(t) ==
  /\ At(t, "start", "move")
  /\ Call(t, "end", Called("blocks", <<>>, NoWork))

-----------------------------------------------------------------------------
(* split_range <<pos_index1, pos_index2, level_thread>>.  ThreadCount and
   start_function see to it that it never has fewer than Group_size blocks,
   which it would sort at once: it has no step for them here. *)

Mid(p, q) == p + (q - p) \div 2

(* What the second and the first half are for. *)
Half(w, p, q) ==
  IF w.arg[3] # 0 THEN [op |-> "split", arg |-> <<p, q, w.arg[3] - 1>>]
  ELSE [op |-> "sort", arg |-> <<First(p), Last(q - 1)>>]

PushedHalf(t, p, q) ==
  Pushed(Half(Top(t), p, q).op, Half(Top(t), p, q).arg, Self(t))
CalledHalf(t, p, q) ==
  Called(Half(Top(t), p, q).op, Half(Top(t), p, q).arg, NoWork)

(* (And one that increments a counter that starts with 1.) *)
SplitPushCounted(t) ==
  /\ At(t, "split", "begin") /\ Splits(Top(t))
  /\ LET p == Arg(t)[1] q == Arg(t)[2] IN
     Push(PushedHalf(t, Mid(p, q), q))
  /\ Goto(t, "first")
  /\ UNCHANGED <<caller, data>>

SplitPush(t) ==
  /\ At(t, "split", "begin") /\ Splits(Top(t))
  /\ LET p == Arg(t)[1] q == Arg(t)[2] IN
     works' = Append(works, PushedHalf(t, Mid(p, q), q))
  /\ Goto(t, "first")
  /\ UNCHANGED <<caller, data, counter>>

SplitFirst(t) ==
  /\ At(t, "split", "first")
  /\ LET p == Arg(t)[1] q == Arg(t)[2] IN
     Call(t, "exec", CalledHalf(t, p, Mid(p, q)))

SplitMerge(t) ==
  /\ At(t, "split", "merge")
  /\ LET p == Arg(t)[1] q == Arg(t)[2] IN
     Call(t, "end", Called("merge", <<p, Mid(p, q), q>>, NoWork))

-----------------------------------------------------------------------------
(* parallel_sort <<first, last>> and its divide_sort <<first, last, level>> *)

PartOfArray(t) == Slice(a, Arg(t)[1], Arg(t)[2])
IsSmall(t) == Arg(t)[2] - Arg(t)[1] < max_per_thread
level(n) == (NBits(n \div max_per_thread) * 3) \div 2

SortSmall(t) ==
  /\ At(t, "sort", "begin") /\ (IsOrdered(PartOfArray(t)) \/ IsSmall(t))
  /\ a' = SortRange(Arg(t)[1], Arg(t)[2])
  /\ Goto(t, "end")
  /\ UNCHANGED <<caller, index, buf, works, counter>>

SortDivide(t) ==
  /\ At(t, "sort", "begin") /\ ~IsOrdered(PartOfArray(t)) /\ ~IsSmall(t)
  /\ LET first == Arg(t)[1] last == Arg(t)[2] IN
     Call(t, "exec",
          Called("divide", <<first, last, level(last - first)>>, Self(t)))

DivideSort(t) ==
  /\ At(t, "divide", "begin")
  /\ IsSorted(PartOfArray(t)) \/ Arg(t)[3] = 0 \/ IsSmall(t)
  /\ a' = SortRange(Arg(t)[1], Arg(t)[2])
  /\ Goto(t, "end")
  /\ UNCHANGED <<caller, index, buf, works, counter>>

(* s with the smallest k elements first, then the equal ones of ranks k+1 to
   m, then the others; each part in the order it had. *)
Partition(s, k, m) ==
  LET Rank(i) == Cardinality({j \in DOMAIN s :
                    s[j] < s[i] \/ (s[j] = s[i] /\ j <= i)})
      ranked == [i \in DOMAIN s |-> <<Rank(i), s[i]>>]
      Part(Keeps(_)) ==
        LET kept == SelectSeq(ranked, LAMBDA e : Keeps(e[1]))
        IN [i \in DOMAIN kept |-> kept[i][2]]
  IN Part(LAMBDA r : r <= k) \o Part(LAMBDA r : r \in (k + 1)..m)
       \o Part(LAMBDA r : r > m)

(* The pivot ends between two parts that are not empty, alone or with one
   equal to it: see PdqSort. *)
DividePartition(t) ==
  /\ At(t, "divide", "begin")
  /\ ~IsSorted(PartOfArray(t)) /\ Arg(t)[3] # 0 /\ ~IsSmall(t)
  /\ LET first == Arg(t)[1] last == Arg(t)[2] n == last - first IN
     \E k \in 1..(n - 2), m \in 2..(n - 1) :
       /\ m - k \in {1, 2} /\ Sorted(PartOfArray(t))[k + 1] = Sorted(PartOfArray(t))[m]
       /\ a' = Put(a, first, Partition(PartOfArray(t), k, m))
       /\ Push(Pushed("divide", <<first + m, last, Arg(t)[3] - 1>>, Top(t).owner))
       /\ GotoWith(t, "left", k)
  /\ UNCHANGED <<caller, index, buf>>

DivideLeft(t) ==
  /\ At(t, "divide", "left")
  /\ LET first == Arg(t)[1] IN
     Push(Pushed("divide", <<first, first + Top(t).i, Arg(t)[3] - 1>>, Top(t).owner))
  /\ Goto(t, "end")
  /\ UNCHANGED <<caller, data>>

-----------------------------------------------------------------------------
(* merge_blocks <<pos_index1, pos_index2, pos_index3>>, of two sequences of
   blocks that are not empty. *)

Pos(p) == index[p].pos
Side(p) == index[p].side

IsTail(p) == ntail # 0 /\ p = nblock - 1

(* tail_process: the last block of the first sequence, and the tail, which
   leaves the second sequence; what becomes of the array, of how many blocks
   the first sequence gives up to the second (and one that keeps it). *)
TailProcessKeeping(t) ==
  [mem |-> MergeBlocks(a, Pos(Arg(t)[2] - 1), Pos(Arg(t)[3] - 1)), moved |-> 0]

TailProcess(t) ==
  LET back1 == Pos(Arg(t)[2] - 1)
      tail == Pos(Arg(t)[3] - 1)
      mem == MergeBlocks(a, back1, tail)
  IN [mem |-> mem,
      moved |-> IF /\ is_mergeable(a, back1, tail)
                   /\ Arg(t)[2] - Arg(t)[1] > 1
                   /\ is_mergeable(mem, Pos(Arg(t)[2] - 2), back1)
                THEN 1 ELSE 0]

(* The second sequence without its last block ... *)
Sides(t, mem, moved, last) ==
  LET p1 == Arg(t)[1] p2 == Arg(t)[2]
      Blocks(first, end, side) ==
        [i \in 1..(end - first) |-> [pos |-> Pos(first + i - 1), side |-> side]]
      vpos1 == Blocks(p1, p2 - moved, TRUE)
      vpos2 == Blocks(p2, last, FALSE) \o Blocks(p2 - moved, p2, FALSE)
      order == Merge(vpos1, vpos2, [v \in [pos : DOMAIN index, side : BOOLEAN] |->
                                      Front(mem, v.pos)])
  IN Put(index, p1, order)

MergeIndex(t) ==
  /\ At(t, "merge", "begin")
  /\ IF IsTail(Pos(Arg(t)[3] - 1))
     THEN LET r == TailProcess(t) IN
          /\ a' = r.mem
          /\ index' = Sides(t, r.mem, r.moved, Arg(t)[3] - 1)
     ELSE /\ index' = Sides(t, a, 0, Arg(t)[3])
          /\ a' = a
  /\ Goto(t, "extract")
  /\ UNCHANGED <<caller, buf, works, counter>>

(* extract_ranges: where its range ends, as the tail, if there was one, has
   stayed in its place ... *)
RangeEnd(t) == IF IsTail(Pos(Arg(t)[3] - 1)) THEN Arg(t)[3] - 1 ELSE Arg(t)[3]

(* ... and where the blocks from position first on end to overlap: a block
   only does with the greatest before it, if that is of the other side. *)
MaxBlock(first, x) ==
  CHOOSE m \in first..x :
    /\ \A y \in first..x : Back(a, Pos(y)) <= Back(a, Pos(m))
    /\ \A y \in first..(m - 1) : Back(a, Pos(y)) < Back(a, Pos(m))

Overlapped(first, last) ==
  LET Mergeable(x) ==
        LET max == MaxBlock(first, x - 1)
        IN Side(max) # Side(x) /\ is_mergeable(a, Pos(max), Pos(x))
  IN CHOOSE e \in (first + 1)..last :
       /\ e = last \/ ~Mergeable(e)
       /\ \A x \in (first + 1)..(e - 1) : Mergeable(x)

Extract(t) ==
  /\ At(t, "merge", "extract")
  /\ LET first == Arg(t)[1] + Top(t).i
         last == RangeEnd(t)
         end == Overlapped(first, last)
         op == IF end - first > Group_size THEN "cut" ELSE "range"
     IN /\ IF end - first > 1
           THEN Push(Pushed(op, <<first, end>>, Self(t)))
           ELSE UNCHANGED <<works, counter>>
        /\ GotoWith(t, IF end = last THEN "exec" ELSE "extract", end - Arg(t)[1])
  /\ UNCHANGED <<caller, data>>

(* cut_range <<first, last>>, of more than Group_size positions: a part ends
   where the side changes, and the blocks on both sides of its end are
   merged. *)
NPart(n) == (n + Group_size - 1) \div Group_size
SizePart(n) == n \div NPart(n)

PartEnd(first, last, size_part) ==
  CHOOSE e \in (first + 1)..last :
    /\ e = last \/ (e >= first + size_part /\ Side(e - 1) # Side(e))
    /\ \A x \in (first + size_part)..(e - 1) : Side(x - 1) = Side(x)

Cut(t) ==
  /\ At(t, "cut", "begin")
  /\ LET first == Arg(t)[1] + Top(t).i
         last == Arg(t)[2]
         end == PartEnd(first, last, SizePart(last - Arg(t)[1]))
     IN /\ a' = IF end < last THEN MergeBlocks(a, Pos(end - 1), Pos(end)) ELSE a
        /\ IF end - first > 1
           THEN Push(Pushed("range", <<first, end>>, Self(t)))
           ELSE UNCHANGED <<works, counter>>
        /\ GotoWith(t, IF end = last THEN "exec" ELSE "begin", end - Arg(t)[1])
  /\ UNCHANGED <<caller, index, buf>>

-----------------------------------------------------------------------------
(* merge_range_pos <<first, last>>: the buffer holds what does not yet have a
   block. *)

RangePos(t, i) == Pos(Arg(t)[1] + i)

RangeLoad(t) ==
  /\ At(t, "range", "begin")
  /\ buf' = [buf EXCEPT ![t] = Content(a, RangePos(t, 0))]
  /\ GotoWith(t, "flow", 1)
  /\ UNCHANGED <<caller, a, index, works, counter>>

(* merge_flow *)
RangeFlow(t) ==
  /\ At(t, "range", "flow") /\ Arg(t)[1] + Top(t).i # Arg(t)[2]
  /\ LET m == Merge(buf[t], Content(a, RangePos(t, Top(t).i)), Itself) IN
     /\ a' = Put(a, First(RangePos(t, Top(t).i - 1)), SubSeq(m, 1, Block_size))
     /\ buf' = [buf EXCEPT ![t] = SubSeq(m, Block_size + 1, Len(m))]
  /\ GotoWith(t, "flow", Top(t).i + 1)
  /\ UNCHANGED <<caller, index, works, counter>>

RangeStore(t) ==
  /\ At(t, "range", "flow") /\ Arg(t)[1] + Top(t).i = Arg(t)[2]
  /\ a' = Put(a, First(RangePos(t, Top(t).i - 1)), buf[t])
  /\ Goto(t, "end")
  /\ UNCHANGED <<caller, index, buf, works, counter>>

-----------------------------------------------------------------------------
(* move_blocks: the cycles of index, each from its least position; position
   p of a cycle takes the block at the next one. *)

Cycle(p) ==
  LET C[n \in 1..nblock] == IF n = 1 THEN p ELSE Pos(C[n - 1])
      len == CHOOSE n \in 1..nblock :
               Pos(C[n]) = p /\ \A m \in 1..(n - 1) : Pos(C[m]) # p
  IN [n \in 1..len |-> C[n]]

Misplaced(t) == {p \in Top(t).i..(nblock - 1) : Pos(p) # p}

MoveCycle(t) ==
  /\ At(t, "blocks", "begin") /\ Misplaced(t) # {}
  /\ LET p == CHOOSE q \in Misplaced(t) : \A r \in Misplaced(t) : q <= r
         sequence == Cycle(p)
         op == IF Len(sequence) < Group_size THEN "move" ELSE "long"
     IN /\ index' = [q \in DOMAIN index |->
                      IF \E n \in DOMAIN sequence : sequence[n] = q
                      THEN [index[q] EXCEPT !.pos = q] ELSE index[q]]
        /\ Push(Pushed(op, sequence, Self(t)))
        /\ GotoWith(t, "begin", p)
  /\ UNCHANGED <<caller, a, buf>>

MoveWait(t) ==
  /\ At(t, "blocks", "begin") /\ Misplaced(t) = {}
  /\ Goto(t, "exec")
  /\ UNCHANGED <<caller, data, works, counter>>

(* move_sequence: the first block to the buffer, each next one to the place
   of the one before, the buffer to the last place. *)
MoveLoad(t) ==
  /\ At(t, "move", "begin")
  /\ buf' = [buf EXCEPT ![t] = Content(a, Arg(t)[1])]
  /\ GotoWith(t, "shift", 1)
  /\ UNCHANGED <<caller, a, index, works, counter>>

MoveShift(t) ==
  /\ At(t, "move", "shift") /\ Top(t).i < Len(Arg(t))
  /\ a' = Put(a, First(Arg(t)[Top(t).i]), Content(a, Arg(t)[Top(t).i + 1]))
  /\ GotoWith(t, "shift", Top(t).i + 1)
  /\ UNCHANGED <<caller, index, buf, works, counter>>

MoveStore(t) ==
  /\ At(t, "move", "shift") /\ Top(t).i = Len(Arg(t))
  /\ a' = Put(a, First(Arg(t)[Top(t).i]), buf[t])
  /\ Goto(t, "end")
  /\ UNCHANGED <<caller, index, buf, works, counter>>

(* move_long_sequence: its parts, each as a sequence of its own, whose last
   position then holds the block that the last position of the part before
   is to have. *)
PartOf(s, i) ==
  SubSeq(s, i * SizePart(Len(s)) + 1,
         IF i = NPart(Len(s)) - 1 THEN Len(s) ELSE (i + 1) * SizePart(Len(s)))

LongShort(t) ==
  /\ At(t, "long", "begin") /\ Len(Arg(t)) < Group_size
  /\ Call(t, "end", Called("move", Arg(t), NoWork))

LongPart(t) ==
  /\ At(t, "long", "begin") /\ ~(Len(Arg(t)) < Group_size)
  /\ Push(Pushed("move", PartOf(Arg(t), Top(t).i), Self(t)))
  /\ GotoWith(t, IF Top(t).i = NPart(Len(Arg(t))) - 1 THEN "exec" ELSE "begin",
              Top(t).i + 1)
  /\ UNCHANGED <<caller, data>>

LongAgain(t) ==
  /\ At(t, "long", "again")
  /\ LET index_seq == [i \in 1..NPart(Len(Arg(t))) |->
                        LET part == PartOf(Arg(t), i - 1) IN part[Len(part)]]
     IN Call(t, "end", Called("long", index_seq, NoWork))

-----------------------------------------------------------------------------
(* The sort. *)

Step(t) ==
  \/ Return(t) \/ Test(t) \/ Pop(t) \/ Yield(t)
  \/ StartSort(t) \/ StartSplit(t) \/ StartMove(t)
  \/ SplitPush(t) \/ SplitFirst(t) \/ SplitMerge(t)
  \/ SortSmall(t) \/ SortDivide(t)
  \/ DivideSort(t) \/ DividePartition(t) \/ DivideLeft(t)
  \/ MergeIndex(t) \/ Extract(t) \/ Cut(t)
  \/ RangeLoad(t) \/ RangeFlow(t) \/ RangeStore(t)
  \/ MoveCycle(t) \/ MoveWait(t)
  \/ MoveLoad(t) \/ MoveShift(t) \/ MoveStore(t)
  \/ LongShort(t) \/ LongPart(t) \/ LongAgain(t)

BTerminated == main_pc = "done" /\ UNCHANGED sortVars

BInit ==
  /\ input \in Inputs
  /\ nthread \in NThreads
  /\ a = [i \in 0..(Len(input) - 1) |-> input[i + 1]]
  /\ index = [p \in 0..(nblock - 1) |-> [pos |-> p, side |-> FALSE]]
  /\ main_pc = "call"
  /\ works = <<>>
  /\ counter = <<>>
  /\ stack = [t \in AllThreads |-> <<>>]
  /\ buf = [t \in AllThreads |-> <<>>]

BNext ==
  \/ SortAlone \/ Launch \/ GetFutures
  \/ BTerminated
  \/ \E t \in AllThreads : Step(t)

(* The operating system runs every thread: this is WF_sortVars(Step(t)), as a
   thread has a step exactly as long as its stack is not empty, and it changes
   that stack, as no other thread's does. *)
ThreadFairness(t) == []<>(stack[t] = <<>>) \/ []<><<TRUE>>_(stack[t])

Caller == SortAlone \/ Launch \/ GetFutures

BFairness == WF_sortVars(Caller) /\ \A t \in AllThreads : ThreadFairness(t)

BSpec == BInit /\ [][BNext]_sortVars /\ BFairness

-----------------------------------------------------------------------------
(* What the pending step of a thread reads and writes. *)

Cells(S) == {<<"a", i>> : i \in S}
Entries(first, last) == {<<"index", p>> : p \in first..(last - 1)}
Ends(p) == Cells({First(p), Last(p) - 1})

(* The blocks of the merge that t is at: those that cut_range or tail_process
   exchange elements between. *)
CutAt(t) == PartEnd(Arg(t)[1] + Top(t).i, Arg(t)[2], SizePart(Arg(t)[2] - Arg(t)[1]))

Writes(t) ==
  CASE At(t, "sort", "begin") \/ At(t, "divide", "begin") ->
         Cells(Arg(t)[1]..(Arg(t)[2] - 1))
    [] At(t, "merge", "begin") ->
         Entries(Arg(t)[1], Arg(t)[3])
           \cup (IF IsTail(Pos(Arg(t)[3] - 1))
                 THEN Cells(Block(Pos(Arg(t)[2] - 1)) \cup Block(Pos(Arg(t)[3] - 1)))
                 ELSE {})
    [] At(t, "cut", "begin") ->
         IF CutAt(t) < Arg(t)[2]
         THEN Cells(Block(Pos(CutAt(t) - 1)) \cup Block(Pos(CutAt(t)))) ELSE {}
    [] At(t, "range", "flow") -> Cells(Block(RangePos(t, Top(t).i - 1)))
    [] At(t, "blocks", "begin") -> Entries(0, nblock)
    [] At(t, "move", "shift") -> Cells(Block(Arg(t)[Top(t).i]))
    [] OTHER -> {}

Reads(t) ==
  CASE At(t, "merge", "begin") ->
         UNION {Ends(Pos(p)) : p \in Arg(t)[1]..(Arg(t)[3] - 1)}
    [] At(t, "merge", "extract") ->
         LET first == Arg(t)[1] + Top(t).i
             last == Least(Overlapped(first, RangeEnd(t)) + 1, RangeEnd(t))
         IN Entries(first, last) \cup UNION {Ends(Pos(p)) : p \in first..(last - 1)}
    [] At(t, "cut", "begin") ->
         Entries(Arg(t)[1] + Top(t).i, Least(CutAt(t) + 1, Arg(t)[2]))
    [] At(t, "range", "begin") ->
         Entries(Arg(t)[1], Arg(t)[1] + 1) \cup Cells(Block(RangePos(t, 0)))
    [] At(t, "range", "flow") /\ Arg(t)[1] + Top(t).i # Arg(t)[2] ->
         Entries(Arg(t)[1] + Top(t).i, Arg(t)[1] + Top(t).i + 1)
           \cup Cells(Block(RangePos(t, Top(t).i)))
    [] At(t, "move", "begin") -> Cells(Block(Arg(t)[1]))
    [] At(t, "move", "shift") /\ Top(t).i < Len(Arg(t)) ->
         Cells(Block(Arg(t)[Top(t).i + 1]))
    [] OTHER -> {}

(* No thread is about to write an element, or an entry of index, that another
   is about to read or write: whatever the threads do to the array at the same
   time, no lock is needed.  It is what makes it enough to let them take turns
   in this module; it relies on the order in which split_range, merge_blocks
   and move_blocks push works and wait for them. *)
NoRace ==
  \A t, u \in AllThreads :
    t # u => Writes(t) \cap (Reads(u) \cup Writes(u)) = {}

(* The works and the unfinished calls that are to decrement counter c. *)
Charged(c) ==
  Cardinality({n \in DOMAIN works : works[n].owner = c})
    + Cardinality({tn \in UNION {{t} \X DOMAIN stack[t] : t \in AllThreads} :
                     LET f == stack[tn[1]][tn[2]] IN
                     \/ f.pushed /\ f.owner = c
                     \/ Splits(f) /\ f.at = "begin" /\ tn = c})

(* A counter is a local variable that works refer to: it exists as long as a
   work will decrement it or an unfinished call will push one that does, and it
   is the number of works that exec has to wait for, neither too low, so that
   exec returns early, nor too high, so that it never does. *)
CountersExact ==
  /\ \A c \in DOMAIN counter : counter[c] = Charged(c)
  /\ \A n \in DOMAIN works : works[n].owner \in DOMAIN counter
  /\ \A t \in AllThreads : \A n \in DOMAIN stack[t] :
       stack[t][n].owner # NoWork => stack[t][n].owner \in DOMAIN counter

(* When the constructor returns the array is sorted and has the elements it
   had: no block is lost, doubled or left where index had put it. *)
ResultSorted ==
  main_pc = "done" => Slice(a, 0, nelem) = Sorted(input)

(* The constructor returns: a thread that waits executes the works of others
   and so, perhaps, one that waits itself, but no two of them wait for each
   other. *)
Terminates == <>(main_pc = "done")

=============================================================================

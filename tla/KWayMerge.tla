----------------------------- MODULE KWayMerge -----------------------------
(***************************************************************************)
(* The second half of MergeBenchmark::run: the sorted runs are merged into *)
(* the output file.  Each run has a window, its part of merge_buffer: the  *)
(* first window is there already, the following ones are read over it from *)
(* the run's temporary file (HybridReadReader).  A priority queue holds    *)
(* pointers to the runs' ChunkInfo records, ordered by the tuple each of   *)
(* them points to.                                                         *)
(*                                                                         *)
(* Sizes are in tuples; a tuple of run r is its place in the run.  What    *)
(* next() delivers is what module ReadReader shows it to deliver when no   *)
(* pread fails, and what is handed to the BufferringWriter is the output.  *)
(***************************************************************************)
EXTENDS Naturals, Sequences

CONSTANTS
  NChunks,       (* n_chunks                                               *)
  ChunkTuples,   (* the tuples of a run                                    *)
  BufferTuples,  (* MERGE_BUFFER_SIZE                                      *)
  Keys,          (* the keys that occur, numbers in memcmp's order         *)
  NullPtr        (* a null pointer                                         *)

ASSUME MergeAssumption ==
  /\ NChunks \in Nat \ {0} /\ ChunkTuples \in Nat \ {0}
  /\ BufferTuples \in 1..ChunkTuples
  /\ Keys \subseteq Nat
  /\ NullPtr \notin Nat

VARIABLES
  runs,      (* the keys of each run                                       *)
  pc,        (* "init", "pop", "write", "advance" or "done"                *)
  idx,       (* how many runs the first loop has initialised               *)
  memory,    (* merge_buffer: which tuple of its run is at each place      *)
  first_run, (* HybridReadReader::first_run of each reader                 *)
  from,      (* FileReader::from of each reader                            *)
  buffer,    (* ChunkInfo::buffer of each run, as an index of its window   *)
  size,      (* ChunkInfo::size of each run                                *)
  tuple_pqueue, (* the runs in the priority queue                          *)
  min_tuple, (* the run popped last                                        *)
  output     (* the tuples handed to the writer: <<run, place>>            *)

vars == <<runs, pc, idx, memory, first_run, from, buffer, size, tuple_pqueue,
          min_tuple, output>>

-----------------------------------------------------------------------------

Chunks == 0..(NChunks - 1)
Rows   == 0..(ChunkTuples - 1)
Window == 0..(BufferTuples - 1)

(* The sorted runs that single_run leaves: module RunFormation, RunsSorted. *)
SortedRuns ==
  {f \in [Rows -> Keys] : \A i, j \in Rows : i < j => f[i] <= f[j]}

(* The tuple a ChunkInfo points to, and its key. *)
Front(r) == memory[r][buffer[r]]

FrontKey(r) == runs[r][Front(r)]

(* What is left of the temporary file, and what the next window gets of it (and
   a window that is always full). *)
Left(r) == ChunkTuples - BufferTuples - from[r]

FullWindow(r) == BufferTuples

Amount(r) == IF Left(r) < BufferTuples THEN Left(r) ELSE BufferTuples

(* from after a call. *)
NextFrom(r) == from[r] + Amount(r)

(* HybridReadReader::next, the first time and later; ReadReader::next returns
   a null pointer, and 0 in *size, at the end of the file. *)
FirstWindow(r) ==
  /\ first_run' = [first_run EXCEPT ![r] = FALSE]
  /\ buffer' = [buffer EXCEPT ![r] = 0]
  /\ size' = [size EXCEPT ![r] = BufferTuples]
  /\ UNCHANGED <<memory, from>>

NextWindow(r) ==
  /\ memory' = [memory EXCEPT ![r] =
                  [k \in Window |-> IF k < Amount(r) THEN BufferTuples + from[r] + k
                                    ELSE memory[r][k]]]
  /\ from' = [from EXCEPT ![r] = NextFrom(r)]
  /\ size' = [size EXCEPT ![r] = Amount(r)]
  /\ buffer' = [buffer EXCEPT ![r] = IF Amount(r) = 0 THEN NullPtr ELSE 0]
  /\ UNCHANGED first_run

CallNext(r) == IF first_run[r] THEN FirstWindow(r) ELSE NextWindow(r)

-----------------------------------------------------------------------------

(* The loop that gets the first windows. *)
InitChunk ==
  /\ pc = "init"
  /\ CallNext(idx)
  /\ tuple_pqueue' = tuple_pqueue \cup {idx}
  /\ idx' = idx + 1
  /\ pc' = IF idx + 1 = NChunks THEN "pop" ELSE "init"
  /\ UNCHANGED <<runs, min_tuple, output>>

(* top(): an element to which Compare puts no other before. *)
Least(r) == \A q \in tuple_pqueue : FrontKey(r) <= FrontKey(q)

(* pop() (and a top() without it). *)
NotPopped(r) == tuple_pqueue

Popped(r) == tuple_pqueue \ {r}

Pop(r) ==
  /\ pc = "pop"
  /\ r \in tuple_pqueue /\ Least(r)
  /\ min_tuple' = r
  /\ tuple_pqueue' = Popped(r)
  /\ pc' = "write"
  /\ UNCHANGED <<runs, idx, memory, first_run, from, buffer, size, output>>

WriteTuple ==
  /\ pc = "write"
  /\ output' = Append(output, <<min_tuple, Front(min_tuple)>>)
  /\ size' = [size EXCEPT ![min_tuple] = @ - 1]
  /\ pc' = "advance"
  /\ UNCHANGED <<runs, idx, memory, first_run, from, buffer, tuple_pqueue,
                 min_tuple>>

(* push() (and one that is forgotten). *)
NotPushed == tuple_pqueue

Pushed == tuple_pqueue \cup {min_tuple}

(* The window has more tuples ... *)
StepOn ==
  /\ pc = "advance" /\ size[min_tuple] # 0
  /\ buffer' = [buffer EXCEPT ![min_tuple] = @ + 1]
  /\ tuple_pqueue' = Pushed
  /\ pc' = "pop"
  /\ UNCHANGED <<runs, idx, memory, first_run, from, size, min_tuple, output>>

(* ... or it is empty, and the run goes back into the queue unless it has come
   to its end. *)
Refill ==
  /\ pc = "advance" /\ size[min_tuple] = 0
  /\ CallNext(min_tuple)
  /\ tuple_pqueue' =
       IF buffer'[min_tuple] = NullPtr THEN tuple_pqueue ELSE Pushed
  /\ pc' = "pop"
  /\ UNCHANGED <<runs, idx, min_tuple, output>>

Finish ==
  /\ pc = "pop" /\ tuple_pqueue = {}
  /\ pc' = "done"
  /\ UNCHANGED <<runs, idx, memory, first_run, from, buffer, size,
                 tuple_pqueue, min_tuple, output>>

Terminated == pc = "done" /\ UNCHANGED vars

Init ==
  /\ runs \in [Chunks -> SortedRuns]
  /\ pc = "init" /\ idx = 0
  /\ memory = [r \in Chunks |-> [k \in Window |-> k]]
  /\ first_run = [r \in Chunks |-> TRUE]
  /\ from = [r \in Chunks |-> 0]
  /\ buffer = [r \in Chunks |-> NullPtr]
  /\ size = [r \in Chunks |-> 0]
  /\ tuple_pqueue = {}
  /\ min_tuple = 0
  /\ output = <<>>

Merge ==
  \/ InitChunk \/ WriteTuple \/ StepOn \/ Refill \/ Finish
  \/ \E r \in Chunks : Pop(r)

Next == Merge \/ Terminated

Spec == Init /\ [][Next]_vars

(* The thread that merges keeps running. *)
FairSpec == Spec /\ WF_vars(Merge)

-----------------------------------------------------------------------------
(* Properties. *)

Tuples == Chunks \X Rows

(* Every variable has its type: no window is ever left. *)
TypeOK ==
  /\ runs \in [Chunks -> SortedRuns]
  /\ pc \in {"init", "pop", "write", "advance", "done"}
  /\ idx \in 0..NChunks
  /\ memory \in [Chunks -> [Window -> Rows]]
  /\ first_run \in [Chunks -> BOOLEAN]
  /\ from \in [Chunks -> 0..(ChunkTuples - BufferTuples)]
  /\ buffer \in [Chunks -> Window \cup {NullPtr}]
  /\ size \in [Chunks -> 0..BufferTuples]
  /\ tuple_pqueue \subseteq Chunks
  /\ min_tuple \in Chunks
  /\ output \in Seq(Tuples)

KeyOf(t) == runs[t[1]][t[2]]

(* The output is sorted, whichever of several equal tuples is taken and
   wherever the windows end. *)
OutputSorted ==
  \A i, j \in 1..Len(output) : i < j => KeyOf(output[i]) <= KeyOf(output[j])

(* No tuple is written twice, although windows are read over tuples that were
   there before. *)
NoDuplicates ==
  \A i, j \in 1..Len(output) : i # j => output[i] # output[j]

(* The priority queue compares what its elements point to: neither the pointer
   of a run nor the memory it points to may change while the run is in the
   queue, or the heap is no heap any more. *)
QueuedKeysStable ==
  [][\A r \in tuple_pqueue \cap tuple_pqueue' :
       <<buffer[r], Front(r)>>' = <<buffer[r], Front(r)>>]_vars

(* The merge is a sort: it emits a least tuple of those that remain, every one
   of them, and comes to its end. *)
Sort == INSTANCE SortedStream
  WITH key <- [t \in Tuples |-> KeyOf(t)],
       remaining <- Tuples \ {output[i] : i \in 1..Len(output)},
       emitted <- output, complete <- pc = "done"

ImplementsSort == Sort!MSpec

=============================================================================

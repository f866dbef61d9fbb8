---------------------------- MODULE RunFormation ----------------------------
(***************************************************************************)
(* The first half of MergeBenchmark::run: single_run turns one chunk of    *)
(* the input file after the other into a sorted run, whose first tuples    *)
(* stay in merge_buffer and whose residue goes to a temporary file.        *)
(*                                                                         *)
(* Main hands the work to a ThreadPool and waits for it between the        *)
(* phases; the pool is module TaskExecutor, which ThreadPool implements.   *)
(* The tasks are ColumnStoreTask, ReadSortedRAMTask and                    *)
(* PrepMergeBufferTask, one step per tuple, in any interleaving.           *)
(*                                                                         *)
(* Sizes are in tuples.  A tuple is its position in the input file and has *)
(* a key.  A task's reader and writer deliver what modules ReadReader and  *)
(* BufferringWriter say they deliver when no call to the system fails.     *)
(***************************************************************************)
EXTENDS Naturals, Sequences, FiniteSets

CONSTANTS
  NChunks,       (* n_chunks                                               *)
  ChunkTuples,   (* file_size / n_chunks                                   *)
  BufferTuples,  (* MERGE_BUFFER_SIZE                                      *)
  NThreads,      (* n_threads, the segments and the threads of the pool    *)
  IOThreads,     (* IO_THREADS                                             *)
  MemThreads,    (* MEM_THREADS                                            *)
  Keys,          (* the keys that occur, numbers in memcmp's order         *)
  None           (* memory or disk that holds no tuple yet                 *)

(* The shipped configurations divide the data sets of the contest evenly. *)
ASSUME RunAssumption ==
  /\ {NChunks, ChunkTuples, NThreads, IOThreads, MemThreads} \subseteq Nat \ {0}
  /\ BufferTuples \in 1..ChunkTuples
  /\ ChunkTuples % NThreads = 0
  /\ BufferTuples % MemThreads = 0
  /\ (ChunkTuples - BufferTuples) % IOThreads = 0
  /\ Keys \subseteq Nat
  /\ None \notin Nat

VARIABLES
  input,         (* the keys of the tuples of the input file               *)
  pc,            (* main: "load", "sort", "store" or "merge" (all done)    *)
  run,           (* main: the chunk it is working on                       *)
  added,         (* main: how many tasks it has added in this phase        *)
  buffer,        (* the chunk as it came from the file                     *)
  tuples,        (* the column store: keys with their rows in buffer       *)
  merge_buffer,  (* the first tuples of every run                          *)
  temp,          (* the temporary files: the other tuples of every run     *)
  progress,      (* how many steps each task has made                      *)
  pending, executing, done, client  (* the pool                            *)

main == <<pc, run, added>>
data == <<buffer, tuples, merge_buffer, temp>>
pool == <<pending, executing, done, client>>
vars == <<input, main, data, progress, pool>>

-----------------------------------------------------------------------------
(* The tasks, and what the constructor's arguments make them touch. *)

Chunks == 0..(NChunks - 1)
Rows   == 0..(ChunkTuples - 1)
Prefix == 0..(BufferTuples - 1)
Residue == 0..(ChunkTuples - BufferTuples - 1)
File   == 0..(NChunks * ChunkTuples - 1)

Load(r, i)  == [job |-> "load", run |-> r, slot |-> i]
Write(r, i) == [job |-> "write", run |-> r, slot |-> i]
Prep(r, i)  == [job |-> "prep", run |-> r, slot |-> i]

Tasks ==
       {Load(r, i)  : r \in Chunks, i \in 0..(NThreads - 1)}
  \cup {Write(r, i) : r \in Chunks, i \in 0..(IOThreads - 1)}
  \cup {Prep(r, i)  : r \in Chunks, i \in 0..(MemThreads - 1)}

Pool == INSTANCE TaskExecutor WITH Slots <- NThreads

segment_size == ChunkTuples \div NThreads
local_buffer_residue_size == (ChunkTuples - BufferTuples) \div IOThreads
local_merge_buffer_size == BufferTuples \div MemThreads

(* thread_offset of a ReadSortedRAMTask in tuples (and one that forgets the
   tuples that stay in memory). *)
FromFirstTuple(t) == t.slot * local_buffer_residue_size

ResidueOffset(t) == t.slot * local_buffer_residue_size + BufferTuples

Share(t) ==
  CASE t.job = "load"  -> segment_size
    [] t.job = "write" -> local_buffer_residue_size
    [] t.job = "prep"  -> local_merge_buffer_size

(* A ColumnStoreTask goes through its segment twice: to read it and to fill
   the column store. *)
Steps(t) == IF t.job = "load" THEN 2 * segment_size ELSE Share(t)

(* Where the next step of a task works: in buffer or the column store, in the
   temporary file, or in the merge buffer; and the tuple it takes. *)
Place(t) == t.slot * Share(t) + (progress[t] % Share(t))

Source(t) ==
  IF t.job = "write" THEN ResidueOffset(t) + progress[t] ELSE Place(t)

Reading(t) == t.job = "load" /\ progress[t] < segment_size

KeyOf(tuple) == IF tuple = None THEN 0 ELSE input[tuple]

(* buffer + rowID *)
Fetch(t) == buffer[tuples[Source(t)].row]

-----------------------------------------------------------------------------
(* The threads of the pool. *)

(* One of them begins the oldest task. *)
StartTask == Pool!Start /\ UNCHANGED <<input, main, data, progress>>

Advance(t) ==
  /\ t \in executing
  /\ progress[t] < Steps(t)
  /\ progress' = [progress EXCEPT ![t] = @ + 1]
  /\ UNCHANGED <<input, main, pool>>

(* Where a segment of this chunk lies in the file (and one of the next). *)
OneChunkOn(t) == (t.run + 1) * ChunkTuples + Place(t)

FilePosition(t) == t.run * ChunkTuples + Place(t)

(* ColumnStoreTask: its reader fills buffer + from ... *)
ReadTuple(t) ==
  /\ Advance(t) /\ Reading(t)
  /\ buffer' = [buffer EXCEPT ![Place(t)] = FilePosition(t)]
  /\ UNCHANGED <<tuples, merge_buffer, temp>>

(* ... and toColumnStore takes the keys out of it. *)
ToColumnStore(t) ==
  /\ Advance(t) /\ t.job = "load" /\ ~Reading(t)
  /\ tuples' = [tuples EXCEPT ![Place(t)] =
                  [key |-> KeyOf(buffer[Place(t)]), row |-> Place(t)]]
  /\ UNCHANGED <<buffer, merge_buffer, temp>>

(* ReadSortedRAMTask *)
WriteTuple(t) ==
  /\ Advance(t) /\ t.job = "write"
  /\ temp' = [temp EXCEPT ![t.run][Place(t)] = Fetch(t)]
  /\ UNCHANGED <<buffer, tuples, merge_buffer>>

(* Which part of merge_buffer a task was given. *)
BufferPart(t) == t.run

(* PrepMergeBufferTask *)
PrepTuple(t) ==
  /\ Advance(t) /\ t.job = "prep"
  /\ merge_buffer' = [merge_buffer EXCEPT ![BufferPart(t)][Place(t)] = Fetch(t)]
  /\ UNCHANGED <<buffer, tuples, temp>>

FinishTask(t) ==
  /\ progress[t] = Steps(t)
  /\ Pool!Finish(t)
  /\ UNCHANGED <<input, main, data, progress>>

-----------------------------------------------------------------------------
(* Main. *)

AddLoad ==
  /\ pc = "load" /\ added < NThreads
  /\ Pool!Submit(Load(run, added))
  /\ added' = added + 1
  /\ UNCHANGED <<input, pc, run, data, progress>>

(* The order in which single_run adds the tasks that store a run. *)
StoreTask ==
  IF added < IOThreads THEN Write(run, added) ELSE Prep(run, added - IOThreads)

AddStore ==
  /\ pc = "store" /\ added < IOThreads + MemThreads
  /\ Pool!Submit(StoreTask)
  /\ added' = added + 1
  /\ UNCHANGED <<input, pc, run, data, progress>>

(* thread_pool.wait_all() *)
WaitAll ==
  /\ \/ pc = "load" /\ added = NThreads
     \/ pc = "store" /\ added = IOThreads + MemThreads
  /\ Pool!Wait
  /\ UNCHANGED <<input, main, data, progress>>

(* It returns (and a single_run that does not wait at its end). *)
ReturnAtOnce ==
  /\ client = "waiting" /\ client' = "open"
  /\ UNCHANGED <<pending, executing, done>>

Loaded == Pool!Release
Stored == Pool!Release

SegmentsLoaded ==
  /\ pc = "load" /\ Loaded
  /\ pc' = "sort"
  /\ UNCHANGED <<input, run, added, data, progress>>

(* block_indirect_sort by Tuple::operator<, which looks at the key alone: any
   order of tuples with the same key may come out. *)
Sorts(p) ==
  /\ \A i, j \in Rows : i # j => p[i] # p[j]
  /\ \A i, j \in Rows : i < j => tuples[p[i]].key <= tuples[p[j]].key

SortChunk ==
  /\ pc = "sort"
  /\ \E p \in [Rows -> Rows] :
       Sorts(p) /\ tuples' = [i \in Rows |-> tuples[p[i]]]
  /\ pc' = "store"
  /\ added' = 0
  /\ temp' = [temp EXCEPT ![run] = [i \in Residue |-> None]]
  /\ UNCHANGED <<input, run, buffer, merge_buffer, progress, pool>>

RunStored ==
  /\ pc = "store" /\ Stored
  /\ pc' = IF run + 1 = NChunks THEN "merge" ELSE "load"
  /\ run' = run + 1
  /\ added' = 0
  /\ UNCHANGED <<input, data, progress>>

Terminated == pc = "merge" /\ UNCHANGED vars

Init ==
  /\ input \in [File -> Keys]
  /\ pc = "load" /\ run = 0 /\ added = 0
  /\ buffer = [i \in Rows |-> None]
  /\ tuples = [i \in Rows |-> [key |-> 0, row |-> 0]]
  /\ merge_buffer = [r \in Chunks |-> [i \in Prefix |-> None]]
  /\ temp = [r \in Chunks |-> [i \in Residue |-> None]]
  /\ progress = [t \in Tasks |-> 0]
  /\ Pool!XInit

Main == AddLoad \/ AddStore \/ WaitAll \/ SegmentsLoaded \/ SortChunk \/ RunStored

Work(t) ==
  ReadTuple(t) \/ ToColumnStore(t) \/ WriteTuple(t) \/ PrepTuple(t) \/ FinishTask(t)

Next == Main \/ StartTask \/ (\E t \in Tasks : Work(t)) \/ Terminated

Spec == Init /\ [][Next]_vars

-----------------------------------------------------------------------------
(* Properties. *)

(* What the next step of a task writes and reads. *)
Writes(t) ==
  CASE Reading(t) -> {<<"buffer", Place(t)>>}
    [] t.job = "load" /\ ~Reading(t) -> {<<"tuples", Place(t)>>}
    [] t.job = "write" -> {<<"temp", t.run, Place(t)>>}
    [] t.job = "prep"  -> {<<"merge_buffer", BufferPart(t), Place(t)>>}

Reads(t) ==
  CASE Reading(t) -> {}
    [] t.job = "load" /\ ~Reading(t) -> {<<"buffer", Place(t)>>}
    [] t.job # "load" ->
         {<<"tuples", Source(t)>>, <<"buffer", tuples[Source(t)].row>>}

Running == {t \in executing : progress[t] < Steps(t)}

(* No data race: two tasks of the pool never touch the same tuple at the same
   time when one of them writes it, within a phase, across the phases of a run
   or across two runs, which share buffer and tuples; and while main sorts, or
   goes on to merge, no task is left. *)
NoRace ==
  /\ \A t, u \in Running :
       t # u => Writes(t) \cap (Reads(u) \cup Writes(u)) = {}
  /\ pc \in {"sort", "merge"} => Pool!Quiet

(* What the merge will read as run r. *)
Run(r) ==
  [i \in Rows |-> IF i < BufferTuples THEN merge_buffer[r][i]
                  ELSE temp[r][i - BufferTuples]]

IsSortedRun(r) ==
  /\ \A i \in Rows : Run(r)[i] \in (r * ChunkTuples)..((r + 1) * ChunkTuples - 1)
  /\ \A i, j \in Rows : i # j => Run(r)[i] # Run(r)[j]
  /\ \A i, j \in Rows : i < j => input[Run(r)[i]] <= input[Run(r)[j]]

(* When single_run returns, the prefix in memory followed by the temporary file
   holds every tuple of its chunk exactly once, sorted by key. *)
RunsSorted == \A r \in Chunks : r < run => IsSortedRun(r)

=============================================================================

------------------------------ MODULE RawWrites ------------------------------
(***************************************************************************)
(* The benchmarks besides MergeBenchmark:                                  *)
(*   FileInMem      the column store is loaded and sorted, then its tuples *)
(*                  are written in that order from memory                  *)
(*   ColumnStore    the column store is loaded, sorted and inverted, then  *)
(*                  every tuple is read again and written to its place     *)
(*   InMemory       the file is mapped, sorted and written, by main alone  *)
(*   IO             the file is read into memory and written again         *)
(* and ColumnStoreBW, which loads the column store twice and exits.  The   *)
(* pool is TaskExecutor, the readers deliver what ReadReader says and the  *)
(* writers of FileInMem what BufferringWriter does, parasort sorts.  The   *)
(* others call pwrite themselves: it may fail, or write less than it was   *)
(* asked to.                                                               *)
(*                                                                         *)
(* A tuple is its position in the input file.  Sizes are in tuples, and    *)
(* for InMemory and IO a tuple stands for a byte: it is what a pwrite can  *)
(* write less of.                                                          *)
(***************************************************************************)
EXTENDS Integers, Sequences, FiniteSets

CONSTANTS
  Cases,      (* [bench, size, n_threads, CHUNK_SIZE], CHUNK_SIZE 0 for all *)
  Keys,       (* the keys that occur, numbers in memcmp's order            *)
  MaxThreads, (* no case has more                                          *)
  Wrap,       (* 2^64, where uint64_t starts from 0 again                  *)
  None        (* memory or disk that holds no tuple, or only part of one   *)

(* The data sets of the contest divide evenly; IOBenchmark looks whether its file
   does. *)
ASSUME RawAssumption ==
  /\ Cases \subseteq
       [bench : {"FileInMem", "ColumnStore", "ColumnStoreBW", "InMemory", "IO"},
        size : Nat \ {0}, n_threads : 1..MaxThreads, CHUNK_SIZE : Nat]
  /\ \A c \in Cases :
       /\ c.n_threads <= c.size /\ c.size < Wrap
       /\ c.bench # "IO" => c.size % c.n_threads = 0
  /\ MaxThreads \in Nat /\ Wrap \in Nat
  /\ Keys \subseteq Int
  /\ None \notin Nat

VARIABLES
  this,          (* the case                                               *)
  input,         (* the keys of the input file                             *)
  main_pc,       (* main                                                   *)
  added,         (* main: the tasks added in this phase                    *)
  tuples,        (* the column store, or the file in memory                *)
  tuples_by_row, (* its inverse                                            *)
  output,        (* the output file                                        *)
  progress,      (* the tuples each task has taken; bytes_written          *)
  bytes_written, (* InMemoryBenchmark::run                                 *)
  troubles,      (* what has happened to pwrites                           *)
  pending, executing, done, client  (* the pool                            *)

main == <<main_pc, added>>
data == <<tuples, tuples_by_row, output>>
pool == <<pending, executing, done, client>>
writes == <<bytes_written, troubles>>
writeVars == <<this, input, main, data, progress, writes, pool>>

-----------------------------------------------------------------------------

Rows == 0..(this.size - 1)

(* RandomWriteSortedTask may write behind the end of the file. *)
Disk == 0..(2 * this.size - 1)

Tasks == {[phase |-> p, slot |-> i] : p \in {"first", "second"}, i \in 0..(MaxThreads - 1)}

Pool == INSTANCE TaskExecutor WITH Slots <- MaxThreads

Jobs ==
  [FileInMem     |-> [first |-> "load", second |-> "store"],
   ColumnStore   |-> [first |-> "load", second |-> "random_write"],
   ColumnStoreBW |-> [first |-> "load", second |-> "load"],
   InMemory      |-> [first |-> "none", second |-> "none"],
   IO            |-> [first |-> "read", second |-> "write"]]

Job(t) == Jobs[this.bench][t.phase]

segment_size == this.size \div this.n_threads
segment_from(t) == t.slot * segment_size

(* What next() of a task's reader returns at most. *)
window_size ==
  IF this.CHUNK_SIZE \in 1..segment_size THEN this.CHUNK_SIZE ELSE segment_size

Permuted(p) == \A i, j \in Rows : i # j => p[i] # p[j]

Sorted(p) == \A i \in Rows \ {0} : input[p[i - 1]] <= input[p[i]]

-----------------------------------------------------------------------------
(* The tasks. *)

StartTask == Pool!Start /\ UNCHANGED <<this, input, main, data, progress, writes>>

Works(t, job) ==
  /\ t \in executing /\ Job(t) = job
  /\ progress[t] < segment_size
  /\ UNCHANGED <<this, input, added, tuples_by_row, bytes_written, pool>>

Took(t, n) == progress' = [progress EXCEPT ![t] = n]

(* ColumnStoreTask, one tuple of toColumnStore. *)
LoadTuple(t) ==
  /\ Works(t, "load")
  /\ LET offset == segment_from(t) + progress[t]
     IN tuples' = [tuples EXCEPT ![offset] = offset]
  /\ Took(t, progress[t] + 1)
  /\ UNCHANGED <<main_pc, output, troubles>>

(* ReadTask calls next() once. *)
ReadSegment(t) ==
  /\ Works(t, "read")
  /\ LET lo == segment_from(t)
     IN tuples' = [i \in Rows |->
                     IF i \in lo..(lo + window_size - 1) THEN i ELSE tuples[i]]
  /\ Took(t, segment_size)
  /\ UNCHANGED <<main_pc, output, troubles>>

(* ReadSortedRAMTask *)
StoreTuple(t) ==
  /\ Works(t, "store")
  /\ LET row == segment_from(t) + progress[t]
     IN output' = [output EXCEPT ![row] = tuples[row]]
  /\ Took(t, progress[t] + 1)
  /\ UNCHANGED <<main_pc, tuples, troubles>>

(* RandomWriteSortedTask: i counts from the beginning of the window. *)
RandomWriteTuple(t) ==
  LET i == progress[t] % window_size
      offset == segment_from(t) + tuples_by_row[i]
  IN /\ Works(t, "random_write")
     /\ \/ /\ output' = [output EXCEPT ![offset] = segment_from(t) + progress[t]]
           /\ UNCHANGED troubles
        \/ /\ output' = [output EXCEPT ![offset] = None]
           /\ troubles' = troubles \cup {"short"}
     /\ Took(t, progress[t] + 1)
     /\ UNCHANGED <<main_pc, tuples>>

(* exit(EXIT_FAILURE), with whatever the other tasks have done. *)
RandomWriteFails(t) ==
  /\ Works(t, "random_write")
  /\ main_pc # "exit" /\ main_pc' = "exit"
  /\ troubles' = troubles \cup {"failed"}
  /\ UNCHANGED <<tuples, output, progress>>

(* pwrite: n of the tuples at start go to offset, some or all of them. *)
Written(start, offset, n) ==
  [i \in Disk |-> IF i \in offset..(offset + n - 1) THEN tuples[start + i - offset]
                  ELSE output[i]]

(* The result of pwrite is -1, and is added like any other. *)
Failed(bytes) == (bytes - 1) % Wrap

WriteTrouble(bytes, n, size) ==
  troubles' = IF bytes + n = size THEN troubles ELSE troubles \cup {"short"}
FailTrouble(bytes) ==
  troubles' = troubles \cup {IF bytes = 0 THEN "failed at once" ELSE "failed"}

(* WriteTask: from the beginning of buffer every time. *)
WriteSome(t) ==
  /\ Works(t, "write")
  /\ \E n \in 1..(segment_size - progress[t]) :
       /\ output' = Written(segment_from(t), segment_from(t) + progress[t], n)
       /\ Took(t, progress[t] + n)
       /\ WriteTrouble(progress[t], n, segment_size)
  /\ UNCHANGED <<main_pc, tuples>>

WriteFails(t) ==
  /\ Works(t, "write")
  /\ Took(t, Failed(progress[t]))
  /\ FailTrouble(progress[t])
  /\ UNCHANGED <<main_pc, tuples, output>>

FinishTask(t) ==
  /\ progress[t] >= segment_size
  /\ Pool!Finish(t)
  /\ UNCHANGED <<this, input, main, data, progress, writes>>

-----------------------------------------------------------------------------
(* Main: "first", then what comes between, "second", "done". *)

AddTask ==
  /\ main_pc \in {"first", "second"} /\ added < this.n_threads
  /\ Pool!Submit([phase |-> main_pc, slot |-> added])
  /\ added' = added + 1
  /\ UNCHANGED <<this, input, main_pc, data, progress, writes>>

WaitAll ==
  /\ main_pc \in {"first", "second"} /\ added = this.n_threads
  /\ Pool!Wait
  /\ UNCHANGED <<this, input, main, data, progress, writes>>

(* wait_all() returns. *)
PhaseDone ==
  /\ main_pc \in {"first", "second"}
  /\ Pool!Release
  /\ added' = 0
  /\ main_pc' = IF main_pc = "second"
                THEN IF this.bench = "ColumnStoreBW" THEN "exit" ELSE "done"
                ELSE IF this.bench \in {"FileInMem", "ColumnStore"} THEN "sort"
                ELSE IF this.size % this.n_threads = 0 THEN "second" ELSE "exit"
  /\ UNCHANGED <<this, input, data, progress, writes>>

(* parasort or block_indirect_sort: any order of tuples with the same key. *)
Sort ==
  /\ main_pc = "sort"
  /\ \E p \in [Rows -> Rows] :
       Permuted(p) /\ tuples' = [i \in Rows |-> tuples[p[i]]] /\ Sorted(tuples')
  /\ main_pc' = [FileInMem |-> "second", ColumnStore |-> "rearrange",
                  InMemory |-> "write"][this.bench]
  /\ UNCHANGED <<this, input, added, tuples_by_row, output, progress, writes, pool>>

Rearrange ==
  /\ main_pc = "rearrange"
  /\ tuples_by_row' = [r \in Rows |-> CHOOSE i \in Rows : tuples[i] = r]
  /\ main_pc' = "second"
  /\ UNCHANGED <<this, input, added, tuples, output, progress, writes, pool>>

(* Where InMemoryBenchmark continues in memory (and where WriteTask does). *)
Beginning(bytes) == 0

Continue(bytes) == bytes

MainWrites ==
  /\ main_pc = "write" /\ bytes_written < this.size
  /\ \E n \in 1..(this.size - bytes_written) :
       /\ output' = Written(Continue(bytes_written), bytes_written, n)
       /\ bytes_written' = bytes_written + n
       /\ WriteTrouble(bytes_written, n, this.size)
  /\ UNCHANGED <<this, input, main, tuples, tuples_by_row, progress, pool>>

MainFails ==
  /\ main_pc = "write" /\ bytes_written < this.size
  /\ bytes_written' = Failed(bytes_written)
  /\ FailTrouble(bytes_written)
  /\ UNCHANGED <<this, input, main, data, progress, pool>>

MainWritten ==
  /\ main_pc = "write" /\ bytes_written >= this.size
  /\ main_pc' = "done"
  /\ UNCHANGED <<this, input, added, data, progress, writes, pool>>

WInit ==
  /\ this \in Cases
  /\ input \in [Rows -> Keys]
  /\ main_pc = IF this.bench = "InMemory" THEN "sort" ELSE "first"
  /\ added = 0
  /\ tuples = [i \in Rows |-> IF this.bench = "InMemory" THEN i ELSE None]
  /\ tuples_by_row = [i \in Rows |-> 0]
  /\ output = [i \in Disk |-> None]
  /\ progress = [t \in Tasks |-> 0]
  /\ bytes_written = 0
  /\ troubles = {}
  /\ Pool!XInit

WTerminated == main_pc \in {"done", "exit"} /\ UNCHANGED writeVars

Main ==
  \/ AddTask \/ WaitAll \/ PhaseDone \/ Sort \/ Rearrange
  \/ MainWrites \/ MainFails \/ MainWritten

Work(t) ==
  \/ LoadTuple(t) \/ ReadSegment(t) \/ StoreTuple(t)
  \/ RandomWriteTuple(t) \/ RandomWriteFails(t)
  \/ WriteSome(t) \/ WriteFails(t) \/ FinishTask(t)

WNext == Main \/ StartTask \/ (\E t \in Tasks : Work(t)) \/ WTerminated

WSpec == WInit /\ [][WNext]_writeVars

-----------------------------------------------------------------------------

(* What a benchmark leaves when it is done, where its code can deliver it:
   FileInMem the sorted file;
   InMemory the sorted file whatever pwrites did, also after one that failed
   and was taken back one byte too far, but not if the very first failed; IO
   a copy if one window is a segment and every pwrite wrote all it was asked
   to, as WriteTask goes on from the beginning of its part; ColumnStore the
   sorted file if one thread has it in one window, as RandomWriteSortedTask
   counts rows from there, and no pwrite was short; ColumnStoreBW the column
   store in the order of the file.  And at no time has a thread of IO written
   anything of another's part, or into it. *)
OutputRight ==
  LET OneWindow == window_size = segment_size
      Complete == Permuted(output) /\ \A i \in Rows : output[i] \in Rows
      Part(i) == i \div segment_size
  IN /\ main_pc = "done" /\ this.bench = "FileInMem" => Complete /\ Sorted(output)
     /\ main_pc = "done" /\ this.bench = "InMemory" =>
          "failed at once" \in troubles \/ (Complete /\ Sorted(output))
     /\ main_pc = "done" /\ this.bench = "IO" =>
          (OneWindow /\ troubles = {} => \A i \in Rows : output[i] = i)
     /\ main_pc = "second" /\ this.bench = "IO" =>
          \A i \in Disk : output[i] # None => Part(i) = Part(output[i])
     /\ main_pc = "done" /\ this.bench = "ColumnStore" =>
          (this.n_threads = 1 /\ OneWindow /\ troubles = {} =>
             Complete /\ Sorted(output))
     /\ main_pc = "exit" /\ this.bench = "ColumnStoreBW" =>
          \A i \in Rows : tuples[i] = i

=============================================================================

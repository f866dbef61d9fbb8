----------------------------- MODULE Histogram -----------------------------
(***************************************************************************)
(* The histogram benchmarks: the file is cut into one segment per thread,  *)
(* every task counts the tuples of its segment by partition, in its own    *)
(* part of one array, and the main thread adds up the array.               *)
(* ParallelReadHistoBenchmark reads each segment through an MMapReader, a  *)
(* window at a time; SingleMMapHistoBenchmark maps the whole file once.    *)
(* The pool has a thread for every task, so that a task may begin at once. *)
(***************************************************************************)
EXTENDS Integers, FiniteSets, Functions

CONSTANTS
  n_threads,       (* threads, and tasks                                   *)
  char_bits,       (* the bits of a byte                                   *)
  partition_bits,  (* the bits of a partition number                       *)
  TUPLE_SIZE,      (* a tuple's bytes, the first two of which are looked at *)
  PAGE_SHIFT_AMT,  (* the logarithm of a page's bytes                      *)
  ChunkSizes,      (* the values CHUNK_SIZE may have                       *)
  Files            (* the input files, functions from positions to bytes   *)

(* Every segment and every window is made of whole tuples. *)
ASSUME HistogramAssumption ==
  /\ n_threads \in Nat \ {0} /\ TUPLE_SIZE \in Nat \ {0, 1}
  /\ char_bits \in Nat /\ partition_bits \in Nat /\ char_bits <= partition_bits
  /\ PAGE_SHIFT_AMT \in Nat
  /\ \A c \in ChunkSizes : c \in Nat /\ c % TUPLE_SIZE = 0
  /\ \A f \in Files :
       /\ IsFiniteSet(DOMAIN f)
       /\ DOMAIN f = 0..(Cardinality(DOMAIN f) - 1)
       /\ \A i \in DOMAIN f : f[i] \in 0..(2^char_bits - 1)
       /\ Cardinality(DOMAIN f) % n_threads = 0 =>
            (Cardinality(DOMAIN f) \div n_threads) % TUPLE_SIZE = 0

(* What the proofs need to know of powers, of which the provers know nothing. *)
ASSUME PowersAssumption ==
  \A k \in {PAGE_SHIFT_AMT, char_bits, partition_bits, partition_bits - char_bits} :
    2^k \in Nat \ {0}

VARIABLES
  benchmark,  (* which of the two runs: "parallel" or "single"             *)
  file,       (* the input                                                 *)
  CHUNK_SIZE, (* bytes per window; 0 for the whole segment                 *)
  pc,         (* the main thread: "start", "add", "done" or "exit"         *)
  added,      (* the tasks it has added                                    *)
  mem,        (* whether it has mapped the whole file                      *)
  sum,        (* what it prints                                            *)
  histogram,  (* global_histogram                                          *)
  phase,      (* per task, the step it is at                               *)
  from,       (* per task, its reader's next byte                          *)
  buffer,     (* the reader's mapping: the value of from it was made for,
                 or NullPtr                                                *)
  map_size,   (* and its length                                            *)
  mapped,     (* the reader's pages in memory: <<buffer, n>> is the n-th
                 of that mapping                                           *)
  window,     (* where in the file the task's pointer points               *)
  sz,         (* the bytes of the window                                   *)
  index,      (* update_histogram's i                                      *)
  loaded,     (* the counter it is about to write back                     *)
  killed      (* the program has unmapped itself                           *)

input == <<benchmark, file, CHUNK_SIZE>>
main == <<pc, added, mem, sum>>
reader == <<from, buffer, map_size, mapped>>
vars == <<input, main, reader, histogram, phase, window, sz, index, loaded,
          killed>>

-----------------------------------------------------------------------------

Tasks == 0..(n_threads - 1)
NullPtr == -1
N_PARTITIONS == 2^partition_bits
Partitions == 0..(N_PARTITIONS - 1)
PAGE_SIZE == 2^PAGE_SHIFT_AMT

file_size == Cardinality(DOMAIN file)
segment_size == file_size \div n_threads
From(i) == i * segment_size
To(i) == (i + 1) * segment_size

(* The first byte of the key, and the low bits of the second. *)
get_partition(first, second) ==
  LET shift_amt == partition_bits - char_bits
  IN (first * 2^shift_amt + (second % 2^shift_amt)) % N_PARTITIONS

(* Where a task's part of global_histogram begins (and if all had the same). *)
SamePart(i) == 0

LocalHist(i) == i * N_PARTITIONS

(* Pages. *)
get_page_num(num) == num \div PAGE_SIZE

PagesFor(len) == (len + PAGE_SIZE - 1) \div PAGE_SIZE

Mapping(ptr, len) == {<<ptr, n>> : n \in 0..(PagesFor(len) - 1)}

-----------------------------------------------------------------------------

Init ==
  /\ benchmark \in {"parallel", "single"}
  /\ file \in Files
  /\ CHUNK_SIZE \in ChunkSizes
  /\ pc = "start" /\ added = 0 /\ mem = FALSE /\ sum = 0
  /\ histogram = [c \in 0..(n_threads * N_PARTITIONS - 1) |-> 0]
  /\ phase = [i \in Tasks |-> "new"]
  /\ from = [i \in Tasks |-> From(i)]
  /\ buffer = [i \in Tasks |-> NullPtr]
  /\ map_size = [i \in Tasks |-> 0]
  /\ mapped = [i \in Tasks |-> {}]
  /\ window = [i \in Tasks |-> 0]
  /\ sz = [i \in Tasks |-> 0]
  /\ index = [i \in Tasks |-> 0]
  /\ loaded = [i \in Tasks |-> 0]
  /\ killed = FALSE

(* The main thread. *)
Start ==
  /\ pc = "start"
  /\ IF file_size % n_threads = 0
     THEN pc' = "add" /\ mem' = (benchmark = "single")
     ELSE pc' = "exit" /\ UNCHANGED mem
  /\ UNCHANGED <<input, added, sum, reader, histogram, phase, window, sz,
                 index, loaded, killed>>

(* An InterleavedHistogramTask, which calls its reader. *)
AddInterleaved ==
  /\ benchmark = "parallel"
  /\ pc = "add" /\ added < n_threads
  /\ phase' = [phase EXCEPT ![added] = "next"]
  /\ added' = added + 1
  /\ UNCHANGED <<input, pc, mem, sum, reader, histogram, window, sz, index,
                 loaded, killed>>

(* A HistogramTask, which has its segment. *)
AddSegment ==
  /\ benchmark = "single"
  /\ pc = "add" /\ added < n_threads
  /\ phase' = [phase EXCEPT ![added] = IF segment_size = 0 THEN "delete" ELSE "load"]
  /\ window' = [window EXCEPT ![added] = From(added)]
  /\ sz' = [sz EXCEPT ![added] = segment_size]
  /\ added' = added + 1
  /\ UNCHANGED <<input, pc, mem, sum, reader, histogram, index, loaded, killed>>

(* wait_all, and the sum over the whole array. *)
AllDeleted == \A i \in Tasks : phase[i] = "deleted"

Total(counters) == FoldFunction(LAMBDA x, y : x + y, 0, counters)

Verify ==
  /\ pc = "add" /\ added = n_threads
  /\ AllDeleted
  /\ sum' = Total(histogram)
  /\ pc' = "done"
  /\ UNCHANGED <<input, added, mem, reader, histogram, phase, window, sz, index,
                 loaded, killed>>

(* MMapReader::next.  The window is what is left of the segment, but no more
   than a chunk; it begins adjust bytes into its first page (and a map_size that
   forgets them). *)
chunk_size == IF CHUNK_SIZE = 0 THEN segment_size ELSE CHUNK_SIZE

ReadAmount(i) ==
  IF To(i) - from[i] < chunk_size THEN To(i) - from[i] ELSE chunk_size

PageOffset(i) == get_page_num(from[i]) * PAGE_SIZE

Adjust(i) == from[i] - PageOffset(i)

MapSizeWithoutAdjust(i) == ReadAmount(i)

MapSize(i) == ReadAmount(i) + Adjust(i)

Pointer(i) == PageOffset(i) + Adjust(i)

NextWindow(i) ==
  /\ phase[i] = "next"
  /\ mapped' = [mapped EXCEPT ![i] =
       (@ \ Mapping(buffer[i], map_size[i]))
         \union Mapping(from[i], ReadAmount(i) + Adjust(i))]
  /\ buffer' = [buffer EXCEPT ![i] = from[i]]
  /\ from' = [from EXCEPT ![i] = @ + ReadAmount(i)]
  /\ map_size' = [map_size EXCEPT ![i] = MapSize(i)]
  /\ sz' = [sz EXCEPT ![i] = ReadAmount(i)]
  /\ window' = [window EXCEPT ![i] = Pointer(i)]
  /\ index' = [index EXCEPT ![i] = 0]
  /\ phase' = [phase EXCEPT ![i] = IF ReadAmount(i) = 0 THEN "delete" ELSE "load"]
  /\ UNCHANGED <<input, main, histogram, loaded, killed>>

(* Nobody has set map_size when next is called for the first time, and the
   buffer is the null pointer: either munmap refuses the length, or finds
   nothing there, or everything below it goes, the program's code first. *)
UnmapAll(i) ==
  /\ phase[i] = "next" /\ buffer[i] = NullPtr
  /\ killed' = TRUE
  /\ UNCHANGED <<input, main, reader, histogram, phase, window, sz, index, loaded>>

(* Partition::update_histogram, with the counter's load and store apart. *)
Cell(i) ==
  LET key == window[i] + index[i]
  IN LocalHist(i) + get_partition(file[key], file[key + 1])

Load(i) ==
  /\ phase[i] = "load"
  /\ loaded' = [loaded EXCEPT ![i] = histogram[Cell(i)]]
  /\ phase' = [phase EXCEPT ![i] = "store"]
  /\ UNCHANGED <<input, main, reader, histogram, window, sz, index, killed>>

(* When the window is counted, run() asks for the next one; a HistogramTask
   has only one. *)
AfterWindow == IF benchmark = "parallel" THEN "next" ELSE "delete"

Store(i) ==
  /\ phase[i] = "store"
  /\ histogram' = [histogram EXCEPT ![Cell(i)] = loaded[i] + 1]
  /\ index' = [index EXCEPT ![i] = @ + TUPLE_SIZE]
  /\ phase' = [phase EXCEPT ![i] =
       IF index[i] + TUPLE_SIZE < sz[i] THEN "load" ELSE AfterWindow]
  /\ UNCHANGED <<input, main, reader, window, sz, loaded, killed>>

(* The pool deletes the task, and that its reader. *)
Delete(i) ==
  /\ phase[i] = "delete"
  /\ mapped' = [mapped EXCEPT ![i] = @ \ Mapping(buffer[i], map_size[i])]
  /\ phase' = [phase EXCEPT ![i] = "deleted"]
  /\ UNCHANGED <<input, main, from, buffer, map_size, histogram, window, sz,
                 index, loaded, killed>>

Terminated == (pc \in {"done", "exit"} \/ killed) /\ UNCHANGED vars

Task(i) == NextWindow(i) \/ UnmapAll(i) \/ Load(i) \/ Store(i) \/ Delete(i)

Next ==
  \/ ~killed /\ (Start \/ AddInterleaved \/ AddSegment \/ Verify)
  \/ ~killed /\ \E i \in Tasks : Task(i)
  \/ Terminated

Spec == Init /\ [][Next]_vars

-----------------------------------------------------------------------------
(* Properties. *)

(* What a task counts lies in pages that are mapped, however the window falls
   on the pages; no window leaves a page behind, and a reader that has been
   deleted has given all of them back. *)
MappedExactly ==
  \A i \in Tasks :
    /\ phase[i] \in {"load", "store"} =>
         LET pages == {get_page_num(window[i] + k) : k \in 0..(sz[i] - 1)}
         IN \/ mem /\ mapped[i] = {}
            \/ /\ \A m \in mapped[i] : m[1] = buffer[i]
               /\ {get_page_num(m[1]) + m[2] : m \in mapped[i]} = pages
    /\ phase[i] = "deleted" => mapped[i] = {}

(* When run prints the sum, every tuple of the file has been counted once, in
   its own partition, whatever the tasks' order. *)
HistogramRight ==
  pc = "done" =>
    LET n == file_size \div TUPLE_SIZE
        InPartition(p) ==
          {t \in 0..(n - 1) :
             get_partition(file[t * TUPLE_SIZE], file[t * TUPLE_SIZE + 1]) = p}
        Counted(p) == Total([i \in Tasks |-> histogram[i * N_PARTITIONS + p]])
    IN /\ sum = n
       /\ \A p \in Partitions : Counted(p) = Cardinality(InPartition(p))

=============================================================================

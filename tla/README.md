# TLA+ model of sigmod-benchmarks

This directory specifies the sorting program of this repository in TLA+, checks the
specifications with TLC on small instances and proves theorems about them with TLAPS.
The program sorts files of 100-byte tuples by their 10-byte keys (`src/main.cpp`): a file
that fits into memory with `FileInMemColumnStoreBenchmark`, a larger one with
`MergeBenchmark`, an external merge sort. Paths below are relative to the repository
(its sources are in `src/` and `include/`); line numbers are in `PROJECT.json`, "map".

## 1. Inventory

### The parts and how they interact

```
main ── determine_dataset ──► Benchmark::run
                                 │ add_task / wait_all            next()
          MergeBenchmark ────────┼──► ThreadPool ──► tasks ──────► FileReader
            single_run × n_chunks│      (n threads)   │            (Read, Hybrid, ASync, MMap)
               │  sort()         │                    └─ write ──► BufferringWriter ──► pwrite
               ├─────────────────┼──► block_indirect_sort ──► pdqsort, merges
            k-way merge          │      (threads of its own)
               │  next() ────────┼──► HybridReadReader
               └─ write ─────────┴──► BufferringWriter
```

| Component | State | Operations | Hard because |
|---|---|---|---|
| **ThreadPool** (`utilities/ThreadPool`) | linked task queue, `n_tasks`, `active`, `running`, one mutex, two condition variables | `add_task`, `wait_all`, destructor, the threads' loop | lost or spurious wakeups, a barrier over two counters, shutdown with work left |
| **FileReader** family (`readers/`) | `from`, `to`, `chunk_size`, a buffer (own, shared or appended to) | `next` | short and failing `pread`, unsigned counters, windows that reuse memory, a read in flight (ASync), page rounding (MMap) |
| **BufferringWriter** (`writers/`) | buffer, `current_size`, file offset | `write`, `flush`, destructor | short and failing `pwrite`, the last flush only in the destructor |
| **Tasks** (`include/tasks/`) | what their constructors are given | `run` | they share buffers, the column store and files with no lock; only their ranges keep them apart |
| **MergeBenchmark**, run formation (`single_run`) | input chunk, column store, merge buffer, temporary files | load, sort, store, once per chunk | phases separated only by `wait_all`; memory reused by the next chunk |
| **MergeBenchmark**, merge (`run`) | one window and one reader per run, `ChunkInfo`, priority queue | init, pop, write, advance, refill | windows overwritten in place, keys behind pointers in the queue, uneven ends |
| **FileInMemColumnStoreBenchmark** | as run formation with one chunk and no merge buffer | `run` | as run formation |
| **ColumnStoreBenchmark**, **…BWBenchmark** | column store and its inverse permutation | `run` with `RandomWriteSortedTask` | index arithmetic across segments and windows |
| **IOBenchmark**, **InMemoryBenchmark** | the file in memory | `run` with `ReadTask` and `WriteTask`; `run` alone | short and failing `pwrite` with unsigned counters |
| **Partition**, histogram tasks and benchmarks | one array with a part per task, a mapping per reader | `update_histogram`, `MMapReader::next`, sum | counters without locks, windows that begin inside a page |
| **parasort** (`utilities/borrowedsort.h`) | samples, bucket counts, map | count, map, scatter, sort | threads scatter into one array |
| **radix_sort** | none: SIMD functions with test mains | range of a key among delimiters | lanes and boundary cases |
| **block_indirect_sort** (`include/libs/boost/sort`) | the array, an index of its blocks, a stack of works, an atomic counter per function that waits | `split_range`, `parallel_sort`, `divide_sort`, `merge_blocks` with `cut_range` and `merge_range_pos`, `move_blocks` | a thread that waits executes other works on top of the one that waits; only counters keep works that share blocks apart |
| **pdqsort**, pivots, **merges** (the same) | a range, two cursors | partitions, insertion sorts; `merge`, `merge_half`, `merge_uncontiguous`, `merge_flow` | searches without bounds; merges that write over what they read |
| main, Constants, Utils, Timer; the rest of Boost | configuration, helpers; macros and templates | | not modelled, see section 6 |

### What makes each part correct

* ThreadPool: every task runs exactly once and is deleted; `wait_all` is a barrier; no
  worker sleeps while work waits for it; the destructor drains and returns.
* Readers: the windows are the segment, in order, without gap or overlap, then a null
  pointer; nothing is put outside the buffer; an append reader keeps what it returned.
* Writer: every byte reaches its own place, once; nothing is lost on a short write.
* Run formation: no data race; every run is a sorted permutation of its chunk; a finished
  run is not disturbed by the next ones.
* Merge: the output is sorted at every moment and in the end holds every tuple once; what
  the queue compares does not change under it.
* The whole of MergeBenchmark: the output file is the sorted input file, and it gets done.
* block_indirect_sort: no data race, no wait without end, a sorted permutation. pdqsort and
  the merges: never outside their range, sorted, nothing overwritten before it is read.
* IOBenchmark and the like: the output is the input, sorted or as it was, where every
  `pwrite` does what it is asked to, and otherwise as far as the code takes care.
* Histograms: every tuple is counted once, in its partition; no page is touched unmapped.
* parasort: the scatter is a permutation into slices in order; radix_sort: every key gets its
  own range.

Every hazard, with its line and the properties that cover it, is in `PROJECT.json`.

## 2. Plan

Order: what everything else relies on first, then the sort itself, then the variants.

| | Module | Models | State |
|---|---|---|---|
| 1 | `TaskExecutor` (abstract), `ThreadPool`, `ThreadProofs` | ThreadPool | done, proved |
| 2 | `BufferringWriter` | BufferringWriter | done, proved in 15 |
| 3 | `ChunkStream` (abstract), `ReadReader` | ReadReader, HybridReadReader | done, proved in 9 |
| 4 | `RunFormation` (composes `TaskExecutor`) | `single_run` with its tasks | done, proved in 12 |
| 5 | `SortedStream` (abstract), `KWayMerge`, `KWayMergeProofs` | merge loop of `run` | done, proved |
| 6 | `ASyncReader` (implements `ChunkStream`), `ASyncReaderProofs` | ASyncReader, with the kernel | done, proved |
| 6b | `Histogram`, `HistogramProofs` | the histogram benchmarks with Partition and MMapReader | done, proved |
| 7 | `TaskFifo` (abstract), `TaskQueue` | the linked list of the pool's queue with its dangling tail | done, proved in 15 |
| 8 | `RawWrites` (composes `TaskExecutor`) | FileInMemColumnStoreBenchmark, ColumnStoreBenchmark, ColumnStoreBWBenchmark, IOBenchmark, InMemoryBenchmark | done, proved in 9 |
| 9 | `FileProofs` | theorems about 3 and 8 | done |
| 10 | `Parasort`, `ParasortProofs` | parasort with its threads | done, proved |
| 11 | `RangePartition` | the SIMD range functions | done, proved in 15 |
| 12 | `ExternalSort`, composing 4 and 5, `ExternalSortProofs` | MergeBenchmark from the file to the sorted file | done, proved |
| 13 | `BlockIndirectSort` | the parallel sort of Boost.Sort | done, its counters proved in `ThreadProofs` |
| 14 | `PdqSort`, `MergeKernels` | what 13 is built from | done, proved in 15 |
| 15 | `SequentialProofs`; the merges in `ParasortProofs` | theorems about what one thread does by itself: 2, 7, 11 and 14 | done |

Left: run formation at the level of bytes, for sizes that do not divide. Theorems still worth
proving: `NoRace` of `BlockIndirectSort`, by the ranges that the functions on the stacks and the
works hold for themselves, of which the counters proved exact are the first half.

## 3. The modules

**ThreadPool** has one process per worker and one for the client thread; `pc[t]` is the
place of thread `t` in `thread_run`, `add_task`, `wait_all` or the destructor, and an action
is the code from one lock, unlock, wait or call to the next. `queue` is the linked list,
`active` and `running` are the fields. Sleeping on a condition variable is `pc = "asleep"`
(or `"wait_asleep"`); a signal wakes any one sleeper, and a bounded number of wakeups are
spurious. The client calls in any order, which covers every benchmark.
**TaskExecutor** is what the benchmarks need to know of it; `ThreadPool` implements it with a
task executing from `active++` to `active--`.

**TaskQueue** is the queue itself, which `ThreadPool` has as a sequence: nodes at addresses that
`new` chooses among the free ones, so also the address it had before. `next` deletes the first
node and leaves `tail` alone, which then may point to freed memory, or to a new node that is
not the last. `nodes` is history, the addresses in the order of insertion, over which **TaskFifo**,
the queue of tasks it implements, is defined. Every operation is one step, as all of them are
called with `queue_rwlock` held (the destructor when the threads are gone).

**BufferringWriter** is byte for byte: a byte is its index in the stream, `disk` the file.
`pwrite` writes any number of bytes or fails; the code adds its -1 to an unsigned counter,
modelled modulo `Word`. A failure at the start of a flush wraps the counter to 2^64-1 and the
buffer is dropped: the code does that, `dropped` counts it, and the properties say it is the
only way to lose a byte.

**ReadReader** does the same for `pread`, in the three ways the buffer is used: a buffer of
its own, a shared one that is appended to (the loading tasks) and one the caller has filled
already (HybridReadReader). A `pread` that fails with nothing read makes the call return a
window of stale bytes and moves `from` back by one; with `from = 0` it wraps, and the reader
returns garbage for ever or loops on `pread` = 0. `dropped` marks that this has happened; every
other failure is harmless. **ChunkStream** is the contract of `FileReader::next`.

**ASyncReader** has two actors, the consumer in `next()` and the kernel that fills the other
window piece by piece; `window` and `sz` are the pointer and the size the consumer holds, and
what it sees there is looked up in `memory` at every moment, so a kernel that wrote to it would
be noticed. `Ends` are the ends the segment may have and `to` is the one it has: several whole chunks, one
chunk, less, and one and a half. It implements `ChunkStream` until `from` has passed `to`. That
happens with a segment that is no multiple of the chunk (it is compared with `==`): `next()` then
returns full windows for ever, with old bytes behind the end of the file. With one chunk, the
read that the first call submits is still in flight when the destructor frees the buffers;
`NothingInFlight` says that this is the only such case.

**RunFormation** is `single_run` for all chunks: `Main` goes through load, sort and store, and
adds tasks; the pool is the abstract executor with `n_threads` slots; each task makes one
step per tuple, so that all interleavings of the tasks' reads and writes happen. `Place` and
`Source` translate the tasks' constructor arguments. Sizes are in tuples and divide evenly
(`RunAssumption`): 60 GB, 30 chunks, 20 threads, 900 MB and 10+10 tasks do.
`block_indirect_sort` is any permutation that is sorted by key, so that ties come out in any
order. System calls succeed here; what happens when they do not is in 2 and 3.

**KWayMerge** is the merge loop with the real windows: `memory[r]` is a run's part of
`merge_buffer`, `next()` reads the temporary file over it, `buffer[r]` and `size[r]` are the
`ChunkInfo`. The heap of `std::priority_queue` is the set of its elements, from which any
least one is taken; `QueuedKeysStable` is what makes that legitimate. **SortedStream** says
what a sort is: always emit a least one of the remaining tuples, until none is left.

**ExternalSort** is `MergeBenchmark::run` from the beginning to the end: `RunFormation`, and an
instance of `KWayMerge` whose runs are what the tasks have put into `merge_buffer` and the
temporary files. `KWayMerge` has places in a run where the code has tuples, so `merge_buffer` keeps
what `single_run` left and `memory` is what the merge has read over it. `SortsFile` is the promise
of `SortedStream` again, this time for the tuples of the input file.

**RawWrites** has the benchmarks besides MergeBenchmark, one per value of `this.bench`, with the
phases of their `run()` and the abstract executor. `FileInMemColumnStoreBenchmark` has the tasks of
`single_run`, one step per tuple here, and its writers deliver what BufferringWriter says. The other
four call `pwrite` themselves, which writes some or all of what it is asked to, or fails; `troubles`
remembers which of these happened, and `OutputRight` promises what the code can deliver then.

**Parasort** takes the six steps of `parasort` with `np` threads that count and scatter one
element per step; `bucket`, `map` and `tmp` are the code's arrays, indexed by thread and
bucket. The delimiters are any sorted choice from the list, which is what a random sample can
give; `std::sort` of a slice leaves ties in any order. A list of four or five elements with
three threads leaves a remainder, one of one or two leaves all to the last thread.

**Histogram** has the main thread and one process per task. A counter's increment is a load and a
store, so that two tasks that shared a counter could lose one. A mapping is named by the value
of `from` it was made for, and `mapped` is the set of its pages in memory; `window` is the file
position the returned pointer shows. `map_size` is not initialised: `UnmapAll` is the outcome
in which the first `munmap` takes the program with it, otherwise it does nothing. `main` never
deletes a benchmark, so the file that SingleMMapHistoBenchmark maps stays mapped.

**RangePartition** has both vector functions: a register is a function from lanes to numbers, an
intrinsic an operator on such functions, a step one stage of the loop over the keys.

**BlockIndirectSort** has a C++ stack per thread, `stack[t]`, because a thread that waits for a
counter (`backbone::exec`) takes another work from `works` and runs it on top of its own. A function
in progress is a record with its name, its arguments, its place and the counter it will decrement;
its own counter, a local variable, is named by the place of the function on that stack (the
innermost is last), so another function may have one of the same name later; `Pushed` is a
lambda that waits in `works`, `Called` one that runs at once.
A thread goes from one access to shared memory to the next. `index` holds block numbers and sides
as in the code; `Cut` and `Extract` compute the ranges of `cut_range` and `extract_ranges`, and
`NoRace` compares what the functions in progress read and write. One thread's sorts of a small
range and one merge of two blocks are one step each: what they do to memory is in the next two.

**PdqSort** is `pdqsort` with the partitions, exchanges and sifts it makes, and the partition of
`divide_sort`. A search goes to the first place that ends it, or to the end of the range, and then
`sort_pc` is `"out"`: the code has no bound there. The heap sort leaves what insertion would.
`insertion_sort_threshold` is 4 or more, as the exchanges of the shuffles need, and `divide_sort`
has 9 elements or more, as `mid9` needs; the code has 24 and `max_per_thread`. **MergeKernels** are the four merges over one memory,
element by element, each laid out as the caller lays it out.

**MCSequential** checks the modules of what one thread does (`RangePartition`, `PdqSort`,
`MergeKernels`, `TaskQueue`), each behaviour of one of them.

Operators with a comment in parentheses ("and one that ...") are variants of the definition
next to them as a plausible mistake would have it; `PROJECT.json`, "mutants", says which
property notices which mistake.

## 4. The runs

| Run | Instance | Shows |
|---|---|---|
| `thread_pool` | 3 workers, 3 tasks, 1 spurious wakeup, no symmetry | one owner per task, nobody forgotten on a condition variable nor all threads asleep at once, barrier, drained at the end; refinement of `TaskExecutor` with its liveness: every task is served, `wait_all` and the destructor return |
| `buffering_writer` | buffer of 5, writes of 1 to 5 bytes up to 10, 2 failures | bytes in place, nothing lost, file stable, destructor returns |
| `read_reader` | six readers: own, shared and filled buffers; bytes 2..8 in windows of 3, a segment at once (`chunk_size` 0), an empty file behind a filled window; 2 failures | refinement of `ChunkStream`, no overrun, an append reader's windows are retained |
| `async_reader` | segments of 1, 2, 7 and 8 bytes in chunks of 2, into own buffers or the caller's, reads in pieces, 1 failure; the file goes on behind them | kernel and consumer apart, nothing in flight at the end but with one chunk, a shared buffer retains the segment, refinement of `ChunkStream` |
| `async_reader_zero` | `chunk_size` 0, segment of 4 bytes | **violation**: the buffer has no room (see below) |
| `external_sort` | 2 chunks of 4 tuples, 2 of each in the merge buffer, 2 keys; 2 loading, 2 writing tasks, 1 for the buffer, 2 threads | no race, runs sorted and undisturbed, the file comes out sorted and the program ends |
| `file_benchmarks` | five benchmarks with up to 4 tuples and 3 keys, 1 and 2 threads, one window per segment or several, a size the threads do not divide | the output file is right |
| `merge` | 3 runs of 5, windows of 2, ties within and between runs | queue stable while windows are refilled twice, refinement of `SortedStream` |
| `parasort` | 3 threads, every list of 1 to 5 tuples with 3 keys, every choice of delimiters | the scatter neither overwrites nor leaves gaps, slices in order, list sorted |
| `histogram` | the empty file and every file of 3, 4 or 6 tuples with 2 keys; 2 tasks, pages of 4 bytes, windows of 6 or of the whole segment | every tuple counted once, only mapped pages touched, none left behind |
| `sequential` | 2 registers of keys, 16 or 7 delimiters that change at any place; arrays of up to 11 keys and one of 74; pairs of short sorted sequences; 3 addresses and 2 tasks | every key's index is its range; pdqsort and the merges stay in bounds and sort; the list is intact and a queue |
| `block_indirect_sort` | blocks of 2, groups of 3 blocks, 12 or 13 elements with 3 threads and 10 with 2, all interleavings; about 350 other arrays one thread after the other | no race, counters exact, sorted, no wait without end |

Why these bounds are enough: three workers give one that runs, one that is signalled and one
that steals its task; three tasks and a client that stops adding at any point give every
order of the last ones to finish, one spurious wakeup each place where a test must be repeated.
The reader's and the writer's sizes are no multiples of each other, so that windows end
unevenly, and two failures are enough to fail in the middle of a call, and after a dropped
window. Two chunks show what the reuse of memory can break, two tasks of each kind what
their ranges can. Few keys make many tuples equal, and every tie is broken in every way. In
`external_sort` the second chunk has the keys of the first one exchanged, which leaves 16
inputs instead of 256; the full set was found to behave in the same way. `Word` is 32 or 64
instead of 2^64: large enough that a wrapped value cannot be mistaken for a size.
Three addresses let `new` return the node just deleted or another one. The thresholds of
`pdqsort` are 4, 8 and 1 instead of 24, 128 and 8, so that arrays of 9 to 11 take each of its
paths but one; the array of 74 keys makes it give up and sort a heap. In `block_indirect_sort`
the inputs were chosen so that a range is divided, a merge has a tail and is cut, and a cycle is
moved in one part and in several; `max_per_thread` 5 and `NTHREAD_BORDER` 3 bring the parallel
parts within reach of 13 elements.

**What the code does differently.** `Constants.cpp:25` says that a `CHUNK_SIZE` of 0 makes a
reader read its whole segment, and `SequentialReadHistoBenchmark.cpp:24` passes that 0 to an
ASyncReader. Its constructor allocates with the argument, not with the member that
`FileReader` has set (`ASyncReader.cpp:44`), so the segment is read to where there is no room;
`ReadReader` writes `this->chunk_size` at the same place.

These modules also show where the code does less than its name says, with no doc or comment that
says otherwise, so the properties promise only the rest: `ASyncReader` with a segment of one
chunk or of no multiple of it (section 3); `RandomWriteSortedTask`, which writes to the right
places only for one thread and one window (`RandomWriteSortedTask.h:28`); `WriteTask`, which after a
short `pwrite` goes on from the start of its buffer (`WriteTask.h:25`); `InMemoryBenchmark`,
`ReadReader` and `BufferringWriter`, which add the -1 of a failed call to an unsigned counter.

Deadlock is checked in every run; a system that has finished stutters (`Terminated`).

**Fairness.** Liveness assumes weak fairness of each thread: the operating system runs a
thread that can run, and a task's system calls return. Nothing obliges a client to call
`wait_all` or to add tasks. Weak fairness is enough because each wait is for a state that
persists until the waiter acts; the number of failing calls and of spurious wakeups is
finite in a run of the model, as in a run of the program that gets anywhere. The consumer of
a reader calls `next` until it gets a null pointer, and the owner of a writer destroys it, as
all callers here do. In `ExternalSort` main, the pool's threads and every task keep running; in
`BlockIndirectSort` each thread does, one that waits included, as it yields and tries again.

## 5. The theorems

All hold for every value of the constants that satisfies the module's named assumption. Every
module with an invariant of its own proves `Spec => []IInv` once, one lemma per action, and the
properties from it; the conjuncts of each `IInv` were model-checked before they were proved.

* ThreadPool, in `ThreadProofs`: `TypeCorrect`, `TasksHaveOneOwner`, `NoLostWakeup`, `DeadlockFree`,
  `DestructorDrains`, `WaitAllIsBarrier`, `ImplementsExecutorSafety`. The properties are not
  inductive: `IInv` adds who holds the mutex (`MutexHeld`), that `active` is the number of workers
  between `active++` and `active--` (`ActiveCounts`), and what has been established once `running`
  is 0. `WorkConserving` is the heart: each insert wakes a sleeper or leaves none asleep, and a
  worker that goes to sleep has seen the queue empty under the mutex. `DeadlockFree` says that
  a broadcast reaches the client, nobody sleeps after the stop, and some thread is always
  not waiting: if all were asleep, the queue would be empty and nobody active, which is
  what the client waits for.
* BlockIndirectSort, in `ThreadProofs` as well: `CountersStayExact` (`CountersExact`), for any
  inputs, numbers of threads, block and group sizes. `CInv` counts, for each counter, the works and
  the functions in progress that will decrement it (`Exact`), says that each of them refers to a
  counter that is still there (`OwnersLive`) and which functions have one (`CountersNamed`). That
  the counter of a function that returns goes with nobody left who refers to it is the point: a
  function comes to its end only where its counter is 0 (`Settled`), from where it pushes nothing
  more, and whoever referred to the counter would have been counted in it. One that was called
  owes nothing and has no counter of another, but for `divide_sort`, which hands out the one of the
  `parallel_sort` right below it (`SortAwaits`). The `son_counter` of `split_range` starts with 1,
  which the function owes itself until the work it pushes owes it.
* ReadReader, in `FileProofs`: `StaysWithinBuffer`, `WindowsRetained`, `DeliversStream` (the safety
  part of the refinement of `ChunkStream`). `IInv` says where the buffer stands for what `from` is
  (`Placed`), what a call has read so far (`InCall`) and which bytes lie where (`Contents`), as long
  as no error has been dropped.
* RawWrites, in `FileProofs` as well: `WritesRight` (`OutputRight`). `RawInv` says which stages a
  benchmark goes through (`Stages`), which tasks the pool has in each of them (`RawPhases`), and what
  each task leaves behind: the segment it has loaded (`LoadedUpTo`, `ReadUpTo`) or stored
  (`StoredUpTo`, `StoreWritten`, `FileCopied`). When `wait_all` returns, every task of the phase is
  done (`AllDone`), and the segments of the tasks are all there is (`RowOf`). Main's own writes go on
  where they stopped, or one byte before (`MemoryWritten`). For `RandomWriteSortedTask` the heart is
  that `tuples_by_row` is the inverse of the sorted order, which exists by counting (`EveryRow`).
* `ASyncReaderProofs`: `WindowsApart`, `FreedAfterLast`, `SharedRetained`, `DeliversStream` (the
  safety part of `ImplementsStream`, for a chunk size that is not 0: with 0 the run
  `async_reader_zero` refutes it). `IInv` says where the two windows stand for what `from` is, which
  bytes of the segment each of them holds, and how far the kernel has got with the one it fills.
* `KWayMergeProofs`: `TypeCorrect`, `SortedOutput`, `EachTupleOnce`, `QueueIsStable`,
  `MergeSorts` (the safety part of the refinement of `SortedStream`). `NextOf(r)`, how many
  tuples of run r are written, is what its window and file have delivered less what the
  window still holds. The output is exactly the tuples below it (`OutputOK`), none is greater
  than a next tuple (`OrderOK`), and every run that has a next tuple is in the queue
  (`QueueOK`), so the least element of the queue is a least one of all that remain.

* `ExternalSortProofs`: `TasksApart`, `RunsAreSorted` for `RunFormation`; `ExternalSortSorts` (the
  safety part of `SortsFile`), `SortTasksApart`, `SortRunsSorted` for the whole. Places of a phase
  are numbers `slot * share + k` with `k < share`, different for different tasks and together all
  there are (`SegmentsApart`, `SegmentOf`). `IInv` adds that the pool holds tasks of the current
  phase only and none between the phases (`Phases`), and what every task has left behind in the
  steps it has made (`LoadedUpTo`, `StoredUpTo`), so that the arrays are full when `wait_all`
  returns. `ExternalSortSorts` is the theorem the others lead to: the program writes a least tuple of
  those of the input file that are left, and stops only when none is. `SortInv` is the
  invariant of run formation, with the merge untouched before the last run is stored and
  the invariant of `KWayMergeProofs` from then on, instantiated with the runs the tasks have
  stored. A run is as long as its chunk and has no tuple twice, so it has every tuple
  (`EveryTuple`, by counting), and what is true of places in runs is true of the file.
* `ParasortProofs`: `ScatteredApart` (`Partitioned`), `ListSorted` (`ResultSorted`). The cells of
  `bucket`, bucket by bucket and in each thread by thread, are in one order of rank. A count is
  the cardinality of the set of elements seen, the sums that `map` is made of are cardinalities
  of unions, so each cell's slots begin where those before it end (`Start`) and the scatter sends
  every element to a place of its own (`Target`). Sums are by induction on the rank (`Least`).
* MergeKernels, in `ParasortProofs` as well: `MergesRight` (`MergeRight`), for any two sequences
  of keys in order, of any lengths, any of the four merges and any `MIN_CHECK`. `MergeInv` says
  how many elements of x and of y have been taken, that these and no others are the result so far,
  in order (`Written`), that none of the others comes before them (`Ahead`), and that the others
  still lie where x and y are read (`UnreadX`, `UnreadY`). The last is what a merge over its own
  memory could get wrong, and follows from where `out` is (`Pointing`): while `src1` or `rng1` is
  filled it is TookX + TookY places from the beginning, below y and below what `aux` or `rng2` has
  left, and from then on `y = out + (end_x - x)`: the gap before y is as long as what is left of
  x. That equality is why `merge_half` may start where the loop before it stopped.
* `HistogramProofs`: `WindowsMapped` (`MappedExactly`), `CountsAllTuples` (`HistogramRight`). A counter
  of task i is the number of tuples of its partition that i has passed (`Counters`), and nobody
  else writes to it (`Digits`: `i * N_PARTITIONS + p` determines i and p). A window lies in its
  segment, in whole tuples (`Windows`); its mapping has the pages of its bytes and no other
  (`Pages`). A fold over counts is the size of the union of what they count (`FoldCounts`).
* `SequentialProofs` has four parts, each with an invariant of its own.
  * BufferringWriter: `TypeCorrect`, `BytesInPlace`, `NothingLost`, `FileIsStable`. `IInv` adds that
    the buffer is the tail of the stream and how far a flush has got.
  * TaskQueue: `ListStaysIntact`, `ListIsFifo`, for any memory and any tasks. `LTyped` and
    `ListIntact` together are inductive. `n_tasks` is the length of the list, so `insert` looks at
    `tail` only when there is a node, and that is the last one.
  * RangePartition: `RangesFound` (`IndexRight`), for any number of keys and any sorted delimiters.
    `RangeInv` says which keys the registers hold (`RangeSteps`), what the comparisons on the way
    down the tree have chosen (`WayDown`), and that every index stored is its key's place among
    the delimiters (`PlacesRight`). That the bit of lane j is the comparison with delimiter j is
    `BitsOfPacked`, that the way down ends at the key's place `IndexIsPlace`.
  * PdqSort: `SearchesStayInside` (`InBounds`), `SortsRight` (`SortRight`), for any keys, any threshold
    of 4 or more and any limits. `SortInv` says of the stack of loops that their ranges follow one
    another (`Stacked`) and that everything before, between and behind them is in place (`Settled`):
    nothing in a range is less than what is before it, and nothing greater than what is behind it,
    which is what `leftmost = false` stands for. While a partition is under way it says what will
    stop each search: at first an element the median of three has put there (`Stopped`), then the
    one just exchanged (`RightReady`, `LeftReady`, `DivideReady`); `PivotLeast` is why
    `partition_left` may take what equals the pivot. `Divisible` is the same for `mid9`'s median of
    medians. Every step only exchanges elements of one range (`Shuffled`), so the array is the one
    given under some bijection, and every key occurs as often as before (by counting).

In the run `merge`, `ImplementsSort` stands for what `SortedOutput` and `EachTupleOnce` say.

Induction over numbers goes through the library's well-founded induction (`WFMin`: a set of
numbers has a least element, here `Least`), which needs no operator as a parameter.
`PowersAssumption` of `Histogram` states of four powers of two that they are positive numbers, as
the provers know nothing of `^`.

Only model-checked: everything that must eventually happen (liveness under fairness is out of the
prover's reach), and `NoRace` and `ResultSorted` of `BlockIndirectSort`: they need what each of
the nested functions has done to its part of `index` and of the array, and recursive merges of
any length, which is induction over data. The theorems about the sort
rest on `TaskExecutor` for the pool, on `ReadReader` and `BufferringWriter` for the system calls, and on
`block_indirect_sort` and the heap of `std::priority_queue` doing what they are modelled to do.

## 6. Not modelled

* ColumnStoreBWBenchmark stops with `exit` before it sorts, so `RandomReadSortedTask` is never added;
  no file includes `ColumnStoreToDisk.h`.
* SequentialReadHistoBenchmark: with the default `CHUNK_SIZE` its ASyncReader overruns its
  buffer (run `async_reader_zero`).
* `main`, `Constants`, `Utils`, `Timer`: dispatch, configuration and measuring. Their values
  are the constants and assumptions of the models.
* Boost: `include/libs/boost` is nine tenths of all lines here, and most of them are `config`,
  `type_traits`, `core` and `utility`: macros and templates that the compiler evaluates,
  with neither state nor behaviour. Of Boost.Sort, what this program does not instantiate or call:
  the branchless partition, `merge_construct`, `merge_half_backward`, `merge_contiguous`,
  `merge_circular`, `circular_buffer`. Memory is always available (`bk.error` stays false), so the
  branches behind it are left out; and so are those no caller reaches: a `split_range` of few
  blocks, `merge_blocks` with an empty side, `cut_range` of few blocks. `std::make_heap` and
  `std::sort_heap`, to which pdqsort resorts, sort.
* `check_flushable`, `find_flushable` and `print_key` of MergeBenchmark: never called.
* `posix_fadvise`, `fallocate`, pinning threads to cores: they change no result.
* Sizes that do not divide evenly in run formation: tuples would be cut or lost; ruled out by
  `RunAssumption` and listed as a hazard.

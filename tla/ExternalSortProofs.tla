------------------------- MODULE ExternalSortProofs -------------------------
(***************************************************************************)
(* Run formation is free of data races and leaves sorted runs, and         *)
(* MergeBenchmark::run as a whole sorts the file, for any number of        *)
(* chunks, threads and tasks, any sizes that divide, any keys and any      *)
(* interleaving of the threads.                                            *)
(*                                                                         *)
(* While the runs are formed the merge has not begun and the invariant of  *)
(* run formation (IInv) holds; from then on that of KWayMergeProofs does,  *)
(* too, of the runs that lie in memory and in the temporary files.  The    *)
(* runs hold every tuple of the file exactly once (Tuple is a bijection),  *)
(* so that what the merge does to places of runs it does to the file.      *)
(***************************************************************************)
EXTENDS ExternalSort, Integers, SequenceTheorems, FunctionTheorems,
        FiniteSetTheorems, TLAPS

(***************************************************************************)
(* Run formation.                                                          *)
(***************************************************************************)

(* The tasks main adds in the phase it is in. *)
InPhase(t) ==
  /\ t.run = run
  /\ \/ pc = "load" /\ t.job = "load"
     \/ pc = "store" /\ t.job \in {"write", "prep"}

(* The tasks main adds later. *)
Later(t) ==
  \/ t.run > run
  \/ t.run = run /\ pc \in {"load", "sort"} /\ t.job # "load"

(* The task main adds in place i of a phase. *)
PhaseTask(i) ==
  IF pc = "load" THEN Load(run, i)
  ELSE IF i < IOThreads THEN Write(run, i) ELSE Prep(run, i - IOThreads)

PhaseSize == IF pc = "load" THEN NThreads ELSE IOThreads + MemThreads

Places == File \cup {None}

Types ==
  /\ input \in [File -> Keys]
  /\ pc \in {"load", "sort", "store", "merge"}
  /\ run \in Nat /\ added \in Nat
  /\ IF pc = "merge" THEN run = NChunks ELSE run \in Chunks
  /\ buffer \in [Rows -> Places]
  /\ tuples \in [Rows -> [key : Nat, row : Rows]]
  /\ merge_buffer \in [Chunks -> [Prefix -> Places]]
  /\ temp \in [Chunks -> [Residue -> Places]]
  /\ progress \in [Tasks -> Nat]
  /\ pending \in Seq(Tasks)
  /\ executing \subseteq Tasks /\ done \subseteq Tasks

(* Only tasks of this phase are with the pool, none between the phases; main
   waits when it has added them all; who is done has made every step, and who
   comes later none. *)
Phases ==
  /\ \A t \in Pool!Elements(pending) \cup executing : InPhase(t)
  /\ pc \in {"sort", "merge"} => Pool!Quiet
  /\ client = "waiting" => pc \in {"load", "store"} /\ added = PhaseSize
  /\ pc \in {"load", "store"} =>
       \A i \in 0..(added - 1) : i < PhaseSize => PhaseTask(i) \in Pool!Known
  /\ \A t \in done : progress[t] = Steps(t)
  /\ \A t \in Tasks : progress[t] <= Steps(t)
  /\ \A t \in Tasks : Later(t) => progress[t] = 0

(* The i-th tuple of chunk r, and its entry in the column store. *)
TupleAt(r, i) == r * ChunkTuples + i
Entry(i) == [key |-> input[TupleAt(run, i)], row |-> i]

(* What the steps of a loading task leave behind. *)
LoadedUpTo(t) ==
  \A k \in 0..(segment_size - 1) :
    /\ k < progress[t] =>
         buffer[t.slot * segment_size + k]
           = TupleAt(run, t.slot * segment_size + k)
    /\ k + segment_size < progress[t] =>
         tuples[t.slot * segment_size + k] = Entry(t.slot * segment_size + k)

(* What those of a storing task do. *)
StoredUpTo(t) ==
  \A k \in 0..(Share(t) - 1) :
    k < progress[t] =>
      IF t.job = "write"
      THEN temp[run][t.slot * Share(t) + k]
             = TupleAt(run, tuples[BufferTuples + (t.slot * Share(t) + k)].row)
      ELSE merge_buffer[run][t.slot * Share(t) + k]
             = TupleAt(run, tuples[t.slot * Share(t) + k].row)

ChunkLoaded == \A i \in Rows : buffer[i] = TupleAt(run, i)

ColumnStoreFilled == \A i \in Rows : tuples[i] = Entry(i)

ColumnStoreSorted ==
  /\ \A i \in Rows : tuples[i].key = input[TupleAt(run, tuples[i].row)]
  /\ \A i, j \in Rows : i # j => tuples[i].row # tuples[j].row
  /\ \A i, j \in Rows : i < j => tuples[i].key <= tuples[j].key

Contents ==
  /\ pc = "load" =>
       \A t \in Tasks : t.run = run /\ t.job = "load" => LoadedUpTo(t)
  /\ pc \in {"sort", "store"} => ChunkLoaded
  /\ pc = "sort" => ColumnStoreFilled
  /\ pc = "store" =>
       /\ ColumnStoreSorted
       /\ \A t \in Tasks : t.run = run /\ t.job # "load" => StoredUpTo(t)

IInv == Types /\ Phases /\ Contents /\ RunsSorted

-----------------------------------------------------------------------------
(* Segments of s elements. *)

LEMMA Exact ==
  ASSUME NEW a \in Nat, NEW n \in Nat \ {0}, a % n = 0
  PROVE  a \div n \in Nat /\ n * (a \div n) = a
<1>1. a \div n \in Int /\ a = n * (a \div n) + (a % n)
  OBVIOUS
<1>2. a \div n >= 0
  BY <1>1
<1> QED BY <1>1, <1>2

LEMMA Below ==
  ASSUME NEW p \in Nat, NEW q \in Nat, NEW s \in Nat, p < q
  PROVE  p * s + s <= q * s
<1>1. PICK d \in Nat : q = p + 1 + d
  <2>1. q - p - 1 \in Nat /\ q = p + 1 + (q - p - 1)
    OBVIOUS
  <2> QED BY <2>1
<1>2. q * s = p * s + s + d * s /\ d * s \in Nat /\ p * s \in Nat
  BY <1>1, Z3
<1> QED BY <1>2

(* The k-th element of segment p lies among all of them, *)
LEMMA InSegments ==
  ASSUME NEW n \in Nat, NEW s \in Nat, NEW p \in 0..(n - 1), NEW k \in 0..(s - 1)
  PROVE  p * s + k \in 0..(n * s - 1)
<1>1. p \in Nat /\ p < n /\ p * s \in Nat /\ n * s \in Nat
  OBVIOUS
<1>2. p * s + s <= n * s
  BY <1>1, Below
<1> QED BY <1>1, <1>2

(* in no other segment, *)
LEMMA SegmentsApart ==
  ASSUME NEW s \in Nat, NEW p \in Nat, NEW q \in Nat, p # q,
         NEW k \in 0..(s - 1), NEW l \in 0..(s - 1)
  PROVE  p * s + k # q * s + l
<1>1. p * s \in Nat /\ q * s \in Nat
  OBVIOUS
<1>2. CASE p < q
  BY <1>1, <1>2, Below
<1>3. CASE q < p
  <2>1. q * s + s <= p * s
    BY <1>3, Below
  <2> QED BY <1>1, <2>1
<1> QED BY <1>2, <1>3

(* and every element in one. *)
LEMMA SegmentOf ==
  ASSUME NEW n \in Nat, NEW s \in Nat, NEW i \in 0..(n * s - 1)
  PROVE  \E p \in 0..(n - 1), k \in 0..(s - 1) : i = p * s + k
<1>1. s > 0
  OBVIOUS
<1>2. /\ i \div s \in Int /\ i % s \in 0..(s - 1) /\ i = s * (i \div s) + (i % s)
  BY <1>1
<1>3. i \div s >= 0
  BY <1>1
<1>4. i \div s <= n - 1
  <2>1. SUFFICES ASSUME i \div s >= n PROVE FALSE
    BY <1>2
  <2>2. s * (i \div s) >= n * s
    BY <2>1, <1>1, <1>2
  <2> QED BY <2>2, <1>2
<1>5. i \div s \in 0..(n - 1)
  BY <1>2, <1>3, <1>4
<1>6. i = (i \div s) * s + (i % s)
  BY <1>2
<1> QED BY <1>2, <1>5, <1>6

LEMMA Sizes ==
  /\ NChunks \in Nat \ {0} /\ ChunkTuples \in Nat \ {0} /\ BufferTuples \in Nat
  /\ BufferTuples <= ChunkTuples
  /\ NThreads \in Nat \ {0} /\ IOThreads \in Nat \ {0} /\ MemThreads \in Nat \ {0}
  /\ segment_size \in Nat \ {0} /\ NThreads * segment_size = ChunkTuples
  /\ local_buffer_residue_size \in Nat
  /\ IOThreads * local_buffer_residue_size = ChunkTuples - BufferTuples
  /\ local_merge_buffer_size \in Nat
  /\ MemThreads * local_merge_buffer_size = BufferTuples
<1>1. /\ NChunks \in Nat \ {0} /\ ChunkTuples \in Nat \ {0} /\ BufferTuples \in Nat
      /\ BufferTuples <= ChunkTuples
      /\ NThreads \in Nat \ {0} /\ IOThreads \in Nat \ {0} /\ MemThreads \in Nat \ {0}
      /\ ChunkTuples - BufferTuples \in Nat
  BY RunAssumption
<1>2. segment_size \in Nat /\ NThreads * segment_size = ChunkTuples
  BY <1>1, RunAssumption, Exact DEF segment_size
<1>3. segment_size # 0
  BY <1>1, <1>2
<1>4. /\ local_buffer_residue_size \in Nat
      /\ IOThreads * local_buffer_residue_size = ChunkTuples - BufferTuples
  BY <1>1, RunAssumption, Exact DEF local_buffer_residue_size
<1>5. /\ local_merge_buffer_size \in Nat
      /\ MemThreads * local_merge_buffer_size = BufferTuples
  BY <1>1, RunAssumption, Exact DEF local_merge_buffer_size
<1> QED BY <1>1, <1>2, <1>3, <1>4, <1>5

-----------------------------------------------------------------------------
(* Tasks. *)

LEMMA TaskShape ==
  ASSUME NEW t \in Tasks
  PROVE  /\ t.run \in Chunks /\ t.slot \in Nat
         /\ t.job \in {"load", "write", "prep"}
         /\ t.job = "load" => t = Load(t.run, t.slot) /\ t.slot \in 0..(NThreads - 1)
         /\ t.job = "write" => t = Write(t.run, t.slot) /\ t.slot \in 0..(IOThreads - 1)
         /\ t.job = "prep" => t = Prep(t.run, t.slot) /\ t.slot \in 0..(MemThreads - 1)
<1>1. CASE \E r \in Chunks, i \in 0..(NThreads - 1) : t = Load(r, i)
  BY <1>1, Sizes DEF Load
<1>2. CASE \E r \in Chunks, i \in 0..(IOThreads - 1) : t = Write(r, i)
  BY <1>2, Sizes DEF Write
<1>3. CASE \E r \in Chunks, i \in 0..(MemThreads - 1) : t = Prep(r, i)
  BY <1>3, Sizes DEF Prep
<1> QED BY <1>1, <1>2, <1>3 DEF Tasks

LEMMA SlotsDiffer ==
  ASSUME NEW t \in Tasks, NEW u \in Tasks, t # u, t.run = u.run, t.job = u.job
  PROVE  t.slot # u.slot
BY TaskShape

LEMMA Shares ==
  ASSUME NEW t \in Tasks
  PROVE  /\ Share(t) \in Nat /\ Steps(t) \in Nat
         /\ t.job = "load" => Share(t) = segment_size /\ Steps(t) = 2 * segment_size
         /\ t.job = "write" => /\ Share(t) = local_buffer_residue_size
                               /\ Steps(t) = Share(t)
         /\ t.job = "prep" => /\ Share(t) = local_merge_buffer_size
                              /\ Steps(t) = Share(t)
<1>1. CASE t.job = "load"
  BY <1>1, Sizes DEF Share, Steps
<1>2. CASE t.job = "write"
  BY <1>2, Sizes DEF Share, Steps
<1>3. CASE t.job = "prep"
  BY <1>3, Sizes DEF Share, Steps
<1> QED BY <1>1, <1>2, <1>3, TaskShape

(* Which of its tuples a task is at. *)
Nth(t) == IF t.job = "load" /\ ~Reading(t) THEN progress[t] - segment_size
          ELSE progress[t]

LEMMA Remainder ==
  ASSUME NEW w \in Nat, NEW a \in Nat, a < 2 * w
  PROVE  a % w = IF a < w THEN a ELSE a - w
OBVIOUS

LEMMA AtPlace ==
  ASSUME NEW t \in Tasks, progress[t] \in Nat, progress[t] < Steps(t)
  PROVE  /\ Nth(t) \in 0..(Share(t) - 1)
         /\ Place(t) = t.slot * Share(t) + Nth(t)
         /\ t.job = "load" => Place(t) \in Rows
         /\ t.job = "write" => /\ Place(t) \in Residue
                               /\ Source(t) = BufferTuples + Place(t)
                               /\ Source(t) \in Rows
         /\ t.job = "prep" => /\ Place(t) \in Prefix
                              /\ Source(t) = Place(t) /\ Source(t) \in Rows
<1>1. /\ Share(t) \in Nat /\ t.slot \in Nat /\ t.slot * Share(t) \in Nat
  BY Shares, TaskShape
<1>2. /\ progress[t] < 2 * Share(t) /\ Share(t) # 0
      /\ Nth(t) = IF progress[t] < Share(t) THEN progress[t]
                  ELSE progress[t] - Share(t)
  BY <1>1, Shares, TaskShape DEF Nth, Reading
<1>3. progress[t] % Share(t) = Nth(t)
  BY <1>1, <1>2, Remainder
<1>4. Nth(t) \in 0..(Share(t) - 1)
  BY <1>1, <1>2
<1>5. Place(t) = t.slot * Share(t) + Nth(t)
  BY <1>3 DEF Place
<1>6. ASSUME t.job = "load" PROVE Place(t) \in Rows
  <2>1. t.slot \in 0..(NThreads - 1) /\ Share(t) = segment_size
    BY <1>6, TaskShape, Shares
  <2>2. Place(t) \in 0..(NThreads * segment_size - 1)
    BY <1>4, <1>5, <2>1, Sizes, InSegments
  <2> QED BY <2>2, Sizes DEF Rows
<1>7. ASSUME t.job = "write"
      PROVE  Place(t) \in Residue /\ Source(t) = BufferTuples + Place(t)
             /\ Source(t) \in Rows
  <2>1. t.slot \in 0..(IOThreads - 1) /\ Share(t) = local_buffer_residue_size
    BY <1>7, TaskShape, Shares
  <2>2. Place(t) \in 0..(IOThreads * local_buffer_residue_size - 1)
    <3>1. IOThreads \in Nat /\ local_buffer_residue_size \in Nat
      BY Sizes
    <3> QED BY <1>4, <1>5, <2>1, <3>1, InSegments
  <2>3. Place(t) \in Residue
    BY <2>2, Sizes DEF Residue
  <2>4. Nth(t) = progress[t]
    BY <1>7 DEF Nth
  <2>5. Source(t) = BufferTuples + Place(t)
    BY <1>1, <1>5, <1>7, <2>1, <2>4, Sizes DEF Source, ResidueOffset
  <2> QED BY <2>3, <2>5, Sizes DEF Residue, Rows
<1>8. ASSUME t.job = "prep"
      PROVE  Place(t) \in Prefix /\ Source(t) = Place(t) /\ Source(t) \in Rows
  <2>1. t.slot \in 0..(MemThreads - 1) /\ Share(t) = local_merge_buffer_size
    BY <1>8, TaskShape, Shares, Sizes
  <2>2. Place(t) \in 0..(MemThreads * local_merge_buffer_size - 1)
    <3>1. MemThreads \in Nat /\ local_merge_buffer_size \in Nat
      BY Sizes
    <3> QED BY <1>4, <1>5, <2>1, <3>1, InSegments
  <2>3. Place(t) \in Prefix /\ Place(t) \in Rows
    BY <2>1, <2>2, Sizes DEF Prefix, Rows
  <2> QED BY <1>8, <2>3 DEF Source
<1> QED BY <1>4, <1>5, <1>6, <1>7, <1>8

(* Two tasks of a phase are never at the same place. *)
LEMMA PlacesApart ==
  ASSUME NEW t \in Tasks, NEW u \in Tasks, t # u, t.run = u.run, t.job = u.job,
         progress[t] \in Nat, progress[t] < Steps(t),
         progress[u] \in Nat, progress[u] < Steps(u)
  PROVE  Place(t) # Place(u)
<1>1. Share(t) = Share(u) /\ Share(t) \in Nat /\ t.slot \in Nat /\ u.slot \in Nat
  BY Shares, TaskShape
<1>2. t.slot # u.slot
  BY SlotsDiffer
<1>3. Nth(t) \in 0..(Share(t) - 1) /\ Nth(u) \in 0..(Share(t) - 1)
  BY <1>1, AtPlace
<1>4. t.slot * Share(t) + Nth(t) # u.slot * Share(t) + Nth(u)
  BY <1>1, <1>2, <1>3, SegmentsApart
<1> QED BY <1>1, <1>4, AtPlace

LEMMA InFile ==
  ASSUME NEW r \in Chunks, NEW i \in Rows
  PROVE  TupleAt(r, i) \in File /\ TupleAt(r, i) \in Nat
<1>1. r * ChunkTuples + i \in 0..(NChunks * ChunkTuples - 1)
  BY Sizes, InSegments DEF Chunks, Rows
<1> QED BY <1>1 DEF TupleAt, File

-----------------------------------------------------------------------------
(* The pool. *)

LEMMA SubmitKnown ==
  ASSUME pending \in Seq(Tasks), NEW t \in Tasks, Pool!Submit(t)
  PROVE  /\ pending' \in Seq(Tasks)
         /\ Pool!Elements(pending') = Pool!Elements(pending) \cup {t}
         /\ Pool!Known' = Pool!Known \cup {t}
         /\ client = "open" /\ UNCHANGED <<executing, done, client>>
<1>1. /\ pending' = Append(pending, t) /\ client = "open"
      /\ UNCHANGED <<executing, done, client>>
  BY DEF Pool!Submit
<1>2. pending' \in Seq(Tasks)
  BY <1>1
<1>3. /\ Len(pending') = Len(pending) + 1 /\ Len(pending) \in Nat
      /\ \A i \in 1..Len(pending) : pending'[i] = pending[i]
      /\ pending'[Len(pending) + 1] = t
  BY <1>1
<1>4. Pool!Elements(pending') = Pool!Elements(pending) \cup {t}
  <2>1. ASSUME NEW i \in 1..Len(pending')
        PROVE  pending'[i] \in Pool!Elements(pending) \cup {t}
    <3>1. i \in 1..Len(pending) \/ i = Len(pending) + 1
      BY <1>3
    <3> QED BY <1>3, <3>1 DEF Pool!Elements
  <2>2. ASSUME NEW i \in 1..Len(pending)
        PROVE  pending[i] \in Pool!Elements(pending')
    <3>1. i \in 1..Len(pending') /\ pending'[i] = pending[i]
      BY <1>3
    <3> QED BY <3>1 DEF Pool!Elements
  <2>3. t \in Pool!Elements(pending')
    <3>1. Len(pending) + 1 \in 1..Len(pending')
      BY <1>3
    <3> QED BY <1>3, <3>1 DEF Pool!Elements
  <2> QED BY <2>1, <2>2, <2>3 DEF Pool!Elements
<1> QED BY <1>1, <1>2, <1>4 DEF Pool!Known

LEMMA StartKnown ==
  ASSUME pending \in Seq(Tasks), executing \subseteq Tasks, Pool!Start
  PROVE  /\ pending' \in Seq(Tasks) /\ executing' \subseteq Tasks
         /\ Pool!Elements(pending') \cup executing'
              = Pool!Elements(pending) \cup executing
         /\ Pool!Known' = Pool!Known
         /\ ~Pool!Quiet /\ UNCHANGED <<done, client>>
<1>1. /\ pending # <<>> /\ pending' = Tail(pending)
      /\ executing' = executing \cup {Head(pending)}
      /\ UNCHANGED <<done, client>>
  BY DEF Pool!Start
<1>2. /\ pending' \in Seq(Tasks) /\ Head(pending) = pending[1] /\ Head(pending) \in Tasks
      /\ Len(pending) \in Nat /\ Len(pending) > 0
      /\ Len(pending') = Len(pending) - 1
      /\ \A i \in 1..Len(pending') : pending'[i] = pending[i + 1]
  BY <1>1
<1>3. Pool!Elements(pending) = Pool!Elements(pending') \cup {Head(pending)}
  <2>1. ASSUME NEW i \in 1..Len(pending')
        PROVE  pending'[i] \in Pool!Elements(pending)
    <3>1. i + 1 \in 1..Len(pending) /\ pending'[i] = pending[i + 1]
      BY <1>2
    <3> QED BY <3>1 DEF Pool!Elements
  <2>2. ASSUME NEW i \in 1..Len(pending)
        PROVE  pending[i] \in Pool!Elements(pending') \cup {Head(pending)}
    <3>1. CASE i = 1
      BY <1>2, <3>1
    <3>2. CASE i # 1
      <4>1. i - 1 \in 1..Len(pending') /\ (i - 1) + 1 = i
        BY <1>2, <3>2
      <4>2. pending'[i - 1] = pending[i]
        BY <1>2, <4>1
      <4> QED BY <4>1, <4>2 DEF Pool!Elements
    <3> QED BY <3>1, <3>2
  <2>3. Head(pending) \in Pool!Elements(pending)
    <3>1. 1 \in 1..Len(pending)
      BY <1>2
    <3> QED BY <1>2, <3>1 DEF Pool!Elements
  <2> QED BY <2>1, <2>2, <2>3 DEF Pool!Elements
<1>4. Pool!Elements(pending') \cup executing' = Pool!Elements(pending) \cup executing
  BY <1>1, <1>3
<1> QED BY <1>1, <1>2, <1>4 DEF Pool!Known, Pool!Quiet

LEMMA QuietEmpty ==
  ASSUME Pool!Quiet
  PROVE  Pool!Elements(pending) = {} /\ executing = {} /\ Pool!Known = done
<1>1. pending = <<>> /\ executing = {}
  BY DEF Pool!Quiet
<1>2. Len(pending) = 0
  BY <1>1
<1>3. Pool!Elements(pending) = {}
  BY <1>2 DEF Pool!Elements
<1> QED BY <1>1, <1>3 DEF Pool!Known

-----------------------------------------------------------------------------
(* Steps that leave the data alone. *)

LEMMA RunKept ==
  ASSUME NEW r \in Chunks, IsSortedRun(r), input' = input, temp'[r] = temp[r],
         merge_buffer'[r] = merge_buffer[r]
  PROVE  IsSortedRun(r)'
BY DEF IsSortedRun, Run

LEMMA DataSame ==
  ASSUME Contents, RunsSorted, UNCHANGED <<input, pc, run, data, progress>>
  PROVE  Contents' /\ RunsSorted'
<1>1. /\ input' = input /\ pc' = pc /\ run' = run /\ progress' = progress
      /\ buffer' = buffer /\ tuples' = tuples /\ merge_buffer' = merge_buffer
      /\ temp' = temp
  BY DEF data
<1>2. RunsSorted'
  BY <1>1, RunKept DEF RunsSorted
<1>3. ASSUME NEW t \in Tasks
      PROVE  /\ LoadedUpTo(t) => LoadedUpTo(t)'
             /\ StoredUpTo(t) => StoredUpTo(t)'
  BY <1>1 DEF LoadedUpTo, StoredUpTo, TupleAt, Entry
<1>4. /\ ChunkLoaded => ChunkLoaded'
      /\ ColumnStoreFilled => ColumnStoreFilled'
      /\ ColumnStoreSorted => ColumnStoreSorted'
  BY <1>1 DEF ChunkLoaded, ColumnStoreFilled, ColumnStoreSorted, TupleAt, Entry
<1>5. Contents'
  BY <1>1, <1>3, <1>4 DEF Contents
<1> QED BY <1>2, <1>5

LEMMA InitIInv == Init => IInv
<1> SUFFICES ASSUME Init PROVE IInv
  OBVIOUS
<1>1. Types
  BY Sizes, RunAssumption DEF Init, Types, Pool!XInit, Chunks, Rows, Places
<1>2. Pool!Quiet /\ done = {} /\ client = "open" /\ added = 0
  BY DEF Init, Pool!XInit, Pool!Quiet
<1>3. \A t \in Tasks : progress[t] = 0
  BY DEF Init
<1>4. Phases
  BY <1>2, <1>3, QuietEmpty, Shares DEF Phases
<1>5. Contents
  BY <1>3, Sizes DEF Init, Contents, LoadedUpTo
<1>6. RunsSorted
  BY DEF Init, RunsSorted, Chunks
<1> QED BY <1>1, <1>4, <1>5, <1>6 DEF IInv

-----------------------------------------------------------------------------
(* Main adds tasks and waits; the pool starts and ends them. *)

LEMMA PhasesKept ==
  ASSUME Types, Phases, Types', UNCHANGED <<pc, run, progress>>,
         \A t \in (Pool!Elements(pending) \cup executing)' : InPhase(t),
         pc \in {"sort", "merge"} => Pool!Quiet',
         (client = "waiting")' => pc \in {"load", "store"} /\ added' = PhaseSize,
         pc \in {"load", "store"} =>
           \A i \in 0..(added' - 1) : i < PhaseSize => PhaseTask(i) \in Pool!Known',
         \A t \in done' : progress[t] = Steps(t)
  PROVE  Phases'
<1>1. pc' = pc /\ run' = run /\ progress' = progress
  OBVIOUS
<1>2. \A t : InPhase(t)' <=> InPhase(t)
  BY <1>1 DEF InPhase
<1>3. \A t : Later(t)' <=> Later(t)
  BY <1>1 DEF Later
<1>4. PhaseSize' = PhaseSize /\ \A i : PhaseTask(i)' = PhaseTask(i)
  BY <1>1 DEF PhaseSize, PhaseTask
<1>5. \A t \in (Pool!Elements(pending) \cup executing)' : InPhase(t)'
  BY <1>2
<1>6. (pc \in {"sort", "merge"})' => Pool!Quiet'
  BY <1>1 DEF Phases
<1>7. (client = "waiting")' => (pc \in {"load", "store"})' /\ added' = PhaseSize'
  BY <1>1, <1>4
<1>8. (pc \in {"load", "store"})' =>
        \A i \in 0..(added' - 1) : i < PhaseSize' => PhaseTask(i)' \in Pool!Known'
  BY <1>1, <1>4
<1>9. \A t \in done' : progress'[t] = Steps(t)
  BY <1>1
<1>10. \A t \in Tasks : progress'[t] <= Steps(t)
  BY <1>1 DEF Phases
<1>11. \A t \in Tasks : Later(t)' => progress'[t] = 0
  BY <1>1, <1>3 DEF Phases
<1> QED BY <1>5, <1>6, <1>7, <1>8, <1>9, <1>10, <1>11 DEF Phases

LEMMA TypesKept ==
  ASSUME Types, pending' \in Seq(Tasks), executing' \subseteq Tasks,
         done' \subseteq Tasks, added' \in Nat, UNCHANGED <<input, pc, run, data, progress>>
  PROVE  Types'
BY DEF Types, data

LEMMA AddIInv ==
  ASSUME IInv, AddLoad \/ AddStore
  PROVE  IInv'
<1> DEFINE t == PhaseTask(added)
<1>1. /\ Types /\ Phases /\ Contents /\ RunsSorted
      /\ run \in Nat /\ added \in Nat /\ pending \in Seq(Tasks)
      /\ pc = "load" \/ pc = "store"
      /\ UNCHANGED <<input, pc, run, data, progress>> /\ added' = added + 1
  BY DEF IInv, Types, AddLoad, AddStore
<1>2. run \in Chunks
  BY <1>1 DEF Types
<1>3. t \in Tasks /\ InPhase(t) /\ Pool!Submit(t) /\ added < PhaseSize
  <2>1. CASE AddLoad
    <3>1. pc = "load" /\ added < NThreads /\ t = Load(run, added) /\ Pool!Submit(t)
      BY <2>1 DEF AddLoad, PhaseTask
    <3>2. t \in Tasks
      <4>1. added \in 0..(NThreads - 1)
        BY <1>1, <3>1, Sizes
      <4> QED BY <1>2, <3>1, <4>1 DEF Tasks
    <3> QED BY <3>1, <3>2 DEF InPhase, Load, PhaseSize
  <2>2. CASE AddStore
    <3>1. pc = "store" /\ added < IOThreads + MemThreads
          /\ StoreTask = t /\ Pool!Submit(t)
      BY <2>2 DEF AddStore, PhaseTask, StoreTask
    <3>2. CASE added < IOThreads
      <4>1. t = Write(run, added)
        BY <3>1, <3>2 DEF PhaseTask
      <4>2. added \in 0..(IOThreads - 1)
        BY <1>1, <3>2, Sizes
      <4>3. t \in Tasks
        BY <1>2, <4>1, <4>2 DEF Tasks
      <4> QED BY <3>1, <4>1, <4>3 DEF InPhase, Write, PhaseSize
    <3>3. CASE ~(added < IOThreads)
      <4>1. t = Prep(run, added - IOThreads)
        BY <3>1, <3>3 DEF PhaseTask
      <4>2. added - IOThreads \in 0..(MemThreads - 1)
        BY <1>1, <3>1, <3>3, Sizes
      <4>3. t \in Tasks
        BY <1>2, <4>1, <4>2 DEF Tasks
      <4> QED BY <3>1, <4>1, <4>3 DEF InPhase, Prep, PhaseSize
    <3> QED BY <3>2, <3>3
  <2> QED BY <2>1, <2>2
<1> HIDE DEF t
<1>4. /\ pending' \in Seq(Tasks)
      /\ Pool!Elements(pending') = Pool!Elements(pending) \cup {t}
      /\ Pool!Known' = Pool!Known \cup {t}
      /\ client = "open" /\ executing' = executing /\ done' = done /\ client' = client
  BY <1>1, <1>3, SubmitKnown
<1>5. Types'
  BY <1>1, <1>4, TypesKept DEF Types
<1>6. \A u \in Pool!Elements(pending') \cup executing' : InPhase(u)
  BY <1>1, <1>3, <1>4 DEF Phases
<1>7. ASSUME NEW i \in 0..(added' - 1), i < PhaseSize
      PROVE  PhaseTask(i) \in Pool!Known'
  <2>1. CASE i = added
    BY <1>4, <2>1 DEF t
  <2>2. CASE i # added
    <3>1. i \in 0..(added - 1)
      BY <1>1, <2>2
    <3> QED BY <1>1, <1>4, <1>7, <3>1 DEF Phases
  <2> QED BY <2>1, <2>2
<1>8. ~(pc \in {"sort", "merge"})
  BY <1>1
<1>9. Phases'
  BY <1>1, <1>4, <1>5, <1>6, <1>7, <1>8, PhasesKept DEF Phases
<1>10. Contents' /\ RunsSorted'
  BY <1>1, DataSame
<1> QED BY <1>5, <1>9, <1>10 DEF IInv


LEMMA WaitIInv ==
  ASSUME IInv, WaitAll
  PROVE  IInv'
<1>1. /\ Types /\ Phases /\ Contents /\ RunsSorted
      /\ UNCHANGED <<input, pc, run, data, progress>> /\ added' = added
      /\ pending' = pending /\ executing' = executing /\ done' = done
      /\ pc \in {"load", "store"} /\ added = PhaseSize
  <2>1. added' = added /\ UNCHANGED <<input, pc, run, data, progress>>
    BY DEF WaitAll, main
  <2>2. pending' = pending /\ executing' = executing /\ done' = done
    BY DEF WaitAll, Pool!Wait
  <2>3. pc \in {"load", "store"} /\ added = PhaseSize
    BY DEF WaitAll, PhaseSize
  <2> QED BY <2>1, <2>2, <2>3 DEF IInv
<1>2. Types'
  BY <1>1, TypesKept DEF Types
<1>3. Pool!Known' = Pool!Known
  BY <1>1 DEF Pool!Known, Pool!Elements
<1>4. \A t \in Pool!Elements(pending') \cup executing' : InPhase(t)
  BY <1>1 DEF Phases
<1>5. \A i \in 0..(added' - 1) : i < PhaseSize => PhaseTask(i) \in Pool!Known'
  BY <1>1, <1>3 DEF Phases
<1>6. Phases'
  BY <1>1, <1>2, <1>4, <1>5, PhasesKept DEF Phases
<1>7. Contents' /\ RunsSorted'
  BY <1>1, DataSame
<1> QED BY <1>2, <1>6, <1>7 DEF IInv

LEMMA StartIInv ==
  ASSUME IInv, StartTask
  PROVE  IInv'
<1>1. /\ Types /\ Phases /\ Contents /\ RunsSorted
      /\ UNCHANGED <<input, pc, run, data, progress>> /\ added' = added
      /\ Pool!Start /\ pending \in Seq(Tasks) /\ executing \subseteq Tasks
      /\ pc \in {"load", "sort", "store", "merge"}
  BY DEF IInv, Types, StartTask, main
<1>2. /\ pending' \in Seq(Tasks) /\ executing' \subseteq Tasks
      /\ Pool!Elements(pending') \cup executing' = Pool!Elements(pending) \cup executing
      /\ Pool!Known' = Pool!Known
      /\ ~Pool!Quiet /\ done' = done /\ client' = client
  BY <1>1, StartKnown
<1>3. Types'
  BY <1>1, <1>2, TypesKept DEF Types
<1>4. ~(pc \in {"sort", "merge"})
  BY <1>1, <1>2 DEF Phases
<1>5. \A t \in Pool!Elements(pending') \cup executing' : InPhase(t)
  BY <1>1, <1>2 DEF Phases
<1>6. (client = "waiting")' => pc \in {"load", "store"} /\ added' = PhaseSize
  BY <1>1, <1>2 DEF Phases
<1>7. pc \in {"load", "store"} =>
        \A i \in 0..(added' - 1) : i < PhaseSize => PhaseTask(i) \in Pool!Known'
  BY <1>1, <1>2 DEF Phases
<1>8. \A t \in done' : progress[t] = Steps(t)
  BY <1>1, <1>2 DEF Phases
<1>9. Phases'
  BY <1>1, <1>3, <1>4, <1>5, <1>6, <1>7, <1>8, PhasesKept
<1>10. Contents' /\ RunsSorted'
  BY <1>1, DataSame
<1> QED BY <1>3, <1>9, <1>10 DEF IInv

LEMMA FinishIInv ==
  ASSUME IInv, NEW t \in Tasks, FinishTask(t)
  PROVE  IInv'
<1>1. /\ Types /\ Phases /\ Contents /\ RunsSorted
      /\ UNCHANGED <<input, pc, run, data, progress>> /\ added' = added
      /\ progress[t] = Steps(t) /\ t \in executing
      /\ executing' = executing \ {t} /\ done' = done \cup {t}
      /\ pending' = pending /\ client' = client
      /\ pc \in {"load", "sort", "store", "merge"}
  BY DEF IInv, Types, FinishTask, main, Pool!Finish
<1>2. Types'
  BY <1>1, TypesKept DEF Types
<1>3. ~(pc \in {"sort", "merge"})
  BY <1>1 DEF Phases, Pool!Quiet
<1>4. Pool!Elements(pending') = Pool!Elements(pending) /\ Pool!Known' = Pool!Known
  BY <1>1 DEF Pool!Known, Pool!Elements
<1>5. \A u \in Pool!Elements(pending') \cup executing' : InPhase(u)
  BY <1>1, <1>4 DEF Phases
<1>6. (client = "waiting")' => pc \in {"load", "store"} /\ added' = PhaseSize
  BY <1>1 DEF Phases
<1>7. pc \in {"load", "store"} =>
        \A i \in 0..(added' - 1) : i < PhaseSize => PhaseTask(i) \in Pool!Known'
  BY <1>1, <1>4 DEF Phases
<1>8. \A u \in done' : progress[u] = Steps(u)
  BY <1>1 DEF Phases
<1>9. Phases'
  BY <1>1, <1>2, <1>3, <1>5, <1>6, <1>7, <1>8, PhasesKept
<1>10. Contents' /\ RunsSorted'
  BY <1>1, DataSame
<1> QED BY <1>2, <1>9, <1>10 DEF IInv

-----------------------------------------------------------------------------
(* The steps of a task. *)

LEMMA AdvancePhases ==
  ASSUME Types, Phases, NEW t \in Tasks, Advance(t)
  PROVE  /\ Phases'
         /\ input' = input /\ pc' = pc /\ run' = run
         /\ added' = added /\ pending' = pending /\ executing' = executing
         /\ done' = done /\ client' = client
         /\ progress' = [progress EXCEPT ![t] = progress[t] + 1]
         /\ progress \in [Tasks -> Nat] /\ progress' \in [Tasks -> Nat]
         /\ progress[t] < Steps(t) /\ progress[t] \in Nat
         /\ progress'[t] = progress[t] + 1
         /\ \A u \in Tasks : u # t => progress'[u] = progress[u]
         /\ InPhase(t) /\ run \in Chunks /\ pc \in {"load", "store"}
<1>1. /\ t \in executing /\ progress[t] < Steps(t)
      /\ progress' = [progress EXCEPT ![t] = progress[t] + 1]
      /\ input' = input /\ pc' = pc /\ run' = run /\ added' = added
      /\ pending' = pending /\ executing' = executing
      /\ done' = done /\ client' = client
  BY DEF Advance, main, pool
<1>2. progress \in [Tasks -> Nat] /\ done \subseteq Tasks
  BY DEF Types
<1>3. /\ progress[t] \in Nat /\ progress'[t] = progress[t] + 1
      /\ progress' \in [Tasks -> Nat]
      /\ \A u \in Tasks : u # t => progress'[u] = progress[u]
  BY <1>1, <1>2
<1>4. InPhase(t) /\ pc \in {"load", "store"}
  BY <1>1 DEF Phases, InPhase
<1>5. run \in Chunks
  BY <1>4 DEF Types
<1>6. ~Later(t)
  BY <1>4, TaskShape, Sizes, <1>5 DEF InPhase, Later, Chunks
<1>7. t \notin done
  BY <1>1, <1>3, Shares DEF Phases
<1>8. (\A u : InPhase(u)' <=> InPhase(u)) /\ (\A u : Later(u)' <=> Later(u))
  BY <1>1 DEF InPhase, Later
<1>9. /\ Pool!Elements(pending)' = Pool!Elements(pending)
      /\ Pool!Known' = Pool!Known /\ Pool!Quiet' = Pool!Quiet
  BY <1>1 DEF Pool!Known, Pool!Elements, Pool!Quiet
<1>10. PhaseSize' = PhaseSize /\ \A i : PhaseTask(i)' = PhaseTask(i)
  BY <1>1 DEF PhaseSize, PhaseTask
<1>11. \A u \in (Pool!Elements(pending) \cup executing)' : InPhase(u)'
  BY <1>1, <1>8, <1>9 DEF Phases
<1>12. /\ (pc \in {"sort", "merge"})' => Pool!Quiet'
       /\ (client = "waiting")' => (pc \in {"load", "store"})' /\ added' = PhaseSize'
  BY <1>1, <1>9, <1>10 DEF Phases
<1>13. (pc \in {"load", "store"})' =>
         \A i \in 0..(added' - 1) : i < PhaseSize' => PhaseTask(i)' \in Pool!Known'
  BY <1>1, <1>9, <1>10 DEF Phases
<1>14. \A u \in done' : progress'[u] = Steps(u)
  BY <1>1, <1>2, <1>3, <1>7 DEF Phases
<1>15. \A u \in Tasks : progress'[u] <= Steps(u)
  <2>1. progress'[t] <= Steps(t)
    BY <1>1, <1>3, Shares
  <2> QED BY <1>3, <2>1 DEF Phases
<1>16. \A u \in Tasks : Later(u)' => progress'[u] = 0
  BY <1>3, <1>6, <1>8 DEF Phases
<1>17. Phases'
  BY <1>11, <1>12, <1>13, <1>14, <1>15, <1>16 DEF Phases
<1> QED BY <1>1, <1>2, <1>3, <1>4, <1>5, <1>17


LEMMA RunsKept ==
  ASSUME RunsSorted, UNCHANGED <<input, run>>,
         \A r \in Chunks : r < run => temp'[r] = temp[r] /\ merge_buffer'[r] = merge_buffer[r]
  PROVE  RunsSorted'
<1>1. input' = input /\ run' = run
  OBVIOUS
<1>2. ASSUME NEW r \in Chunks, r < run
      PROVE  IsSortedRun(r)'
  BY <1>1, <1>2, RunKept DEF RunsSorted
<1> QED BY <1>1, <1>2 DEF RunsSorted

LEMMA LoadSlot ==
  ASSUME NEW t \in Tasks, t.job = "load", NEW k \in 0..(segment_size - 1)
  PROVE  t.slot * segment_size + k \in Rows
<1>1. t.slot \in 0..(NThreads - 1)
  BY TaskShape
<1>2. t.slot * segment_size + k \in 0..(NThreads * segment_size - 1)
  <2>1. NThreads \in Nat /\ segment_size \in Nat
    BY Sizes
  <2> QED BY <1>1, <2>1, InSegments
<1> QED BY <1>2, Sizes DEF Rows

LEMMA ReadIInv ==
  ASSUME IInv, NEW t \in Tasks, ReadTuple(t)
  PROVE  IInv'
<1>1. /\ Types /\ Phases /\ Contents /\ RunsSorted
      /\ Advance(t) /\ t.job = "load" /\ progress[t] < segment_size
      /\ buffer' = [buffer EXCEPT ![Place(t)] = FilePosition(t)]
      /\ tuples' = tuples /\ merge_buffer' = merge_buffer /\ temp' = temp
  BY DEF IInv, ReadTuple, Reading
<1>2. /\ Phases'
      /\ input' = input /\ pc' = pc /\ run' = run /\ added' = added
      /\ pending' = pending /\ executing' = executing /\ done' = done
      /\ progress \in [Tasks -> Nat] /\ progress' \in [Tasks -> Nat]
      /\ progress[t] < Steps(t) /\ progress[t] \in Nat
      /\ progress'[t] = progress[t] + 1
      /\ \A u \in Tasks : u # t => progress'[u] = progress[u]
      /\ InPhase(t) /\ run \in Chunks
  BY <1>1, AdvancePhases
<1>3. pc = "load" /\ t.run = run
  BY <1>1, <1>2 DEF InPhase
<1>4. Nth(t) = progress[t] /\ Share(t) = segment_size
  BY <1>1, Shares DEF Nth, Reading
<1>5. Place(t) \in Rows /\ Place(t) = t.slot * segment_size + progress[t]
  BY <1>1, <1>2, <1>4, AtPlace
<1>6. FilePosition(t) = TupleAt(run, Place(t)) /\ FilePosition(t) \in File
  BY <1>2, <1>3, <1>5, InFile DEF FilePosition, TupleAt
<1>7. buffer \in [Rows -> Places] /\ buffer' \in [Rows -> Places]
  <2>1. buffer \in [Rows -> Places]
    BY <1>1 DEF Types
  <2> QED BY <1>1, <1>5, <1>6, <2>1 DEF Places
<1>8. \A i \in Rows : buffer'[i] = TupleAt(run, i) \/ buffer'[i] = buffer[i]
  BY <1>1, <1>5, <1>6, <1>7
<1>9. buffer'[Place(t)] = TupleAt(run, Place(t))
  BY <1>1, <1>5, <1>6, <1>7
<1>10. Types'
  BY <1>1, <1>2, <1>7 DEF Types
<1>11. ASSUME NEW u \in Tasks, u.run = run, u.job = "load",
              NEW k \in 0..(segment_size - 1)
       PROVE  /\ k < progress'[u] =>
                   buffer'[u.slot * segment_size + k]
                     = TupleAt(run, u.slot * segment_size + k)
              /\ k + segment_size < progress'[u] =>
                   tuples'[u.slot * segment_size + k] = Entry(u.slot * segment_size + k)
  <2>1. LoadedUpTo(u)
    BY <1>1, <1>3, <1>11 DEF Contents
  <2>2. segment_size \in Nat /\ progress[u] \in Nat
    BY <1>2, Sizes
  <2>3. u.slot * segment_size + k \in Rows
    BY <1>11, LoadSlot
  <2>4. CASE u = t /\ k = progress[t]
    BY <1>1, <1>2, <1>5, <1>9, <2>2, <2>4
  <2>5. CASE ~(u = t /\ k = progress[t])
    <3>1. k < progress'[u] => k < progress[u]
      BY <1>2, <2>2, <2>5
    <3>2. k + segment_size < progress'[u] => k + segment_size < progress[u]
      BY <1>1, <1>2, <2>2
    <3> QED BY <1>1, <1>8, <2>1, <2>3, <3>1, <3>2 DEF LoadedUpTo
  <2> QED BY <2>4, <2>5
<1>12. Contents'
  <2>1. ASSUME NEW u \in Tasks, u.run = run', u.job = "load"
        PROVE  LoadedUpTo(u)'
    BY <1>2, <1>11, <2>1 DEF LoadedUpTo, TupleAt, Entry
  <2>2. pc' = "load"
    BY <1>2, <1>3
  <2> QED BY <2>1, <2>2 DEF Contents
<1>13. RunsSorted'
  BY <1>1, <1>2, RunsKept
<1> QED BY <1>2, <1>10, <1>12, <1>13 DEF IInv

LEMMA FillIInv ==
  ASSUME IInv, NEW t \in Tasks, ToColumnStore(t)
  PROVE  IInv'
<1>1. /\ Types /\ Phases /\ Contents /\ RunsSorted
      /\ Advance(t) /\ t.job = "load" /\ ~Reading(t)
      /\ tuples' = [tuples EXCEPT ![Place(t)] =
                      [key |-> KeyOf(buffer[Place(t)]), row |-> Place(t)]]
      /\ buffer' = buffer /\ merge_buffer' = merge_buffer /\ temp' = temp
  BY DEF IInv, ToColumnStore
<1>2. /\ Phases'
      /\ input' = input /\ pc' = pc /\ run' = run /\ added' = added
      /\ pending' = pending /\ executing' = executing /\ done' = done
      /\ progress \in [Tasks -> Nat] /\ progress' \in [Tasks -> Nat]
      /\ progress[t] < Steps(t) /\ progress[t] \in Nat
      /\ progress'[t] = progress[t] + 1
      /\ \A u \in Tasks : u # t => progress'[u] = progress[u]
      /\ InPhase(t) /\ run \in Chunks
  BY <1>1, AdvancePhases
<1>3. /\ pc = "load" /\ t.run = run
      /\ segment_size \in Nat /\ progress[t] >= segment_size
  BY <1>1, <1>2, Sizes DEF InPhase, Reading
<1>4. /\ Nth(t) = progress[t] - segment_size /\ Share(t) = segment_size
      /\ Nth(t) \in 0..(segment_size - 1)
  BY <1>1, <1>2, Shares, AtPlace DEF Nth
<1>5. Place(t) \in Rows /\ Place(t) = t.slot * segment_size + Nth(t)
  BY <1>1, <1>2, <1>4, AtPlace
<1>6. buffer[Place(t)] = TupleAt(run, Place(t))
  <2>1. LoadedUpTo(t) /\ Nth(t) < progress[t]
    BY <1>1, <1>2, <1>3, <1>4, Sizes DEF Contents
  <2> QED BY <1>4, <1>5, <2>1 DEF LoadedUpTo
<1>7. KeyOf(buffer[Place(t)]) = input[TupleAt(run, Place(t))]
  <2>1. buffer[Place(t)] # None
    BY <1>2, <1>5, <1>6, InFile, RunAssumption
  <2> QED BY <1>6, <2>1 DEF KeyOf
<1>8. [key |-> KeyOf(buffer[Place(t)]), row |-> Place(t)] = Entry(Place(t))
  BY <1>7 DEF Entry
<1>9. tuples' \in [Rows -> [key : Nat, row : Rows]]
  <2>1. tuples \in [Rows -> [key : Nat, row : Rows]] /\ input \in [File -> Keys]
    BY <1>1 DEF Types
  <2>2. input[TupleAt(run, Place(t))] \in Nat
    BY <1>2, <1>5, <2>1, InFile, RunAssumption
  <2> QED BY <1>1, <1>5, <1>7, <2>1, <2>2
<1>10. \A i \in Rows : tuples'[i] = Entry(i) \/ tuples'[i] = tuples[i]
  BY <1>1, <1>5, <1>8, <1>9
<1>11. tuples'[Place(t)] = Entry(Place(t))
  <2>1. tuples \in [Rows -> [key : Nat, row : Rows]]
    BY <1>1 DEF Types
  <2> QED BY <1>1, <1>5, <1>8, <2>1
<1>12. Types'
  BY <1>1, <1>2, <1>9 DEF Types
<1>13. ASSUME NEW u \in Tasks, u.run = run, u.job = "load",
              NEW k \in 0..(segment_size - 1)
       PROVE  /\ k < progress'[u] =>
                   buffer'[u.slot * segment_size + k]
                     = TupleAt(run, u.slot * segment_size + k)
              /\ k + segment_size < progress'[u] =>
                   tuples'[u.slot * segment_size + k] = Entry(u.slot * segment_size + k)
  <2>1. LoadedUpTo(u)
    BY <1>1, <1>3, <1>13 DEF Contents
  <2>2. progress[u] \in Nat
    BY <1>2
  <2>3. u.slot * segment_size + k \in Rows
    BY <1>13, LoadSlot
  <2>4. k < progress'[u] => k < progress[u]
    BY <1>2, <1>3, <2>2
  <2>5. CASE u = t /\ k = Nth(t)
    BY <1>1, <1>5, <1>11, <2>1, <2>4, <2>5 DEF LoadedUpTo
  <2>6. CASE ~(u = t /\ k = Nth(t))
    <3>1. k + segment_size < progress'[u] => k + segment_size < progress[u]
      BY <1>2, <1>3, <1>4, <2>2, <2>6
    <3> QED BY <1>1, <1>10, <2>1, <2>3, <2>4, <3>1 DEF LoadedUpTo
  <2> QED BY <2>5, <2>6
<1>14. Contents'
  <2>1. ASSUME NEW u \in Tasks, u.run = run', u.job = "load"
        PROVE  LoadedUpTo(u)'
    BY <1>2, <1>13, <2>1 DEF LoadedUpTo, TupleAt, Entry
  <2>2. pc' = "load"
    BY <1>2, <1>3
  <2> QED BY <2>1, <2>2 DEF Contents
<1>15. RunsSorted'
  BY <1>1, <1>2, RunsKept
<1> QED BY <1>2, <1>12, <1>14, <1>15 DEF IInv


LEMMA StoreSlot ==
  ASSUME NEW t \in Tasks, NEW k \in 0..(Share(t) - 1)
  PROVE  /\ t.job = "write" => t.slot * Share(t) + k \in Residue
         /\ t.job = "prep" => t.slot * Share(t) + k \in Prefix
<1>1. ASSUME t.job = "write"
      PROVE  t.slot * Share(t) + k \in Residue
  <2>1. t.slot \in 0..(IOThreads - 1) /\ Share(t) = local_buffer_residue_size
    BY <1>1, TaskShape, Shares
  <2>2. t.slot * Share(t) + k \in 0..(IOThreads * local_buffer_residue_size - 1)
    <3>1. IOThreads \in Nat /\ local_buffer_residue_size \in Nat
      BY Sizes
    <3> QED BY <2>1, <3>1, InSegments
  <2> QED BY <2>2, Sizes DEF Residue
<1>2. ASSUME t.job = "prep"
      PROVE  t.slot * Share(t) + k \in Prefix
  <2>1. t.slot \in 0..(MemThreads - 1) /\ Share(t) = local_merge_buffer_size
    BY <1>2, TaskShape, Shares, Sizes
  <2>2. t.slot * Share(t) + k \in 0..(MemThreads * local_merge_buffer_size - 1)
    <3>1. MemThreads \in Nat /\ local_merge_buffer_size \in Nat
      BY Sizes
    <3> QED BY <2>1, <3>1, InSegments
  <2> QED BY <2>1, <2>2, Sizes DEF Prefix
<1> QED BY <1>1, <1>2

(* What a storing task fetches. *)
LEMMA Fetched ==
  ASSUME Types, Contents, NEW t \in Tasks, t.job \in {"write", "prep"},
         t.run = run, pc = "store", run \in Chunks,
         progress[t] \in Nat, progress[t] < Steps(t)
  PROVE  /\ Fetch(t) = TupleAt(run, tuples[Source(t)].row)
         /\ Fetch(t) \in File /\ Nth(t) = progress[t]
<1>1. Source(t) \in Rows
  BY AtPlace
<1>2. tuples[Source(t)].row \in Rows
  BY <1>1 DEF Types
<1>3. buffer[tuples[Source(t)].row] = TupleAt(run, tuples[Source(t)].row)
  BY <1>2 DEF Contents, ChunkLoaded
<1> QED BY <1>2, <1>3, InFile DEF Fetch, Nth

LEMMA WriteIInv ==
  ASSUME IInv, NEW t \in Tasks, WriteTuple(t)
  PROVE  IInv'
<1>1. /\ Types /\ Phases /\ Contents /\ RunsSorted
      /\ Advance(t) /\ t.job = "write"
      /\ temp' = [temp EXCEPT ![t.run][Place(t)] = Fetch(t)]
      /\ buffer' = buffer /\ tuples' = tuples /\ merge_buffer' = merge_buffer
  BY DEF IInv, WriteTuple
<1>2. /\ Phases'
      /\ input' = input /\ pc' = pc /\ run' = run /\ added' = added
      /\ pending' = pending /\ executing' = executing /\ done' = done
      /\ progress \in [Tasks -> Nat] /\ progress' \in [Tasks -> Nat]
      /\ progress[t] < Steps(t) /\ progress[t] \in Nat
      /\ progress'[t] = progress[t] + 1
      /\ \A u \in Tasks : u # t => progress'[u] = progress[u]
      /\ InPhase(t) /\ run \in Chunks
  BY <1>1, AdvancePhases
<1>3. pc = "store" /\ t.run = run
  BY <1>1, <1>2 DEF InPhase
<1>4. /\ Fetch(t) = TupleAt(run, tuples[BufferTuples + Place(t)].row)
      /\ Fetch(t) \in File /\ Place(t) \in Residue
      /\ Place(t) = t.slot * Share(t) + progress[t]
  BY <1>1, <1>2, <1>3, Fetched, AtPlace
<1>5. /\ temp \in [Chunks -> [Residue -> Places]]
      /\ temp' \in [Chunks -> [Residue -> Places]]
  <2>1. temp \in [Chunks -> [Residue -> Places]]
    BY <1>1 DEF Types
  <2>2. Fetch(t) \in Places
    BY <1>4 DEF Places
  <2> QED BY <1>1, <1>2, <1>3, <1>4, <2>1, <2>2
<1>6. \A r \in Chunks : r # run => temp'[r] = temp[r]
  BY <1>1, <1>3, <1>5
<1>7. /\ temp'[run][Place(t)] = TupleAt(run, tuples[BufferTuples + Place(t)].row)
      /\ \A i \in Residue : i # Place(t) => temp'[run][i] = temp[run][i]
  BY <1>1, <1>2, <1>3, <1>4, <1>5
<1>8. Types'
  BY <1>1, <1>2, <1>5 DEF Types
<1>9. ASSUME NEW u \in Tasks, u.run = run, u.job # "load",
             NEW k \in 0..(Share(u) - 1), k < progress'[u]
      PROVE  IF u.job = "write"
             THEN temp'[run][u.slot * Share(u) + k]
                    = TupleAt(run, tuples[BufferTuples + (u.slot * Share(u) + k)].row)
             ELSE merge_buffer'[run][u.slot * Share(u) + k]
                    = TupleAt(run, tuples[u.slot * Share(u) + k].row)
  <2>1. StoredUpTo(u)
    BY <1>1, <1>3, <1>9 DEF Contents
  <2>2. Share(u) \in Nat /\ progress[u] \in Nat
    BY <1>2, Shares
  <2>3. CASE u.job = "write"
    <3>1. u.slot * Share(u) + k \in Residue
      BY <2>3, StoreSlot
    <3>2. CASE u.slot * Share(u) + k = Place(t)
      BY <1>7, <2>3, <3>2
    <3>3. CASE u.slot * Share(u) + k # Place(t)
      <4>1. k < progress[u]
        BY <1>2, <1>4, <1>9, <2>2, <3>3
      <4> QED BY <1>7, <2>1, <2>3, <3>1, <3>3, <4>1 DEF StoredUpTo
    <3> QED BY <3>2, <3>3
  <2>4. CASE u.job # "write"
    <3>1. k < progress[u]
      BY <1>1, <1>2, <1>9, <2>4
    <3> QED BY <1>1, <2>1, <2>4, <3>1 DEF StoredUpTo
  <2> QED BY <2>3, <2>4
<1>10. Contents'
  <2>1. ASSUME NEW u \in Tasks, u.run = run', u.job # "load"
        PROVE  StoredUpTo(u)'
    <3>1. Share(u)' = Share(u) /\ run' = run /\ tuples' = tuples
      BY <1>1, <1>2
    <3> QED BY <1>9, <2>1, <3>1 DEF StoredUpTo, TupleAt
  <2>2. ChunkLoaded' /\ ColumnStoreSorted'
    BY <1>1, <1>2, <1>3 DEF Contents, ChunkLoaded, ColumnStoreSorted, TupleAt
  <2>3. pc' = "store"
    BY <1>2, <1>3
  <2> QED BY <2>1, <2>2, <2>3 DEF Contents
<1>11. RunsSorted'
  <2>1. run \in Nat
    BY <1>1 DEF Types
  <2>2. \A r \in Chunks : r < run => temp'[r] = temp[r] /\ merge_buffer'[r] = merge_buffer[r]
    BY <1>1, <1>6, <2>1 DEF Chunks
  <2> QED BY <1>1, <1>2, <2>2, RunsKept
<1> QED BY <1>2, <1>8, <1>10, <1>11 DEF IInv

LEMMA PrepIInv ==
  ASSUME IInv, NEW t \in Tasks, PrepTuple(t)
  PROVE  IInv'
<1>1. /\ Types /\ Phases /\ Contents /\ RunsSorted
      /\ Advance(t) /\ t.job = "prep"
      /\ merge_buffer' = [merge_buffer EXCEPT ![t.run][Place(t)] = Fetch(t)]
      /\ buffer' = buffer /\ tuples' = tuples /\ temp' = temp
  BY DEF IInv, PrepTuple, BufferPart
<1>2. /\ Phases'
      /\ input' = input /\ pc' = pc /\ run' = run /\ added' = added
      /\ pending' = pending /\ executing' = executing /\ done' = done
      /\ progress \in [Tasks -> Nat] /\ progress' \in [Tasks -> Nat]
      /\ progress[t] < Steps(t) /\ progress[t] \in Nat
      /\ progress'[t] = progress[t] + 1
      /\ \A u \in Tasks : u # t => progress'[u] = progress[u]
      /\ InPhase(t) /\ run \in Chunks
  BY <1>1, AdvancePhases
<1>3. pc = "store" /\ t.run = run
  BY <1>1, <1>2 DEF InPhase
<1>4. /\ Fetch(t) = TupleAt(run, tuples[Place(t)].row)
      /\ Fetch(t) \in File /\ Place(t) \in Prefix
      /\ Place(t) = t.slot * Share(t) + progress[t]
  BY <1>1, <1>2, <1>3, Fetched, AtPlace
<1>5. /\ merge_buffer \in [Chunks -> [Prefix -> Places]]
      /\ merge_buffer' \in [Chunks -> [Prefix -> Places]]
  <2>1. merge_buffer \in [Chunks -> [Prefix -> Places]]
    BY <1>1 DEF Types
  <2>2. Fetch(t) \in Places
    BY <1>4 DEF Places
  <2> QED BY <1>1, <1>2, <1>3, <1>4, <2>1, <2>2
<1>6. \A r \in Chunks : r # run => merge_buffer'[r] = merge_buffer[r]
  BY <1>1, <1>3, <1>5
<1>7. /\ merge_buffer'[run][Place(t)] = TupleAt(run, tuples[Place(t)].row)
      /\ \A i \in Prefix : i # Place(t) => merge_buffer'[run][i] = merge_buffer[run][i]
  BY <1>1, <1>2, <1>3, <1>4, <1>5
<1>8. Types'
  BY <1>1, <1>2, <1>5 DEF Types
<1>9. ASSUME NEW u \in Tasks, u.run = run, u.job # "load",
             NEW k \in 0..(Share(u) - 1), k < progress'[u]
      PROVE  IF u.job = "write"
             THEN temp'[run][u.slot * Share(u) + k]
                    = TupleAt(run, tuples[BufferTuples + (u.slot * Share(u) + k)].row)
             ELSE merge_buffer'[run][u.slot * Share(u) + k]
                    = TupleAt(run, tuples[u.slot * Share(u) + k].row)
  <2>1. StoredUpTo(u)
    BY <1>1, <1>3, <1>9 DEF Contents
  <2>2. Share(u) \in Nat /\ progress[u] \in Nat
    BY <1>2, Shares
  <2>3. CASE u.job = "prep"
    <3>1. u.slot * Share(u) + k \in Prefix
      BY <2>3, StoreSlot
    <3>2. CASE u.slot * Share(u) + k = Place(t)
      BY <1>7, <2>3, <3>2
    <3>3. CASE u.slot * Share(u) + k # Place(t)
      <4>1. k < progress[u]
        BY <1>2, <1>4, <1>9, <2>2, <3>3
      <4> QED BY <1>7, <2>1, <2>3, <3>1, <3>3, <4>1 DEF StoredUpTo
    <3> QED BY <3>2, <3>3
  <2>4. CASE u.job = "write"
    <3>1. k < progress[u]
      BY <1>1, <1>2, <1>9, <2>4
    <3> QED BY <1>1, <2>1, <2>4, <3>1 DEF StoredUpTo
  <2> QED BY <1>9, <2>3, <2>4, TaskShape
<1>10. Contents'
  <2>1. ASSUME NEW u \in Tasks, u.run = run', u.job # "load"
        PROVE  StoredUpTo(u)'
    <3>1. Share(u)' = Share(u) /\ run' = run /\ tuples' = tuples
      BY <1>1, <1>2
    <3> QED BY <1>9, <2>1, <3>1 DEF StoredUpTo, TupleAt
  <2>2. ChunkLoaded' /\ ColumnStoreSorted'
    BY <1>1, <1>2, <1>3 DEF Contents, ChunkLoaded, ColumnStoreSorted, TupleAt
  <2>3. pc' = "store"
    BY <1>2, <1>3
  <2> QED BY <2>1, <2>2, <2>3 DEF Contents
<1>11. RunsSorted'
  <2>1. run \in Nat
    BY <1>1 DEF Types
  <2>2. \A r \in Chunks : r < run => temp'[r] = temp[r] /\ merge_buffer'[r] = merge_buffer[r]
    BY <1>1, <1>6, <2>1 DEF Chunks
  <2> QED BY <1>1, <1>2, <2>2, RunsKept
<1> QED BY <1>2, <1>8, <1>10, <1>11 DEF IInv


-----------------------------------------------------------------------------
(* From one phase to the next. *)

(* When wait_all() returns, every task of the phase is done. *)
LEMMA AllDone ==
  ASSUME Types, Phases, Pool!Release, pc \in {"load", "store"}
  PROVE  /\ \A i \in 0..(PhaseSize - 1) :
              PhaseTask(i) \in done /\ progress[PhaseTask(i)] = Steps(PhaseTask(i))
         /\ Pool!Quiet /\ client' = "open" /\ pending' = pending
         /\ executing' = executing /\ done' = done
         /\ pending = <<>> /\ executing = {} /\ Pool!Elements(pending) = {}
<1>1. /\ Pool!Quiet /\ client = "waiting" /\ client' = "open" /\ pending' = pending
      /\ executing' = executing /\ done' = done
  BY DEF Pool!Release
<1>2. /\ Pool!Known = done /\ pending = <<>> /\ executing = {}
      /\ Pool!Elements(pending) = {}
  BY <1>1, QuietEmpty DEF Pool!Quiet
<1>3. added = PhaseSize
  BY <1>1 DEF Phases
<1>4. \A i \in 0..(PhaseSize - 1) : PhaseTask(i) \in done
  <2>1. PhaseSize \in Nat
    BY Sizes DEF PhaseSize
  <2> QED BY <1>2, <1>3, <2>1 DEF Phases
<1> QED BY <1>1, <1>2, <1>4 DEF Phases

LEMMA LoadedIInv ==
  ASSUME IInv, SegmentsLoaded
  PROVE  IInv'
<1>1. /\ Types /\ Phases /\ Contents /\ RunsSorted
      /\ pc = "load" /\ pc' = "sort" /\ Pool!Release
      /\ input' = input /\ run' = run /\ added' = added /\ progress' = progress
      /\ buffer' = buffer /\ tuples' = tuples
      /\ merge_buffer' = merge_buffer /\ temp' = temp
  BY DEF IInv, SegmentsLoaded, Loaded, data
<1>2. /\ \A i \in 0..(PhaseSize - 1) :
           PhaseTask(i) \in done /\ progress[PhaseTask(i)] = Steps(PhaseTask(i))
      /\ Pool!Quiet /\ client' = "open" /\ pending' = pending
      /\ executing' = executing /\ done' = done
      /\ pending = <<>> /\ executing = {} /\ Pool!Elements(pending) = {}
  BY <1>1, AllDone
<1>3. run \in Chunks
  BY <1>1 DEF Types
<1>4. Types'
  BY <1>1, <1>2 DEF Types
<1>5. Phases'
  <2>1. Pool!Quiet' /\ (Pool!Elements(pending) \cup executing)' = {}
    BY <1>2, QuietEmpty DEF Pool!Quiet, Pool!Elements
  <2>2. ~(pc' \in {"load", "store"}) /\ client' # "waiting"
    BY <1>1, <1>2
  <2>3. \A t : Later(t)' <=> Later(t)
    BY <1>1 DEF Later
  <2>4. /\ \A t \in done' : progress'[t] = Steps(t)
        /\ \A t \in Tasks : progress'[t] <= Steps(t)
        /\ \A t \in Tasks : Later(t)' => progress'[t] = 0
    BY <1>1, <1>2, <2>3 DEF Phases
  <2> QED BY <2>1, <2>2, <2>4 DEF Phases
<1>6. ASSUME NEW i \in Rows
      PROVE  buffer[i] = TupleAt(run, i) /\ tuples[i] = Entry(i)
  <2>1. /\ NThreads \in Nat /\ segment_size \in Nat
        /\ i \in 0..(NThreads * segment_size - 1)
    BY Sizes DEF Rows
  <2>2. PICK p \in 0..(NThreads - 1), k \in 0..(segment_size - 1) :
          i = p * segment_size + k
    BY <2>1, SegmentOf
  <2> DEFINE t == Load(run, p)
  <2>3. t \in Tasks /\ t.slot = p /\ t.run = run /\ t.job = "load"
    BY <1>3 DEF Tasks, Load
  <2>4. PhaseTask(p) = t /\ PhaseSize = NThreads
    BY <1>1 DEF PhaseTask, PhaseSize
  <2>5. progress[t] = 2 * segment_size
    <3>1. progress[t] = Steps(t)
      BY <1>2, <2>4
    <3> QED BY <2>3, <3>1, Shares
  <2>6. LoadedUpTo(t)
    BY <1>1, <2>3 DEF Contents
  <2>7. k < progress[t] /\ k + segment_size < progress[t]
    BY <2>1, <2>2, <2>5
  <2>8. t.slot * segment_size + k = i
    BY <2>2, <2>3
  <2> HIDE DEF t
  <2>9. /\ buffer[t.slot * segment_size + k]
             = TupleAt(run, t.slot * segment_size + k)
        /\ tuples[t.slot * segment_size + k] = Entry(t.slot * segment_size + k)
    BY <2>6, <2>7 DEF LoadedUpTo
  <2> QED BY <2>8, <2>9
<1>7. Contents'
  <2>1. ChunkLoaded' /\ ColumnStoreFilled'
    BY <1>1, <1>6 DEF ChunkLoaded, ColumnStoreFilled, TupleAt, Entry
  <2> QED BY <1>1, <2>1 DEF Contents
<1>8. RunsSorted'
  BY <1>1, RunsKept
<1> QED BY <1>4, <1>5, <1>7, <1>8 DEF IInv

LEMMA SortIInv ==
  ASSUME IInv, SortChunk
  PROVE  IInv'
<1>1. /\ Types /\ Phases /\ Contents /\ RunsSorted
      /\ pc = "sort" /\ pc' = "store" /\ added' = 0
      /\ temp' = [temp EXCEPT ![run] = [i \in Residue |-> None]]
      /\ input' = input /\ run' = run /\ progress' = progress
      /\ buffer' = buffer /\ merge_buffer' = merge_buffer
      /\ pending' = pending /\ executing' = executing /\ done' = done
      /\ client' = client
  BY DEF IInv, SortChunk, pool
<1>2. PICK p \in [Rows -> Rows] :
        Sorts(p) /\ tuples' = [i \in Rows |-> tuples[p[i]]]
  BY DEF SortChunk
<1>3. run \in Chunks /\ run \in Nat
  BY <1>1 DEF Types
<1>4. temp' \in [Chunks -> [Residue -> Places]]
      /\ \A r \in Chunks : r # run => temp'[r] = temp[r]
  <2>1. temp \in [Chunks -> [Residue -> Places]]
    BY <1>1 DEF Types
  <2>2. [i \in Residue |-> None] \in [Residue -> Places]
    BY DEF Places
  <2> QED BY <1>1, <1>3, <2>1, <2>2
<1>5. tuples' \in [Rows -> [key : Nat, row : Rows]]
  <2>1. tuples \in [Rows -> [key : Nat, row : Rows]]
    BY <1>1 DEF Types
  <2> QED BY <1>2, <2>1
<1>6. Types'
  BY <1>1, <1>4, <1>5 DEF Types
<1>7. Phases'
  <2>1. Pool!Quiet /\ client # "waiting"
    BY <1>1 DEF Phases
  <2>2. (Pool!Elements(pending) \cup executing)' = {}
    BY <1>1, <2>1, QuietEmpty DEF Pool!Elements
  <2>3. \A t : Later(t)' => Later(t)
    BY <1>1 DEF Later
  <2>4. /\ \A t \in done' : progress'[t] = Steps(t)
        /\ \A t \in Tasks : progress'[t] <= Steps(t)
        /\ \A t \in Tasks : Later(t)' => progress'[t] = 0
    BY <1>1, <2>3 DEF Phases
  <2>5. ~(pc' \in {"sort", "merge"}) /\ client' # "waiting" /\ 0..(added' - 1) = {}
    BY <1>1, <2>1
  <2> QED BY <2>2, <2>4, <2>5 DEF Phases
<1>8. \A i \in Rows : p[i] \in Rows /\ tuples[p[i]] = Entry(p[i]) /\ tuples'[i] = Entry(p[i])
  BY <1>1, <1>2 DEF Contents, ColumnStoreFilled
<1>9. /\ \A i \in Rows : tuples'[i].row = p[i] /\ tuples'[i].key = input[TupleAt(run, p[i])]
      /\ \A i \in Rows : tuples'[i].key = tuples[p[i]].key
  <2> SUFFICES ASSUME NEW i \in Rows
               PROVE  /\ tuples'[i].row = p[i]
                      /\ tuples'[i].key = input[TupleAt(run, p[i])]
                      /\ tuples'[i].key = tuples[p[i]].key
    OBVIOUS
  <2>1. /\ tuples'[i] = [key |-> input[TupleAt(run, p[i])], row |-> p[i]]
        /\ tuples[p[i]] = tuples'[i]
    BY <1>8 DEF Entry
  <2> QED BY <2>1
<1>10. ColumnStoreSorted'
  <2>1. \A i \in Rows : tuples'[i].key = input[TupleAt(run, tuples'[i].row)]
    BY <1>9
  <2>2. \A i, j \in Rows : i # j => tuples'[i].row # tuples'[j].row
    BY <1>2, <1>9 DEF Sorts
  <2>3. \A i, j \in Rows : i < j => tuples'[i].key <= tuples'[j].key
    BY <1>2, <1>9 DEF Sorts
  <2> QED BY <1>1, <2>1, <2>2, <2>3 DEF ColumnStoreSorted, TupleAt
<1>11. ASSUME NEW u \in Tasks, u.run = run, u.job # "load"
       PROVE  StoredUpTo(u)'
  <2>1. Later(u)
    BY <1>1, <1>11 DEF Later
  <2>2. progress'[u] = 0
    BY <1>1, <2>1 DEF Phases
  <2>3. \A k \in 0..(Share(u) - 1) : ~(k < progress'[u])
    BY <2>2, Shares
  <2> QED BY <2>3 DEF StoredUpTo
<1>12. Contents'
  <2>1. ChunkLoaded'
    BY <1>1 DEF Contents, ChunkLoaded, TupleAt
  <2> QED BY <1>1, <1>10, <1>11, <2>1 DEF Contents
<1>13. RunsSorted'
  <2>1. \A r \in Chunks : r < run => temp'[r] = temp[r] /\ merge_buffer'[r] = merge_buffer[r]
    BY <1>1, <1>3, <1>4 DEF Chunks
  <2> QED BY <1>1, <2>1, RunsKept
<1> QED BY <1>6, <1>7, <1>12, <1>13 DEF IInv


(* Every place of the run has been stored, with the tuple of its row. *)
LEMMA StoredRun ==
  ASSUME Types, Phases, Contents, pc = "store", Pool!Release, NEW i \in Rows
  PROVE  Run(run)[i] = TupleAt(run, tuples[i].row)
<1>1. /\ run \in Chunks /\ PhaseSize = IOThreads + MemThreads
      /\ \A j \in 0..(PhaseSize - 1) :
           PhaseTask(j) \in done /\ progress[PhaseTask(j)] = Steps(PhaseTask(j))
  BY AllDone DEF Types, PhaseSize
<1>2. ASSUME NEW t \in Tasks, t.run = run, t.job # "load", progress[t] = Steps(t),
             NEW k \in 0..(Share(t) - 1)
      PROVE  IF t.job = "write"
             THEN temp[run][t.slot * Share(t) + k]
                    = TupleAt(run, tuples[BufferTuples + (t.slot * Share(t) + k)].row)
             ELSE merge_buffer[run][t.slot * Share(t) + k]
                    = TupleAt(run, tuples[t.slot * Share(t) + k].row)
  <2>1. StoredUpTo(t)
    BY <1>2 DEF Contents
  <2>2. k < progress[t]
    BY <1>2, Shares, TaskShape
  <2> QED BY <2>1, <2>2 DEF StoredUpTo
<1>3. CASE i < BufferTuples
  <2>1. /\ MemThreads \in Nat \ {0} /\ local_merge_buffer_size \in Nat
        /\ i \in 0..(MemThreads * local_merge_buffer_size - 1)
    BY <1>3, Sizes DEF Rows
  <2>2. PICK q \in 0..(MemThreads - 1), k \in 0..(local_merge_buffer_size - 1) :
          i = q * local_merge_buffer_size + k
    BY <2>1, SegmentOf
  <2> DEFINE t == Prep(run, q)
  <2>3. t \in Tasks /\ t.slot = q /\ t.run = run /\ t.job = "prep"
    BY <1>1 DEF Tasks, Prep
  <2>4. IOThreads + q \in 0..(PhaseSize - 1) /\ PhaseTask(IOThreads + q) = t
    <3>1. IOThreads \in Nat /\ IOThreads + q - IOThreads = q /\ ~(IOThreads + q < IOThreads)
      BY <2>1, Sizes
    <3>2. PhaseTask(IOThreads + q) = t
      BY <3>1 DEF PhaseTask
    <3> QED BY <1>1, <2>1, <3>1, <3>2
  <2>5. progress[t] = Steps(t) /\ Share(t) = local_merge_buffer_size
    BY <1>1, <2>3, <2>4, Shares
  <2>6. merge_buffer[run][i] = TupleAt(run, tuples[i].row)
    <3> HIDE DEF t
    <3> QED BY <1>2, <2>2, <2>3, <2>5
  <2> QED BY <1>3, <2>6 DEF Run
<1>4. CASE ~(i < BufferTuples)
  <2> DEFINE j == i - BufferTuples
  <2>1. /\ IOThreads \in Nat \ {0} /\ local_buffer_residue_size \in Nat
        /\ MemThreads \in Nat /\ j \in Nat /\ BufferTuples + j = i
        /\ j \in 0..(IOThreads * local_buffer_residue_size - 1)
    BY <1>4, Sizes DEF Rows
  <2>2. PICK q \in 0..(IOThreads - 1), k \in 0..(local_buffer_residue_size - 1) :
          j = q * local_buffer_residue_size + k
    BY <2>1, SegmentOf
  <2> DEFINE t == Write(run, q)
  <2>3. t \in Tasks /\ t.slot = q /\ t.run = run /\ t.job = "write"
    BY <1>1 DEF Tasks, Write
  <2>4. q \in 0..(PhaseSize - 1) /\ PhaseTask(q) = t
    <3>1. q < IOThreads
      BY <2>1
    <3>2. PhaseTask(q) = t
      BY <3>1 DEF PhaseTask
    <3> QED BY <1>1, <2>1, <3>1, <3>2
  <2>5. progress[t] = Steps(t) /\ Share(t) = local_buffer_residue_size
    BY <1>1, <2>3, <2>4, Shares
  <2>6. temp[run][j] = TupleAt(run, tuples[BufferTuples + j].row)
    <3> HIDE DEF t, j
    <3> QED BY <1>2, <2>2, <2>3, <2>5
  <2> QED BY <1>4, <2>1, <2>6 DEF Run
<1> QED BY <1>3, <1>4

LEMMA StoredIInv ==
  ASSUME IInv, RunStored
  PROVE  IInv'
<1>1. /\ Types /\ Phases /\ Contents /\ RunsSorted
      /\ pc = "store" /\ Pool!Release
      /\ pc' = IF run + 1 = NChunks THEN "merge" ELSE "load"
      /\ run' = run + 1 /\ added' = 0
      /\ input' = input /\ progress' = progress
      /\ buffer' = buffer /\ tuples' = tuples
      /\ merge_buffer' = merge_buffer /\ temp' = temp
  BY DEF IInv, RunStored, Stored, data
<1>2. /\ Pool!Quiet /\ client' = "open" /\ pending' = pending
      /\ executing' = executing /\ done' = done
      /\ pending = <<>> /\ executing = {}
  BY <1>1, AllDone
<1>3. run \in Chunks /\ run \in Nat
  BY <1>1 DEF Types
<1>4. Types'
  <2>1. IF pc' = "merge" THEN run' = NChunks ELSE run' \in Chunks
    BY <1>1, <1>3, Sizes DEF Chunks
  <2> QED BY <1>1, <1>2, <1>3, <2>1 DEF Types
<1>5. \A t \in Tasks : Later(t)' => Later(t)
  <2> SUFFICES ASSUME NEW t \in Tasks, Later(t)' PROVE t.run > run
    BY DEF Later
  <2>1. t.run \in Nat /\ t.run >= run + 1
    BY <1>1, <1>3, TaskShape DEF Later, Chunks
  <2> QED BY <1>3, <2>1
<1>6. Phases'
  <2>1. Pool!Quiet' /\ (Pool!Elements(pending) \cup executing)' = {}
    BY <1>2, QuietEmpty DEF Pool!Quiet, Pool!Elements
  <2>2. client' # "waiting" /\ 0..(added' - 1) = {}
    BY <1>1, <1>2
  <2>3. /\ \A t \in done' : progress'[t] = Steps(t)
        /\ \A t \in Tasks : progress'[t] <= Steps(t)
        /\ \A t \in Tasks : Later(t)' => progress'[t] = 0
    BY <1>1, <1>2, <1>5 DEF Phases
  <2> QED BY <2>1, <2>2, <2>3 DEF Phases
<1>7. Contents'
  <2>1. ASSUME NEW t \in Tasks, t.run = run', t.job = "load"
        PROVE  LoadedUpTo(t)'
    <3>1. Later(t)
      BY <1>1, <1>3, <2>1 DEF Later
    <3>2. progress'[t] = 0
      BY <1>1, <3>1 DEF Phases
    <3>3. \A k \in 0..(segment_size - 1) :
            ~(k < progress'[t]) /\ ~(k + segment_size < progress'[t])
      BY <3>2, Sizes
    <3> QED BY <3>3 DEF LoadedUpTo
  <2> QED BY <1>1, <2>1 DEF Contents
<1>8. \A i \in Rows : Run(run)[i] = TupleAt(run, tuples[i].row)
  BY <1>1, StoredRun
<1>9. \A i \in Rows : tuples[i].row \in Rows
  BY <1>1 DEF Types
<1>10. IsSortedRun(run)
  <2>1. ColumnStoreSorted
    BY <1>1 DEF Contents
  <2>2. run * ChunkTuples \in Nat /\ ChunkTuples \in Nat
        /\ (run + 1) * ChunkTuples = run * ChunkTuples + ChunkTuples
    BY <1>3, Sizes
  <2>3. ASSUME NEW i \in Rows
        PROVE  Run(run)[i] \in (run * ChunkTuples)..((run + 1) * ChunkTuples - 1)
    BY <1>8, <1>9, <2>2 DEF TupleAt, Rows
  <2>4. ASSUME NEW i \in Rows, NEW j \in Rows, i # j
        PROVE  Run(run)[i] # Run(run)[j]
    <3>1. tuples[i].row # tuples[j].row
      BY <2>1, <2>4 DEF ColumnStoreSorted
    <3> QED BY <1>8, <1>9, <2>2, <3>1 DEF TupleAt, Rows
  <2>5. ASSUME NEW i \in Rows, NEW j \in Rows, i < j
        PROVE  input[Run(run)[i]] <= input[Run(run)[j]]
    BY <1>8, <2>1, <2>5 DEF ColumnStoreSorted
  <2> QED BY <2>3, <2>4, <2>5 DEF IsSortedRun
<1>11. ASSUME NEW r \in Chunks, r < run'
       PROVE  IsSortedRun(r)'
  <2>1. IsSortedRun(r)
    <3>1. r \in Nat /\ (r < run \/ r = run)
      BY <1>1, <1>3, <1>11 DEF Chunks
    <3> QED BY <1>1, <1>10, <3>1 DEF RunsSorted
  <2> QED BY <1>1, <2>1, RunKept
<1>12. RunsSorted'
  BY <1>11 DEF RunsSorted
<1> QED BY <1>4, <1>6, <1>7, <1>12 DEF IInv

-----------------------------------------------------------------------------
(* All steps. *)

LEMMA NextIInv ==
  ASSUME IInv, [Next]_vars
  PROVE  IInv'
<1>1. CASE Main
  <2>1. CASE AddLoad \/ AddStore
    BY <2>1, AddIInv
  <2>2. CASE WaitAll
    BY <2>2, WaitIInv
  <2>3. CASE SegmentsLoaded
    BY <2>3, LoadedIInv
  <2>4. CASE SortChunk
    BY <2>4, SortIInv
  <2>5. CASE RunStored
    BY <2>5, StoredIInv
  <2> QED BY <1>1, <2>1, <2>2, <2>3, <2>4, <2>5 DEF Main
<1>2. CASE StartTask
  BY <1>2, StartIInv
<1>3. ASSUME NEW t \in Tasks, Work(t)
      PROVE  IInv'
  <2>1. CASE ReadTuple(t)
    BY <2>1, ReadIInv
  <2>2. CASE ToColumnStore(t)
    BY <2>2, FillIInv
  <2>3. CASE WriteTuple(t)
    BY <2>3, WriteIInv
  <2>4. CASE PrepTuple(t)
    BY <2>4, PrepIInv
  <2>5. CASE FinishTask(t)
    BY <2>5, FinishIInv
  <2> QED BY <1>3, <2>1, <2>2, <2>3, <2>4, <2>5 DEF Work
<1>4. CASE UNCHANGED vars
  <2>1. /\ input' = input /\ pc' = pc /\ run' = run /\ added' = added
        /\ UNCHANGED <<input, pc, run, data, progress>>
        /\ progress' = progress
        /\ pending' = pending /\ executing' = executing /\ done' = done
        /\ client' = client
    BY <1>4 DEF vars, main, data, pool
  <2>2. Types'
    BY <2>1, TypesKept DEF IInv, Types
  <2>3. Phases'
    <3>1. /\ Pool!Elements(pending)' = Pool!Elements(pending)
          /\ Pool!Known' = Pool!Known /\ Pool!Quiet' = Pool!Quiet
      BY <2>1 DEF Pool!Known, Pool!Elements, Pool!Quiet
    <3> QED BY <2>1, <2>2, <3>1, PhasesKept DEF IInv, Phases
  <2>4. Contents' /\ RunsSorted'
    BY <2>1, DataSame DEF IInv
  <2> QED BY <2>2, <2>3, <2>4 DEF IInv
<1> QED BY <1>1, <1>2, <1>3, <1>4 DEF Next, Terminated

LEMMA Apart ==
  ASSUME IInv
  PROVE  NoRace
<1>1. /\ \A t \in executing : t \in Tasks /\ InPhase(t)
      /\ progress \in [Tasks -> Nat]
      /\ pc \in {"sort", "merge"} => Pool!Quiet
  BY DEF IInv, Types, Phases
<1>2. ASSUME NEW t \in Running, NEW u \in Running, t # u
      PROVE  Writes(t) \cap (Reads(u) \cup Writes(u)) = {}
  <2>1. /\ t \in Tasks /\ u \in Tasks /\ InPhase(t) /\ InPhase(u)
        /\ progress[t] \in Nat /\ progress[t] < Steps(t)
        /\ progress[u] \in Nat /\ progress[u] < Steps(u)
    BY <1>1 DEF Running
  <2>2. t.run = run /\ u.run = run
    BY <2>1 DEF InPhase
  <2>3. t.job = u.job => Place(t) # Place(u)
    BY <1>2, <2>1, <2>2, PlacesApart
  <2>4. CASE t.job = "load"
    <3>1. u.job = "load"
      BY <2>1, <2>4 DEF InPhase
    <3>2. Writes(t) = {<<"buffer", Place(t)>>} \/ Writes(t) = {<<"tuples", Place(t)>>}
      BY <2>4 DEF Writes, Reading
    <3>3. /\ Writes(u) = {<<"buffer", Place(u)>>} \/ Writes(u) = {<<"tuples", Place(u)>>}
          /\ Reads(u) = {} \/ Reads(u) = {<<"buffer", Place(u)>>}
      BY <3>1 DEF Writes, Reads, Reading
    <3> QED BY <2>3, <2>4, <3>1, <3>2, <3>3
  <2>5. CASE t.job = "write"
    <3>1. u.job \in {"write", "prep"}
      BY <2>1, <2>5 DEF InPhase
    <3>2. Writes(t) = {<<"temp", t.run, Place(t)>>}
      BY <2>5 DEF Writes, Reading
    <3>3. /\ Reads(u) = {<<"tuples", Source(u)>>, <<"buffer", tuples[Source(u)].row>>}
          /\ u.job = "write" => Writes(u) = {<<"temp", u.run, Place(u)>>}
          /\ u.job = "prep" => Writes(u) = {<<"merge_buffer", BufferPart(u), Place(u)>>}
      BY <3>1 DEF Writes, Reads, Reading
    <3> QED BY <2>3, <2>5, <3>1, <3>2, <3>3
  <2>6. CASE t.job = "prep"
    <3>1. u.job \in {"write", "prep"}
      BY <2>1, <2>6 DEF InPhase
    <3>2. Writes(t) = {<<"merge_buffer", BufferPart(t), Place(t)>>}
      BY <2>6 DEF Writes, Reading
    <3>3. /\ Reads(u) = {<<"tuples", Source(u)>>, <<"buffer", tuples[Source(u)].row>>}
          /\ u.job = "write" => Writes(u) = {<<"temp", u.run, Place(u)>>}
          /\ u.job = "prep" => Writes(u) = {<<"merge_buffer", BufferPart(u), Place(u)>>}
      BY <3>1 DEF Writes, Reads, Reading
    <3> QED BY <2>3, <2>6, <3>1, <3>2, <3>3
  <2> QED BY <2>1, <2>4, <2>5, <2>6, TaskShape
<1> QED BY <1>1, <1>2 DEF NoRace

THEOREM Invariance == Spec => []IInv
<1>1. Init => IInv
  BY InitIInv
<1>2. IInv /\ [Next]_vars => IInv'
  BY NextIInv
<1> QED BY <1>1, <1>2, PTL DEF Spec

(* What single_run leaves of a chunk is that chunk, sorted, for any interleaving
   of the threads of the pool. *)
THEOREM RunsAreSorted == Spec => []RunsSorted
<1>1. IInv => RunsSorted
  BY DEF IInv
<1> QED BY <1>1, Invariance, PTL

(* No two tasks that run at the same time touch the same tuple when one of them
   writes it, and main sorts alone. *)
THEOREM TasksApart == Spec => []NoRace
<1>1. IInv => NoRace
  BY Apart
<1> QED BY <1>1, Invariance, PTL

(***************************************************************************)
(* The merge of the runs, and run() as a whole.                            *)
(***************************************************************************)

MP == INSTANCE KWayMergeProofs
  WITH runs <- [r \in Chunks |-> [i \in Rows |-> KeyOf(Run(r)[i])]],
       pc <- mpc, buffer <- window

(* The merge has not begun. *)
NotBegun ==
  /\ mpc = "init" /\ idx = 0
  /\ memory = [r \in Chunks |-> [k \in Prefix |-> k]]
  /\ first_run = [r \in Chunks |-> TRUE]
  /\ from = [r \in Chunks |-> 0]
  /\ window = [r \in Chunks |-> NullPtr]
  /\ size = [r \in Chunks |-> 0]
  /\ tuple_pqueue = {}
  /\ min_tuple = 0
  /\ output = <<>>

SortInv ==
  /\ IInv
  /\ pc # "merge" => NotBegun
  /\ pc = "merge" => MP!IInv

(* The tuple of the file at place x[2] of run x[1]. *)
Tuple(x) == Run(x[1])[x[2]]

OutputTuples == {output[i] : i \in 1..Len(output)}
WrittenTuples == {Written[i] : i \in 1..Len(Written)}

-----------------------------------------------------------------------------
(* The runs and the file. *)

LEMMA MergeConstants ==
  /\ MP!MergeAssumption
  /\ MP!Chunks = Chunks /\ MP!Rows = Rows /\ MP!Window = Prefix
  /\ MP!Tuples = Chunks \X Rows
BY RunAssumption, SortAssumption
DEF MP!MergeAssumption, MP!Chunks, MP!Rows, MP!Window, MP!Tuples, Chunks, Rows, Prefix

(* After the last single_run, every chunk is a sorted run. *)
LEMMA AllRunsSorted ==
  ASSUME IInv, pc = "merge", NEW r \in Chunks
  PROVE  IsSortedRun(r)
<1>1. run = NChunks /\ r < NChunks
  BY DEF IInv, Types, Chunks
<1> QED BY <1>1 DEF IInv, RunsSorted

LEMMA OwnChunk ==
  ASSUME IInv, pc = "merge", NEW r \in Chunks, NEW i \in Rows
  PROVE  \E j \in Rows : Run(r)[i] = r * ChunkTuples + j
<1>1. /\ Run(r)[i] \in (r * ChunkTuples)..((r + 1) * ChunkTuples - 1)
  BY AllRunsSorted DEF IsSortedRun
<1>2. /\ r * ChunkTuples \in Nat /\ ChunkTuples \in Nat
      /\ (r + 1) * ChunkTuples = r * ChunkTuples + ChunkTuples
  BY Sizes DEF Chunks
<1>3. /\ Run(r)[i] - r * ChunkTuples \in Rows
      /\ Run(r)[i] = r * ChunkTuples + (Run(r)[i] - r * ChunkTuples)
  BY <1>1, <1>2 DEF Rows
<1> QED BY <1>3

LEMMA TupleInFile ==
  ASSUME IInv, pc = "merge", NEW r \in Chunks, NEW i \in Rows
  PROVE  /\ Run(r)[i] \in File /\ KeyOf(Run(r)[i]) = input[Run(r)[i]]
         /\ KeyOf(Run(r)[i]) \in Keys
<1>1. PICK j \in Rows : Run(r)[i] = TupleAt(r, j)
  BY OwnChunk DEF TupleAt
<1>2. Run(r)[i] \in File /\ Run(r)[i] \in Nat
  BY <1>1, InFile
<1>3. Run(r)[i] # None
  BY <1>2, RunAssumption
<1>4. input \in [File -> Keys]
  BY DEF IInv, Types
<1> QED BY <1>2, <1>3, <1>4 DEF KeyOf

(* No tuple is in two places, *)
LEMMA TuplesDiffer ==
  ASSUME IInv, pc = "merge", NEW x \in Chunks \X Rows, NEW y \in Chunks \X Rows,
         Tuple(x) = Tuple(y)
  PROVE  x = y
<1>1. PICK r \in Chunks, i \in Rows : x = <<r, i>>
  OBVIOUS
<1>2. PICK q \in Chunks, j \in Rows : y = <<q, j>>
  OBVIOUS
<1>3. Run(r)[i] = Run(q)[j]
  BY <1>1, <1>2 DEF Tuple
<1>4. r = q
  <2>1. PICK k \in Rows, l \in Rows :
        Run(r)[i] = r * ChunkTuples + k /\ Run(q)[j] = q * ChunkTuples + l
    BY OwnChunk
  <2>2. /\ ChunkTuples \in Nat /\ r \in Nat /\ q \in Nat
        /\ k \in 0..(ChunkTuples - 1) /\ l \in 0..(ChunkTuples - 1)
    BY Sizes DEF Chunks, Rows
  <2>3. SUFFICES ASSUME r # q PROVE FALSE
    OBVIOUS
  <2>4. r * ChunkTuples + k # q * ChunkTuples + l
    BY <2>2, <2>3, SegmentsApart
  <2> QED BY <1>3, <2>1, <2>4
<1>5. i = j
  BY <1>3, <1>4, AllRunsSorted DEF IsSortedRun
<1> QED BY <1>1, <1>2, <1>4, <1>5

(* and every tuple is in one: as many different tuples of a chunk as it has. *)
LEMMA EveryTuple ==
  ASSUME IInv, pc = "merge", NEW t \in File
  PROVE  \E x \in Chunks \X Rows : Tuple(x) = t
<1>1. /\ NChunks \in Nat /\ ChunkTuples \in Nat
      /\ t \in 0..(NChunks * ChunkTuples - 1)
  BY Sizes DEF File
<1>2. PICK r \in 0..(NChunks - 1), k \in 0..(ChunkTuples - 1) :
      t = r * ChunkTuples + k
  BY <1>1, SegmentOf
<1> DEFINE Chunk == (r * ChunkTuples)..(r * ChunkTuples + ChunkTuples - 1)
           f == [i \in Rows |-> Run(r)[i]]
<1>3. r \in Chunks /\ r * ChunkTuples \in Nat /\ t \in Chunk
  BY <1>1, <1>2 DEF Chunks
<1>4. f \in [Rows -> Chunk]
  <2>1. ASSUME NEW i \in Rows PROVE Run(r)[i] \in Chunk
    <3>1. PICK j \in Rows : Run(r)[i] = r * ChunkTuples + j
      BY <1>3, OwnChunk
    <3> QED BY <1>1, <1>3, <3>1 DEF Rows
  <2> QED BY <2>1
<1>5. ASSUME NEW i \in Rows, NEW j \in Rows, f[i] = f[j] PROVE i = j
  BY <1>3, <1>5, AllRunsSorted DEF IsSortedRun
<1>6. f \in Injection(Rows, Chunk)
  <2> HIDE DEF f, Chunk
  <2> QED BY <1>4, <1>5 DEF Injection, IsInjective
<1>7. /\ IsFiniteSet(Chunk) /\ Cardinality(Chunk) = ChunkTuples
      /\ Cardinality(Rows) = ChunkTuples
  <2>1. ChunkTuples > 0
    BY Sizes
  <2>2. Cardinality(Rows) = ChunkTuples
    BY <1>1, <2>1, FS_Interval DEF Rows
  <2> QED BY <1>1, <1>3, <2>1, <2>2, FS_Interval
<1>8. f \in Surjection(Rows, Chunk)
  <2> HIDE DEF f, Chunk
  <2> QED BY <1>6, <1>7, FS_Injection
<1>9. PICK i \in Rows : f[i] = t
  BY <1>3, <1>8 DEF Surjection
<1>10. <<r, i>> \in Chunks \X Rows /\ Tuple(<<r, i>>) = t
  BY <1>3, <1>9 DEF Tuple
<1> QED BY <1>10


-----------------------------------------------------------------------------
(* The invariant. *)

(* The merge finds the runs it expects. *)
LEMMA MergeBegins ==
  ASSUME IInv, pc = "merge", NotBegun
  PROVE  MP!IInv
<1> DEFINE keys == [r \in Chunks |-> [i \in Rows |-> KeyOf(Run(r)[i])]]
<1>1. ASSUME NEW r \in Chunks
      PROVE  keys[r] \in MP!SortedRuns
  <2>1. keys[r] \in [Rows -> Keys]
    BY TupleInFile
  <2>2. ASSUME NEW i \in Rows, NEW j \in Rows, i < j
        PROVE  keys[r][i] <= keys[r][j]
    <3>1. input[Run(r)[i]] <= input[Run(r)[j]]
      BY <2>2, AllRunsSorted DEF IsSortedRun
    <3> QED BY <3>1, TupleInFile
  <2> QED BY <2>1, <2>2, MergeConstants DEF MP!SortedRuns
<1>2. keys \in [Chunks -> MP!SortedRuns]
  BY <1>1
<1>3. MP!Init
  BY <1>2, MergeConstants DEF MP!Init, NotBegun
<1> QED BY <1>3, MergeConstants, MP!InitEstablishes

(* Run formation ends before the merge begins, *)
LEMMA FormRunsInPhase ==
  ASSUME IInv, Main \/ StartTask \/ \E t \in Tasks : Work(t)
  PROVE  pc # "merge"
<1>1. pc = "merge" => pending = <<>> /\ executing = {}
  BY DEF IInv, Phases, Pool!Quiet
<1>2. CASE Main
  BY <1>2 DEF Main, AddLoad, AddStore, WaitAll, SegmentsLoaded, SortChunk, RunStored
<1>3. CASE StartTask
  BY <1>1, <1>3 DEF StartTask, Pool!Start
<1>4. ASSUME NEW t \in Tasks, Work(t) PROVE pc # "merge"
  <2>1. t \in executing
    BY <1>4 DEF Work, ReadTuple, ToColumnStore, WriteTuple, PrepTuple, FinishTask,
                Advance, Pool!Finish
  <2> QED BY <1>1, <2>1
<1> QED BY <1>2, <1>3, <1>4

(* and the merge of the one instance is that of the other. *)
LEMMA SameMerge ==
  ASSUME Merge!Merge
  PROVE  MP!Merge
BY DEF Merge!Merge, MP!Merge, Merge!InitChunk, MP!InitChunk, Merge!Finish, MP!Finish,
  Merge!Refill, MP!Refill, Merge!StepOn, MP!StepOn, Merge!WriteTuple, MP!WriteTuple,
  Merge!Pop, MP!Pop, Merge!Chunks, MP!Chunks, Merge!CallNext, MP!CallNext,
  Merge!FirstWindow, MP!FirstWindow, Merge!NextWindow, MP!NextWindow,
  Merge!Pushed, MP!Pushed, Merge!Popped, MP!Popped, Merge!Least, MP!Least,
  Merge!FrontKey, MP!FrontKey, Merge!Front, MP!Front, Merge!NextFrom, MP!NextFrom,
  Merge!Amount, MP!Amount, Merge!Left, MP!Left, Merge!Window, MP!Window

LEMMA RunsSame ==
  ASSUME UNCHANGED vars
  PROVE  /\ input' = input /\ pc' = pc
         /\ \A r : Run(r)' = Run(r)
         /\ [r \in Chunks |-> [i \in Rows |-> KeyOf(Run(r)[i])]]'
              = [r \in Chunks |-> [i \in Rows |-> KeyOf(Run(r)[i])]]
<1>1. /\ input' = input /\ pc' = pc
      /\ merge_buffer' = merge_buffer /\ temp' = temp
  BY DEF vars, main, data
<1>2. \A r : Run(r)' = Run(r)
  BY <1>1 DEF Run
<1>3. \A t : KeyOf(t)' = KeyOf(t)
  BY <1>1 DEF KeyOf
<1> QED BY <1>1, <1>2, <1>3

LEMMA SortNextInv ==
  ASSUME SortInv, [SortNext]_allvars, (IInv /\ pc = "merge" /\ NotBegun => MP!IInv)'
  PROVE  SortInv'
<1>1. IInv
  BY DEF SortInv
<1>2. CASE FormRuns
  <2>1. [Next]_vars /\ UNCHANGED merge /\ pc # "merge"
    BY <1>1, <1>2, FormRunsInPhase DEF FormRuns, Next
  <2>2. IInv'
    BY <1>1, <2>1, NextIInv
  <2>3. NotBegun'
    BY <2>1 DEF SortInv, NotBegun, merge
  <2> QED BY <2>2, <2>3 DEF SortInv
<1>3. CASE MergeRuns
  <2>1. /\ UNCHANGED vars /\ [Next]_vars /\ pc = "merge" /\ pc' = "merge"
        /\ Merge!Merge
    BY <1>3, RunsSame DEF MergeRuns, AllRunsStored
  <2>2. IInv'
    BY <1>1, <2>1, NextIInv
  <2>3. [MP!Next]_(MP!vars)
    BY <2>1, SameMerge DEF MP!Next
  <2>4. MP!IInv'
    BY <2>1, <2>3, MergeConstants, MP!NextKeeps DEF SortInv
  <2> QED BY <2>1, <2>2, <2>4 DEF SortInv
<1>4. CASE UNCHANGED allvars
  <2>1. UNCHANGED vars /\ UNCHANGED merge /\ [Next]_vars
    BY <1>4 DEF allvars
  <2>2. IInv' /\ pc' = pc
    BY <1>1, <2>1, NextIInv, RunsSame
  <2>3. NotBegun' <=> NotBegun
    BY <2>1 DEF NotBegun, merge
  <2>4. [MP!Next]_(MP!vars)
    BY <2>1, RunsSame DEF MP!vars, merge
  <2>5. MP!IInv => MP!IInv'
    BY <2>4, MergeConstants, MP!NextKeeps
  <2> QED BY <2>2, <2>3, <2>5 DEF SortInv
<1> QED BY <1>2, <1>3, <1>4 DEF SortNext, Stopped

THEOREM SortInvariance == SortSpec => []SortInv
<1>1. SortInit => SortInv
  <2> SUFFICES ASSUME SortInit PROVE SortInv
    OBVIOUS
  <2>1. IInv /\ pc = "load"
    BY InitIInv DEF SortInit, Init
  <2> QED BY <2>1 DEF SortInit, SortInv, NotBegun
<1>2. IInv /\ pc = "merge" /\ NotBegun => MP!IInv
  BY MergeBegins
<1>3. SortInv /\ [SortNext]_allvars /\ (IInv /\ pc = "merge" /\ NotBegun => MP!IInv)'
        => SortInv'
  BY SortNextInv
<1> QED BY <1>1, <1>2, <1>3, PTL DEF SortSpec


(* In the whole program, too, two tasks never touch the same tuple at the same
   time, and no task is left when main sorts a chunk or merges. *)
THEOREM SortTasksApart == SortSpec => []NoRace
<1>1. SortInv => NoRace
  BY Apart DEF SortInv
<1> QED BY <1>1, SortInvariance, PTL

(* In the whole program, too, a run that is left is its chunk, sorted: the merge
   does not disturb it. *)
THEOREM SortRunsSorted == SortSpec => []RunsSorted
<1>1. SortInv => RunsSorted
  BY DEF SortInv, IInv
<1> QED BY <1>1, SortInvariance, PTL

-----------------------------------------------------------------------------
(* The program implements module SortedStream. *)

LEMMA WrittenSeq ==
  ASSUME IInv, pc = "merge", output \in Seq(Chunks \X Rows)
  PROVE  /\ Written \in Seq(File) /\ Len(Written) = Len(output)
         /\ \A i \in 1..Len(output) :
              /\ output[i] \in Chunks \X Rows /\ Written[i] = Tuple(output[i])
              /\ Tuple(output[i]) \in File
<1>1. Len(output) \in Nat /\ \A i \in 1..Len(output) : output[i] \in Chunks \X Rows
  OBVIOUS
<1>2. \A i \in 1..Len(output) : Tuple(output[i]) \in File
  BY <1>1, TupleInFile DEF Tuple
<1>3. Written = [i \in 1..Len(output) |-> Tuple(output[i])]
  BY DEF Written, Tuple
<1> QED BY <1>1, <1>2, <1>3

(* What has not been written is what the merge has not put out. *)
LEMMA SameRemaining ==
  ASSUME IInv, pc = "merge", output \in Seq(Chunks \X Rows)
  PROVE  /\ \A x \in (Chunks \X Rows) \ OutputTuples : Tuple(x) \in File \ WrittenTuples
         /\ \A t \in File \ WrittenTuples :
              \E x \in (Chunks \X Rows) \ OutputTuples : Tuple(x) = t
<1>1. /\ Len(Written) = Len(output)
      /\ \A i \in 1..Len(output) :
           output[i] \in Chunks \X Rows /\ Written[i] = Tuple(output[i])
  BY WrittenSeq
<1>2. ASSUME NEW x \in (Chunks \X Rows) \ OutputTuples
      PROVE  Tuple(x) \in File \ WrittenTuples
  <2>1. Tuple(x) \in File
    BY TupleInFile DEF Tuple
  <2>2. ASSUME NEW i \in 1..Len(output), Written[i] = Tuple(x) PROVE FALSE
    <3>1. output[i] = x
      BY <1>1, <2>2, TuplesDiffer
    <3> QED BY <3>1 DEF OutputTuples
  <2> QED BY <1>1, <2>1, <2>2 DEF WrittenTuples
<1>3. ASSUME NEW t \in File \ WrittenTuples
      PROVE  \E x \in (Chunks \X Rows) \ OutputTuples : Tuple(x) = t
  <2>1. PICK x \in Chunks \X Rows : Tuple(x) = t
    BY EveryTuple
  <2>2. ASSUME NEW i \in 1..Len(output), output[i] = x PROVE FALSE
    BY <1>1, <2>1, <2>2 DEF WrittenTuples
  <2> QED BY <2>1, <2>2 DEF OutputTuples
<1> QED BY <1>2, <1>3

LEMMA EmitsToFile ==
  ASSUME SortInv, pc = "merge", UNCHANGED vars, MP!WriteTuple
  PROVE  \E t \in File \ WrittenTuples : FileSort!Emit(t)
<1>1. IInv /\ MP!IInv /\ output \in Seq(Chunks \X Rows)
  BY MergeConstants DEF SortInv, MP!IInv, MP!TypeOK
<1>2. PICK x \in (Chunks \X Rows) \ OutputTuples : MP!Sort!Emit(x)
  BY <1>1, MergeConstants, MP!Emits DEF OutputTuples
<1> DEFINE keys == [y \in MP!Tuples |-> MP!KeyOf(y)]
<1>3. /\ output' = Append(output, x)
      /\ \A y \in (Chunks \X Rows) \ OutputTuples : keys[x] <= keys[y]
      /\ (mpc = "done")' = (mpc = "done")
  BY <1>2, MergeConstants DEF MP!Sort!Emit, OutputTuples
<1>4. ASSUME NEW y \in Chunks \X Rows PROVE keys[y] = input[Tuple(y)]
  <2>1. keys[y] = KeyOf(Tuple(y))
    BY MergeConstants DEF MP!KeyOf, Tuple
  <2> QED BY <1>1, <2>1, TupleInFile DEF Tuple
<1> HIDE DEF keys
<1>5. Tuple(x) \in File \ WrittenTuples
  BY <1>1, SameRemaining
<1>6. ASSUME NEW t \in File \ WrittenTuples
      PROVE  input[Tuple(x)] <= input[t]
  <2>1. PICK y \in (Chunks \X Rows) \ OutputTuples : Tuple(y) = t
    BY <1>1, SameRemaining
  <2> QED BY <1>3, <1>4, <2>1
<1>7. /\ Written \in Seq(File) /\ Len(Written) = Len(output) /\ Len(output) \in Nat
      /\ \A i \in 1..Len(output) : Written[i] = Tuple(output[i])
  BY <1>1, WrittenSeq
<1>8. /\ Len(output') = Len(output) + 1
      /\ \A i \in 1..Len(output) : output'[i] = output[i]
      /\ output'[Len(output) + 1] = x
  BY <1>1, <1>3, AppendProperties
<1>9. \A y : Tuple(y)' = Tuple(y)
  BY RunsSame DEF Tuple
<1>10. Written' = [i \in 1..Len(output') |-> Tuple(output'[i])]
  BY RunsSame DEF Written, Tuple
<1>11. /\ Len(Written') = Len(output) + 1
       /\ \A i \in 1..Len(output) : Written'[i] = Written[i]
       /\ Written'[Len(output) + 1] = Tuple(x)
       /\ Written' \in Seq(File)
  <2>1. \A i \in 1..Len(output) : Tuple(output'[i]) = Written[i] /\ Written[i] \in File
    BY <1>7, <1>8
  <2>2. Tuple(output'[Len(output) + 1]) = Tuple(x)
    BY <1>8
  <2>3. \A i \in 1..(Len(output) + 1) : i \in 1..Len(output) \/ i = Len(output) + 1
    BY <1>7
  <2>4. \A i \in 1..(Len(output) + 1) : Tuple(output'[i]) \in File
    BY <1>5, <2>1, <2>2, <2>3
  <2> QED BY <1>7, <1>8, <1>10, <2>1, <2>2, <2>4
<1>12. Written' = Append(Written, Tuple(x))
  <2>1. /\ Append(Written, Tuple(x)) \in Seq(File)
        /\ Len(Append(Written, Tuple(x))) = Len(output) + 1
        /\ \A i \in 1..Len(output) : Append(Written, Tuple(x))[i] = Written[i]
        /\ Append(Written, Tuple(x))[Len(output) + 1] = Tuple(x)
    BY <1>5, <1>7, AppendProperties
  <2>2. \A i \in 1..Len(Written') : Written'[i] = Append(Written, Tuple(x))[i]
    BY <1>7, <1>11, <2>1
  <2> QED BY <1>11, <2>1, <2>2, SeqEqual
<1>13. WrittenTuples' = WrittenTuples \cup {Tuple(x)}
  <2>1. \A i \in 1..(Len(output) + 1) : i \in 1..Len(output) \/ i = Len(output) + 1
    BY <1>7
  <2>2. \A i \in 1..Len(output) : i \in 1..(Len(output) + 1)
    BY <1>7
  <2>3. Len(output) + 1 \in 1..(Len(output) + 1)
    BY <1>7
  <2> QED BY <1>7, <1>11, <2>1, <2>2, <2>3 DEF WrittenTuples
<1>14. input' = input
  BY RunsSame
<1>15. PICK t \in File \ WrittenTuples : t = Tuple(x)
  BY <1>5
<1>16. FileSort!Emit(t)
  <2>1. (File \ WrittenTuples)' = (File \ WrittenTuples) \ {t}
    BY <1>13, <1>15
  <2> QED BY <1>3, <1>6, <1>12, <1>14, <1>15, <2>1 DEF FileSort!Emit, WrittenTuples
<1> QED BY <1>16

LEMMA CompletesFile ==
  ASSUME SortInv, pc = "merge", UNCHANGED vars, MP!Finish
  PROVE  FileSort!Complete
<1>1. IInv /\ MP!IInv /\ output \in Seq(Chunks \X Rows)
  BY MergeConstants DEF SortInv, MP!IInv, MP!TypeOK
<1>2. (Chunks \X Rows) \ OutputTuples = {}
  BY <1>1, MergeConstants, MP!Completes DEF MP!Sort!Complete, OutputTuples
<1>3. File \ WrittenTuples = {}
  BY <1>1, <1>2, SameRemaining
<1>4. output' = output /\ mpc' = "done"
  BY DEF MP!Finish
<1>5. Written' = Written /\ input' = input
  BY <1>4, RunsSame DEF Written
<1> QED BY <1>3, <1>4, <1>5 DEF FileSort!Complete, WrittenTuples

LEMMA FormsKeepInput ==
  ASSUME Main \/ StartTask \/ \E t \in Tasks : Work(t)
  PROVE  input' = input
BY DEF Main, AddLoad, AddStore, WaitAll, SegmentsLoaded, SortChunk, RunStored,
  StartTask, Work, ReadTuple, ToColumnStore, WriteTuple, PrepTuple, FinishTask, Advance

LEMMA Invisible ==
  ASSUME input' = input, Written' = Written, (mpc = "done")' = (mpc = "done")
  PROVE  UNCHANGED FileSort!mvars
BY DEF FileSort!mvars

(* The benchmark writes a least tuple of those of the input file that are left,
   one after the other until none is: it sorts the file, whatever order the
   threads run in. *)
THEOREM ExternalSortSorts == SortSpec => FileSort!MSafety
<1>1. SortInit => FileSort!MInit
  <2> SUFFICES ASSUME SortInit PROVE FileSort!MInit
    OBVIOUS
  <2>1. output = <<>> /\ Len(output) = 0 /\ mpc = "init" /\ input \in [File -> Keys]
    BY DEF SortInit, Init
  <2>2. Written = [i \in 1..0 |-> Tuple(output[i])]
    BY <2>1 DEF Written, Tuple
  <2>3. Written = <<>> /\ 1..Len(Written) = {}
    BY <2>2
  <2>4. DOMAIN input = File /\ (mpc = "done") = FALSE
    BY <2>1
  <2> QED BY <2>3, <2>4 DEF FileSort!MInit
<1>2. SortInv /\ [SortNext]_allvars => [FileSort!MNext]_(FileSort!mvars)
  <2> SUFFICES ASSUME SortInv, [SortNext]_allvars
               PROVE  [FileSort!MNext]_(FileSort!mvars)
    OBVIOUS
  <2>1. CASE FormRuns
    <3>1. pc # "merge" /\ UNCHANGED merge
      BY <2>1, FormRunsInPhase DEF FormRuns, SortInv
    <3>2. output = <<>> /\ output' = <<>> /\ mpc' = mpc
      BY <3>1 DEF SortInv, NotBegun, merge
    <3>3. input' = input
      BY <2>1, FormsKeepInput DEF FormRuns
    <3>4. Written' = Written
      <4>1. Written = [i \in 1..0 |-> Tuple(output[i])]
        BY <3>2 DEF Written, Tuple
      <4>2. Written' = [i \in 1..0 |-> Tuple(output[i])']
        BY <3>2 DEF Written, Tuple
      <4>3. Written = <<>> /\ Written' = <<>>
        BY <4>1, <4>2
      <4> QED BY <4>3
    <3> QED BY <3>2, <3>3, <3>4, Invisible
  <2>2. CASE MergeRuns
    <3>1. pc = "merge" /\ UNCHANGED vars /\ MP!Merge
      BY <2>2, SameMerge DEF MergeRuns, AllRunsStored
    <3>2. CASE MP!WriteTuple
      BY <3>1, <3>2, EmitsToFile DEF FileSort!MNext, WrittenTuples
    <3>3. CASE MP!Finish
      BY <3>1, <3>3, CompletesFile DEF FileSort!MNext
    <3>4. CASE MP!InitChunk \/ MP!StepOn \/ MP!Refill \/ \E r \in MP!Chunks : MP!Pop(r)
      <4>1. output' = output /\ (mpc = "done")' = (mpc = "done")
        BY <3>4 DEF MP!InitChunk, MP!StepOn, MP!Refill, MP!Pop
      <4>2. Written' = Written /\ input' = input
        BY <3>1, <4>1, RunsSame DEF Written
      <4> QED BY <4>1, <4>2, Invisible
    <3> QED BY <3>1, <3>2, <3>3, <3>4 DEF MP!Merge
  <2>3. CASE UNCHANGED allvars
    <3>1. UNCHANGED vars /\ output' = output /\ mpc' = mpc
      BY <2>3 DEF allvars, merge
    <3>2. Written' = Written /\ input' = input
      BY <3>1, RunsSame DEF Written
    <3> QED BY <3>1, <3>2, Invisible
  <2> QED BY <2>1, <2>2, <2>3 DEF SortNext, Stopped
<1> QED BY <1>1, <1>2, SortInvariance, PTL DEF SortSpec, FileSort!MSafety

=============================================================================

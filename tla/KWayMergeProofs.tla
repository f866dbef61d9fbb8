--------------------------- MODULE KWayMergeProofs ---------------------------
(***************************************************************************)
(* Theorems about KWayMerge, for any number of runs, any length of a run,  *)
(* any size of the windows and any keys.                                   *)
(*                                                                         *)
(* The argument: NextOf(r), how many tuples of run r have been written, is *)
(* what the window and the file have delivered less what is left in the    *)
(* window.  The output consists of exactly those tuples, and none of them  *)
(* has a key greater than that of a run's next tuple; the queue holds      *)
(* every run that has a next tuple, so its least element is a least one of *)
(* all that remain.                                                        *)
(***************************************************************************)
EXTENDS KWayMerge, TLAPS

(* How many tuples of run r have been written. *)
NextOf(r) == IF first_run[r] THEN 0 ELSE BufferTuples + from[r] - size[r]

(* The run that is popped, written and about to be pushed again. *)
InHand(r) == pc \in {"write", "advance"} /\ r = min_tuple

(* How many places of the window, from buffer on, hold tuples of the file that
   are not behind the run: the one just written is still there. *)
Live(r) == IF pc = "advance" /\ r = min_tuple THEN size[r] + 1 ELSE size[r]

WindowsOK ==
  \A r \in Chunks :
    /\ first_run[r] =>
         /\ from[r] = 0 /\ size[r] = 0 /\ buffer[r] = NullPtr
         /\ \A k \in Window : memory[r][k] = k
    /\ ~first_run[r] /\ buffer[r] = NullPtr =>
         size[r] = 0 /\ from[r] = ChunkTuples - BufferTuples
    /\ buffer[r] # NullPtr =>
         /\ Live(r) >= 1 /\ buffer[r] + Live(r) <= BufferTuples
         /\ \A k \in Window :
              buffer[r] <= k /\ k < buffer[r] + Live(r) =>
                memory[r][k] = BufferTuples + from[r] - (buffer[r] + Live(r)) + k

QueueOK ==
  /\ \A r \in Chunks :
       r \in tuple_pqueue <=> buffer[r] # NullPtr /\ ~InHand(r)
  /\ pc \in {"write", "advance"} => buffer[min_tuple] # NullPtr
  /\ pc = "done" => tuple_pqueue = {}

PhasesOK ==
  /\ pc = "init" =>
       /\ idx < NChunks /\ output = <<>>
       /\ \A r \in Chunks : first_run[r] <=> idx <= r
       /\ \A r \in Chunks : from[r] = 0 /\ NextOf(r) = 0
  /\ pc # "init" => \A r \in Chunks : ~first_run[r]

OutputOK ==
  /\ \A i \in 1..Len(output) : output[i][2] < NextOf(output[i][1])
  /\ \A r \in Chunks, j \in Rows :
       j < NextOf(r) => \E i \in 1..Len(output) : output[i] = <<r, j>>

OrderOK ==
  \A r \in Chunks : NextOf(r) < ChunkTuples =>
    /\ \A i \in 1..Len(output) : KeyOf(output[i]) <= runs[r][NextOf(r)]
    /\ pc = "write" => FrontKey(min_tuple) <= runs[r][NextOf(r)]

IInv ==
  /\ TypeOK /\ WindowsOK /\ QueueOK /\ PhasesOK /\ OutputOK /\ OrderOK
  /\ OutputSorted /\ NoDuplicates

-----------------------------------------------------------------------------
(* Facts about one state. *)

(* The types of the constants, as the provers want them. *)
LEMMA Constants ==
  /\ NChunks \in Nat /\ ChunkTuples \in Nat /\ BufferTuples \in Nat
  /\ NChunks >= 1 /\ BufferTuples >= 1 /\ BufferTuples <= ChunkTuples
  /\ 0 \in Chunks /\ 0 \in Window
  /\ Chunks \subseteq Nat /\ Rows \subseteq Nat /\ Window \subseteq Nat
  /\ NullPtr \notin Window
BY MergeAssumption DEF Chunks, Rows, Window

(* How much of a run has been written is a number of tuples. *)
LEMMA NextOfType ==
  ASSUME TypeOK, WindowsOK, NEW r \in Chunks
  PROVE  NextOf(r) \in 0..ChunkTuples
<1> USE Constants
<1>1. from[r] \in 0..(ChunkTuples - BufferTuples) /\ size[r] \in 0..BufferTuples
  BY DEF TypeOK
<1> QED BY <1>1 DEF NextOf

(* A run that points to a tuple points to its first tuple not yet written. *)
LEMMA FrontIsNext ==
  ASSUME TypeOK, WindowsOK, NEW r \in Chunks, buffer[r] # NullPtr,
         ~(pc = "advance" /\ r = min_tuple)
  PROVE  /\ Front(r) = NextOf(r) /\ NextOf(r) \in Rows
         /\ size[r] >= 1 /\ buffer[r] + size[r] <= BufferTuples
<1> USE Constants
<1>1. Live(r) = size[r]
  BY DEF Live
<1>2. /\ from[r] \in 0..(ChunkTuples - BufferTuples) /\ size[r] \in 0..BufferTuples
      /\ buffer[r] \in Window /\ first_run[r] \in BOOLEAN
  BY DEF TypeOK
<1>3. ~first_run[r]
  BY DEF WindowsOK
<1>4. /\ size[r] >= 1 /\ buffer[r] + size[r] <= BufferTuples
      /\ memory[r][buffer[r]] =
           BufferTuples + from[r] - (buffer[r] + size[r]) + buffer[r]
  BY <1>1, <1>2 DEF WindowsOK, Window
<1>5. Front(r) = BufferTuples + from[r] - size[r]
  BY <1>2, <1>4 DEF Front, Window
<1> QED BY <1>2, <1>3, <1>4, <1>5 DEF NextOf, Rows

(* A run that points to no tuple has been written to its end. *)
LEMMA NullMeansAll ==
  ASSUME TypeOK, WindowsOK, NEW r \in Chunks, buffer[r] = NullPtr, ~first_run[r]
  PROVE  NextOf(r) = ChunkTuples
BY Constants DEF WindowsOK, NextOf

-----------------------------------------------------------------------------
(* The initial states. *)

LEMMA InitEstablishes == Init => IInv
<1> SUFFICES ASSUME Init PROVE IInv
  OBVIOUS
<1> USE Constants
<1>1. TypeOK
  <2>1. /\ memory \in [Chunks -> [Window -> Rows]]
        /\ from \in [Chunks -> 0..(ChunkTuples - BufferTuples)]
        /\ size \in [Chunks -> 0..BufferTuples]
    BY DEF Init, Window, Rows
  <2> QED BY <2>1 DEF Init, TypeOK
<1>2. \A r \in Chunks :
        /\ first_run[r] /\ from[r] = 0 /\ size[r] = 0 /\ buffer[r] = NullPtr
        /\ NextOf(r) = 0 /\ \A k \in Window : memory[r][k] = k
  BY DEF Init, NextOf
<1>3. WindowsOK
  BY <1>2 DEF WindowsOK
<1>4. QueueOK
  BY <1>2 DEF Init, QueueOK
<1>5. PhasesOK
  BY <1>2 DEF Init, PhasesOK, Chunks
<1>6. OutputOK /\ OrderOK /\ OutputSorted /\ NoDuplicates
  <2>1. Len(output) = 0 /\ 1..Len(output) = {} /\ pc # "write"
    BY DEF Init
  <2>2. \A r \in Chunks, j \in Rows : ~(j < NextOf(r))
    BY <1>2 DEF Rows
  <2> QED BY <2>1, <2>2 DEF OutputOK, OrderOK, OutputSorted, NoDuplicates
<1> QED BY <1>1, <1>3, <1>4, <1>5, <1>6 DEF IInv

-----------------------------------------------------------------------------
(* The steps.  The lemma of each action names what the action leaves alone
   first, and then goes through the parts of the invariant it can disturb. *)

LEMMA InitChunkKeeps == IInv /\ InitChunk => IInv'
<1> SUFFICES ASSUME IInv, InitChunk PROVE IInv'
  OBVIOUS
<1> USE Constants
<1>0. TypeOK /\ WindowsOK /\ QueueOK /\ PhasesOK /\ OutputOK /\ OrderOK
  BY DEF IInv
<1>1. /\ idx \in Chunks /\ idx \in Nat /\ pc = "init" /\ output = <<>>
      /\ \A r \in Chunks : first_run[r] <=> idx <= r
      /\ \A r \in Chunks : from[r] = 0 /\ NextOf(r) = 0
  BY <1>0 DEF InitChunk, PhasesOK, TypeOK, Chunks
<1>2. /\ first_run' = [first_run EXCEPT ![idx] = FALSE]
      /\ buffer' = [buffer EXCEPT ![idx] = 0]
      /\ size' = [size EXCEPT ![idx] = BufferTuples]
      /\ UNCHANGED <<memory, from, runs, min_tuple, output>>
      /\ tuple_pqueue' = tuple_pqueue \cup {idx} /\ idx' = idx + 1
      /\ pc' = IF idx + 1 = NChunks THEN "pop" ELSE "init"
  BY <1>1 DEF InitChunk, CallNext, FirstWindow
<1>3. TypeOK'
  BY <1>0, <1>1, <1>2 DEF TypeOK, Chunks
<1>4. \A r \in Chunks : NextOf(r)' = 0
  BY <1>0, <1>1, <1>2 DEF TypeOK, NextOf
<1>5. \A r \in Chunks : Live(r)' = IF r = idx THEN BufferTuples ELSE Live(r)
  BY <1>0, <1>1, <1>2 DEF TypeOK, Live
<1>6. WindowsOK'
  <2> SUFFICES ASSUME NEW r \in Chunks PROVE WindowsOK!(r)'
    BY DEF WindowsOK
  <2>1. CASE r = idx
    BY <2>1, <1>0, <1>1, <1>2, <1>5 DEF WindowsOK, TypeOK, Window
  <2>2. CASE r # idx
    BY <2>2, <1>0, <1>1, <1>2, <1>5 DEF WindowsOK, TypeOK
  <2> QED BY <2>1, <2>2
<1>7. QueueOK'
  BY <1>0, <1>1, <1>2 DEF QueueOK, InHand, TypeOK, Window
<1>8. PhasesOK'
  BY <1>0, <1>1, <1>2, <1>4 DEF PhasesOK, TypeOK, Chunks
<1>9. OutputOK' /\ OrderOK' /\ OutputSorted' /\ NoDuplicates'
  <2>1. 1..Len(output') = {} /\ pc' # "write"
    BY <1>1, <1>2
  <2>2. \A r \in Chunks, j \in Rows : ~(j < NextOf(r)')
    BY <1>4
  <2> QED BY <2>1, <2>2 DEF OutputOK, OrderOK, OutputSorted, NoDuplicates
<1> QED BY <1>3, <1>6, <1>7, <1>8, <1>9 DEF IInv

LEMMA PopKeeps == ASSUME NEW r \in Chunks PROVE IInv /\ Pop(r) => IInv'
<1> SUFFICES ASSUME IInv, Pop(r) PROVE IInv'
  OBVIOUS
<1> USE Constants
<1>0. TypeOK /\ WindowsOK /\ QueueOK /\ PhasesOK /\ OutputOK /\ OrderOK
  BY DEF IInv
<1>1. /\ pc = "pop" /\ pc' = "write" /\ min_tuple' = r /\ r \in tuple_pqueue
      /\ \A q \in tuple_pqueue : FrontKey(r) <= FrontKey(q)
      /\ tuple_pqueue' = tuple_pqueue \ {r}
      /\ UNCHANGED <<runs, idx, memory, first_run, from, buffer, size, output>>
  BY DEF Pop, Popped, Least
<1>2. /\ \A q \in Chunks : NextOf(q)' = NextOf(q) /\ Live(q)' = Live(q)
      /\ FrontKey(min_tuple)' = FrontKey(r)
      /\ \A q \in Chunks : ~first_run[q]
  BY <1>0, <1>1 DEF NextOf, Live, FrontKey, Front, PhasesOK
<1>3. TypeOK'
  BY <1>0, <1>1 DEF TypeOK
<1>4. WindowsOK'
  BY <1>0, <1>1, <1>2 DEF WindowsOK
<1>5. QueueOK'
  BY <1>0, <1>1 DEF QueueOK, InHand
<1>6. PhasesOK'
  BY <1>0, <1>1, <1>2 DEF PhasesOK
<1>7. OutputOK' /\ OutputSorted' /\ NoDuplicates'
  <2>1. OutputOK'
    <3>1. \A i \in 1..Len(output) : output[i][1] \in Chunks
      BY <1>0 DEF TypeOK, Tuples
    <3> QED BY <3>1, <1>0, <1>1, <1>2 DEF OutputOK
  <2> QED BY <2>1, <1>1 DEF IInv, OutputSorted, NoDuplicates, KeyOf
<1>8. OrderOK'
  <2> SUFFICES ASSUME NEW q \in Chunks, NextOf(q)' < ChunkTuples
               PROVE  /\ \A i \in 1..Len(output') : KeyOf(output[i])' <= runs'[q][NextOf(q)']
                      /\ FrontKey(min_tuple)' <= runs'[q][NextOf(q)']
    BY DEF OrderOK
  <2>1. \A i \in 1..Len(output') : KeyOf(output[i])' <= runs'[q][NextOf(q)']
    BY <1>0, <1>1, <1>2 DEF OrderOK, KeyOf
  <2>2. buffer[q] # NullPtr
    BY <1>0, <1>2, NullMeansAll
  <2>3. q \in tuple_pqueue
    BY <2>2, <1>0, <1>1 DEF QueueOK, InHand
  <2>4. Front(q) = NextOf(q)
    BY <2>2, <1>0, <1>1, FrontIsNext
  <2> QED BY <2>1, <2>3, <2>4, <1>1, <1>2 DEF FrontKey
<1> QED BY <1>3, <1>4, <1>5, <1>6, <1>7, <1>8 DEF IInv

LEMMA FinishKeeps == IInv /\ Finish => IInv'
<1> SUFFICES ASSUME IInv, Finish PROVE IInv'
  OBVIOUS
<1>0. TypeOK /\ WindowsOK /\ QueueOK /\ PhasesOK /\ OutputOK /\ OrderOK
  BY DEF IInv
<1>1. /\ pc = "pop" /\ pc' = "done" /\ tuple_pqueue = {}
      /\ UNCHANGED <<runs, idx, memory, first_run, from, buffer, size,
                     tuple_pqueue, min_tuple, output>>
  BY DEF Finish
<1>2. \A q \in Chunks : NextOf(q)' = NextOf(q) /\ Live(q)' = Live(q)
  BY <1>1 DEF NextOf, Live
<1>3. TypeOK' /\ WindowsOK' /\ QueueOK' /\ PhasesOK'
  <2>1. TypeOK'
    BY <1>0, <1>1 DEF TypeOK
  <2>2. WindowsOK'
    BY <1>0, <1>1, <1>2 DEF WindowsOK
  <2>3. QueueOK' /\ PhasesOK'
    BY <1>0, <1>1, <1>2 DEF QueueOK, InHand, PhasesOK
  <2> QED BY <2>1, <2>2, <2>3
<1>4. \A i \in 1..Len(output) : output[i][1] \in Chunks
  BY <1>0 DEF TypeOK, Tuples
<1>5. OutputOK' /\ OrderOK'
  BY <1>0, <1>1, <1>2, <1>4 DEF OutputOK, OrderOK, KeyOf
<1>6. OutputSorted' /\ NoDuplicates'
  BY <1>1 DEF IInv, OutputSorted, NoDuplicates, KeyOf
<1> QED BY <1>3, <1>5, <1>6 DEF IInv

LEMMA WriteTupleKeeps == IInv /\ WriteTuple => IInv'
<1> SUFFICES ASSUME IInv, WriteTuple PROVE IInv'
  OBVIOUS
<1> USE Constants
<1>0. /\ TypeOK /\ WindowsOK /\ QueueOK /\ PhasesOK /\ OutputOK /\ OrderOK
      /\ OutputSorted /\ NoDuplicates
  BY DEF IInv
<1>a. PICK m \in Chunks : m = min_tuple
  BY <1>0 DEF TypeOK
<1>b. PICK new : new = <<m, Front(m)>>
  OBVIOUS
<1>1. /\ pc = "write" /\ pc' = "advance" /\ output' = Append(output, new)
      /\ size' = [size EXCEPT ![m] = @ - 1]
      /\ UNCHANGED <<runs, idx, memory, first_run, from, buffer, tuple_pqueue,
                     min_tuple>>
  BY <1>a, <1>b DEF WriteTuple
<1>2. m = min_tuple /\ buffer[m] # NullPtr /\ \A q \in Chunks : ~first_run[q]
  BY <1>0, <1>1, <1>a DEF QueueOK, PhasesOK, TypeOK
<1>3. /\ Front(m) = NextOf(m) /\ NextOf(m) \in Rows
      /\ size[m] >= 1 /\ buffer[m] + size[m] <= BufferTuples
  BY <1>0, <1>1, <1>2, FrontIsNext
<1>4. /\ size \in [Chunks -> 0..BufferTuples] /\ output \in Seq(Tuples)
      /\ from \in [Chunks -> 0..(ChunkTuples - BufferTuples)]
      /\ new = <<m, NextOf(m)>> /\ new \in Tuples
  BY <1>0, <1>2, <1>3, <1>b DEF TypeOK, Tuples
<1>5. /\ \A q \in Chunks :
           NextOf(q)' = IF q = m THEN NextOf(q) + 1 ELSE NextOf(q)
      /\ \A q \in Chunks : NextOf(q) \in 0..ChunkTuples
      /\ \A q \in Chunks : Live(q)' = Live(q)
  <2>1. \A q \in Chunks : NextOf(q) \in 0..ChunkTuples
    BY <1>0, NextOfType
  <2>2. \A q \in Chunks : Live(q)' = Live(q)
    BY <1>1, <1>2, <1>4 DEF Live
  <2>3. ASSUME NEW q \in Chunks
        PROVE  NextOf(q)' = IF q = m THEN NextOf(q) + 1 ELSE NextOf(q)
    <3>1. NextOf(q) = BufferTuples + from[q] - size[q]
      BY <1>2 DEF NextOf
    <3>2. NextOf(q)' = BufferTuples + from[q] - size'[q]
      BY <1>1, <1>2 DEF NextOf
    <3>3. size'[q] = IF q = m THEN size[q] - 1 ELSE size[q]
      BY <1>1, <1>4
    <3>4. size[q] \in Nat /\ from[q] \in Nat
      BY <1>4
    <3> QED BY <3>1, <3>2, <3>3, <3>4
  <2> QED BY <2>1, <2>2, <2>3
<1>6. /\ Len(output') = Len(output) + 1 /\ Len(output) \in Nat
      /\ \A i \in 1..Len(output) : output'[i] = output[i] /\ output[i] \in Tuples
      /\ output'[Len(output) + 1] = new
  BY <1>1, <1>4
<1>7. TypeOK'
  <2>1. size' \in [Chunks -> 0..BufferTuples]
    BY <1>1, <1>2, <1>3, <1>4
  <2>2. output' \in Seq(Tuples)
    BY <1>1, <1>4
  <2> QED BY <2>1, <2>2, <1>0, <1>1 DEF TypeOK, Tuples
<1>8. WindowsOK'
  <2> SUFFICES ASSUME NEW r \in Chunks PROVE WindowsOK!(r)'
    BY DEF WindowsOK
  <2>1. CASE r = m
    BY <2>1, <1>0, <1>1, <1>2, <1>5 DEF WindowsOK
  <2>2. CASE r # m
    BY <2>2, <1>0, <1>1, <1>2, <1>4, <1>5 DEF WindowsOK
  <2> QED BY <2>1, <2>2
<1>9. QueueOK' /\ PhasesOK'
  BY <1>0, <1>1 DEF QueueOK, InHand, PhasesOK
<1>10. OutputOK'
  <2>1. ASSUME NEW i \in 1..Len(output')
        PROVE  output'[i][2] < NextOf(output[i][1])'
    <3>a. output'[i] \in Tuples
      <4>1. i \in 1..Len(output) \/ i = Len(output) + 1
        BY <1>6
      <4> QED BY <1>4, <1>6, <4>1
    <3>1. PICK q, j : output'[i] = <<q, j>> /\ q \in Chunks /\ j \in Rows
      BY <3>a DEF Tuples
    <3>2. j < NextOf(q)'
      <4>1. CASE i = Len(output) + 1
        BY <4>1, <3>1, <1>4, <1>5, <1>6 DEF Rows
      <4>2. CASE i \in 1..Len(output)
        <5>1. j < NextOf(q)
          BY <4>2, <3>1, <1>0, <1>6 DEF OutputOK
        <5> QED BY <5>1, <3>1, <1>5 DEF Rows
      <4> QED BY <4>1, <4>2, <1>6
    <3> QED BY <3>1, <3>2 DEF NextOf
  <2>2. ASSUME NEW r \in Chunks, NEW j \in Rows, j < NextOf(r)'
        PROVE  \E i \in 1..Len(output') : output'[i] = <<r, j>>
    <3>1. CASE r = m /\ j = NextOf(m)
      BY <3>1, <1>4, <1>6
    <3>2. CASE ~(r = m /\ j = NextOf(m))
      <4>1. j < NextOf(r)
        <5>1. NextOf(r) \in Nat /\ j \in Nat
          BY <1>5 DEF Rows
        <5> QED BY <5>1, <3>2, <2>2, <1>5
      <4>2. PICK i \in 1..Len(output) : output[i] = <<r, j>>
        BY <4>1, <1>0 DEF OutputOK
      <4> QED BY <4>2, <1>6
    <3> QED BY <3>1, <3>2
  <2>3. OutputOK!1'
    BY <2>1
  <2>4. OutputOK!2'
    BY <2>2
  <2> QED BY <2>3, <2>4 DEF OutputOK
<1>11. /\ runs \in [Chunks -> SortedRuns] /\ runs' = runs
       /\ \A q \in Chunks, j \in Rows : runs[q][j] \in Nat
       /\ \A t \in Tuples : KeyOf(t) \in Nat /\ KeyOf(t)' = KeyOf(t)
       /\ KeyOf(new) = runs[m][NextOf(m)]
  <2>1. runs \in [Chunks -> SortedRuns] /\ runs' = runs
    BY <1>0, <1>1 DEF TypeOK
  <2>2. \A q \in Chunks, j \in Rows : runs[q][j] \in Nat
    BY <2>1, MergeAssumption DEF SortedRuns
  <2>3. \A t \in Tuples : KeyOf(t) \in Nat /\ KeyOf(t)' = KeyOf(t)
    BY <2>1, <2>2 DEF KeyOf, Tuples
  <2>4. KeyOf(new) = runs[m][NextOf(m)]
    BY <1>4 DEF KeyOf
  <2> QED BY <2>1, <2>2, <2>3, <2>4
<1>12. \A i \in 1..Len(output) : KeyOf(output[i]) <= KeyOf(new)
  <2>1. NextOf(m) < ChunkTuples
    BY <1>3 DEF Rows
  <2> QED BY <2>1, <1>0, <1>2, <1>11 DEF OrderOK
<1>13. OrderOK'
  <2> SUFFICES ASSUME NEW r \in Chunks, NextOf(r)' < ChunkTuples
               PROVE  \A i \in 1..Len(output') :
                        KeyOf(output[i])' <= runs[r][NextOf(r)']
    BY <1>1 DEF OrderOK
  <2>1. /\ KeyOf(new) <= runs[r][NextOf(r)']
        /\ NextOf(r)' \in Rows
    <3>1. CASE r = m
      <4>1. NextOf(m) \in Rows /\ NextOf(m)' \in Rows /\ NextOf(m) < NextOf(m)'
        <5>1. NextOf(m)' = NextOf(m) + 1 /\ NextOf(m)' < ChunkTuples
          BY <3>1, <1>5
        <5> QED BY <5>1, <1>3 DEF Rows
      <4>2. runs[m][NextOf(m)] <= runs[m][NextOf(m)']
        BY <4>1, <1>2, <1>11 DEF SortedRuns
      <4> QED BY <3>1, <4>1, <4>2, <1>11
    <3>2. CASE r # m
      <4>1. NextOf(r)' = NextOf(r) /\ NextOf(r) < ChunkTuples /\ NextOf(r) \in Rows
        BY <3>2, <1>5 DEF Rows
      <4>2. FrontKey(m) <= runs[r][NextOf(r)]
        BY <4>1, <1>0, <1>1, <1>2 DEF OrderOK
      <4> QED BY <4>1, <4>2, <1>3, <1>11 DEF FrontKey
    <3> QED BY <3>1, <3>2
  <2>2. ASSUME NEW i \in 1..Len(output')
        PROVE  KeyOf(output[i])' <= runs[r][NextOf(r)']
    <3>1. CASE i = Len(output) + 1
      BY <3>1, <2>1, <1>4, <1>6, <1>11
    <3>2. CASE i \in 1..Len(output)
      <4>1. /\ KeyOf(output[i]) <= KeyOf(new) /\ output[i] \in Tuples
            /\ KeyOf(output[i])' = KeyOf(output[i])
        BY <3>2, <1>6, <1>11, <1>12
      <4>2. KeyOf(output[i]) \in Nat /\ KeyOf(new) \in Nat
        BY <4>1, <1>4, <1>11
      <4>3. runs[r][NextOf(r)'] \in Nat
        BY <2>1, <1>11
      <4> QED BY <4>1, <4>2, <4>3, <2>1
    <3> QED BY <3>1, <3>2, <1>6
  <2> QED BY <2>2
<1>14. OutputSorted'
  <2> SUFFICES ASSUME NEW i \in 1..Len(output'), NEW j \in 1..Len(output'), i < j
               PROVE  KeyOf(output[i])' <= KeyOf(output[j])'
    BY DEF OutputSorted
  <2>1. i \in 1..Len(output) /\ output'[i] = output[i] /\ output[i] \in Tuples
    BY <1>6
  <2>2. CASE j \in 1..Len(output)
    BY <2>1, <2>2, <1>0, <1>6, <1>11 DEF OutputSorted
  <2>3. CASE j = Len(output) + 1
    BY <2>1, <2>3, <1>4, <1>6, <1>11, <1>12
  <2> QED BY <2>2, <2>3, <1>6
<1>15. NoDuplicates'
  <2>1. \A i \in 1..Len(output) : output[i] # new
    <3> SUFFICES ASSUME NEW i \in 1..Len(output), output[i] = new PROVE FALSE
      OBVIOUS
    <3>1. output[i][2] < NextOf(output[i][1])
      BY <1>0 DEF OutputOK
    <3>2. output[i][1] = m /\ output[i][2] = NextOf(m) /\ NextOf(m) \in Nat
      BY <1>a, <1>4, <1>5
    <3> QED BY <3>1, <3>2
  <2> QED BY <2>1, <1>0, <1>6 DEF NoDuplicates
<1> QED BY <1>7, <1>8, <1>9, <1>10, <1>13, <1>14, <1>15 DEF IInv

(* StepOn and Refill only move on within a run: the next tuple of every run,
   and the output, stay the same. *)
LEMMA StepOnKeeps == IInv /\ StepOn => IInv'
<1> SUFFICES ASSUME IInv, StepOn PROVE IInv'
  OBVIOUS
<1> USE Constants
<1>0. TypeOK /\ WindowsOK /\ QueueOK /\ PhasesOK /\ OutputOK /\ OrderOK
  BY DEF IInv
<1>a. PICK m \in Chunks : m = min_tuple
  BY <1>0 DEF TypeOK
<1>1. /\ pc = "advance" /\ pc' = "pop" /\ size[m] # 0
      /\ buffer' = [buffer EXCEPT ![m] = @ + 1]
      /\ tuple_pqueue' = tuple_pqueue \cup {m}
      /\ UNCHANGED <<runs, idx, memory, first_run, from, size, min_tuple, output>>
  BY <1>a DEF StepOn, Pushed
<1>2. /\ \A q \in Chunks : ~first_run[q] /\ size[q] \in Nat
      /\ Live(m) = size[m] + 1 /\ buffer[m] # NullPtr /\ buffer[m] \in Window
      /\ buffer \in [Chunks -> Window \cup {NullPtr}]
  BY <1>0, <1>1, <1>a DEF PhasesOK, TypeOK, Live, QueueOK
<1>3. buffer[m] + 1 + size[m] <= BufferTuples /\ buffer[m] + 1 \in Window
  <2>1. buffer[m] + Live(m) <= BufferTuples
    BY <1>0, <1>2 DEF WindowsOK
  <2>2. size[m] \in Nat /\ size[m] # 0 /\ buffer[m] \in Nat
    BY <1>1, <1>2, <1>a
  <2> QED BY <2>1, <2>2, <1>2 DEF Window
<1>4. /\ \A q \in Chunks : NextOf(q)' = NextOf(q)
      /\ \A q \in Chunks : Live(q)' = size[q]
      /\ \A q \in Chunks : q # m => Live(q) = size[q]
  BY <1>1, <1>a DEF NextOf, Live
<1>5. TypeOK'
  BY <1>0, <1>1, <1>3, <1>a DEF TypeOK
<1>6. WindowsOK'
  <2> SUFFICES ASSUME NEW r \in Chunks PROVE WindowsOK!(r)'
    BY DEF WindowsOK
  <2>1. CASE r = m
    <3>1. buffer'[r] = buffer[r] + 1 /\ buffer'[r] # NullPtr /\ ~first_run'[r]
      BY <2>1, <1>1, <1>2, <1>3, <1>a
    <3>2. \A k \in Window :
            buffer[r] <= k /\ k < buffer[r] + Live(r) =>
              memory[r][k] = BufferTuples + from[r] - (buffer[r] + Live(r)) + k
      BY <2>1, <1>0, <1>2 DEF WindowsOK
    <3>3. /\ buffer'[r] + size[r] = buffer[r] + Live(r)
          /\ \A k \in Window : buffer'[r] <= k => buffer[r] <= k
      BY <3>1, <2>1, <1>2 DEF Window
    <3>4. size[r] >= 1
      BY <2>1, <1>1, <1>2
    <3> QED BY <3>1, <3>2, <3>3, <3>4, <2>1, <1>1, <1>3, <1>4
  <2>2. CASE r # m
    BY <2>2, <1>0, <1>1, <1>2, <1>4 DEF WindowsOK
  <2> QED BY <2>1, <2>2
<1>7. QueueOK' /\ PhasesOK'
  BY <1>0, <1>1, <1>2, <1>3, <1>a DEF QueueOK, InHand, PhasesOK
<1>8. OutputOK' /\ OrderOK'
  <2>1. \A i \in 1..Len(output) : output[i][1] \in Chunks
    BY <1>0 DEF TypeOK, Tuples
  <2> QED BY <2>1, <1>0, <1>1, <1>4 DEF OutputOK, OrderOK, KeyOf
<1>9. OutputSorted' /\ NoDuplicates'
  BY <1>1 DEF IInv, OutputSorted, NoDuplicates, KeyOf
<1> QED BY <1>5, <1>6, <1>7, <1>8, <1>9 DEF IInv

LEMMA RefillKeeps == IInv /\ Refill => IInv'
<1> SUFFICES ASSUME IInv, Refill PROVE IInv'
  OBVIOUS
<1> USE Constants
<1>0. TypeOK /\ WindowsOK /\ QueueOK /\ PhasesOK /\ OutputOK /\ OrderOK
  BY DEF IInv
<1>a. PICK m \in Chunks : m = min_tuple
  BY <1>0 DEF TypeOK
<1>b. PICK n : n = Amount(m)
  OBVIOUS
<1>1. /\ pc = "advance" /\ pc' = "pop" /\ size[m] = 0 /\ ~first_run[m]
      /\ memory' = [memory EXCEPT ![m] =
                      [k \in Window |-> IF k < n THEN BufferTuples + from[m] + k
                                        ELSE memory[m][k]]]
      /\ from' = [from EXCEPT ![m] = from[m] + n]
      /\ size' = [size EXCEPT ![m] = n]
      /\ buffer' = [buffer EXCEPT ![m] = IF n = 0 THEN NullPtr ELSE 0]
      /\ tuple_pqueue' =
           IF buffer'[m] = NullPtr THEN tuple_pqueue ELSE tuple_pqueue \cup {m}
      /\ UNCHANGED <<first_run, runs, idx, min_tuple, output>>
  BY <1>0, <1>a, <1>b DEF Refill, Pushed, CallNext, NextWindow, NextFrom, PhasesOK
<1>2. /\ \A q \in Chunks : ~first_run[q] /\ size[q] \in Nat /\ from[q] \in Nat
      /\ from \in [Chunks -> 0..(ChunkTuples - BufferTuples)]
      /\ size \in [Chunks -> 0..BufferTuples]
      /\ buffer \in [Chunks -> Window \cup {NullPtr}]
      /\ memory \in [Chunks -> [Window -> Rows]]
      /\ buffer[m] # NullPtr
  BY <1>0, <1>1, <1>a DEF PhasesOK, TypeOK, QueueOK
<1>3. /\ n \in 0..BufferTuples /\ from[m] + n <= ChunkTuples - BufferTuples
      /\ n = 0 => from[m] = ChunkTuples - BufferTuples
  BY <1>2, <1>a, <1>b DEF Amount, Left
<1>4. /\ \A q \in Chunks : NextOf(q)' = NextOf(q)
      /\ \A q \in Chunks : Live(q)' = size'[q]
      /\ \A q \in Chunks : q # m => Live(q) = size[q]
  <2>1. ASSUME NEW q \in Chunks PROVE NextOf(q)' = NextOf(q)
    <3>1. /\ NextOf(q) = BufferTuples + from[q] - size[q]
          /\ NextOf(q)' = BufferTuples + from'[q] - size'[q]
      BY <1>1, <1>2 DEF NextOf
    <3>2. /\ from'[q] = IF q = m THEN from[q] + n ELSE from[q]
          /\ size'[q] = IF q = m THEN n ELSE size[q]
      BY <1>1, <1>2
    <3>3. n \in Nat /\ from[q] \in Nat /\ size[q] \in Nat /\ (q = m => size[q] = 0)
      BY <1>1, <1>2, <1>3
    <3> QED BY <3>1, <3>2, <3>3
  <2> QED BY <2>1, <1>1, <1>a DEF Live
<1>5. TypeOK'
  <2>1. from' \in [Chunks -> 0..(ChunkTuples - BufferTuples)]
    BY <1>1, <1>2, <1>3, <1>a
  <2>2. ASSUME NEW k \in Window, k < n PROVE BufferTuples + from[m] + k \in Rows
    <3>1. k \in Nat /\ n \in Nat /\ from[m] \in Nat
      BY <1>2, <1>3, <1>a
    <3>2. BufferTuples + from[m] + k < ChunkTuples
      BY <3>1, <2>2, <1>3
    <3> QED BY <3>1, <3>2 DEF Rows
  <2>3. memory' \in [Chunks -> [Window -> Rows]]
    BY <2>2, <1>1, <1>2, <1>a
  <2>4. buffer' \in [Chunks -> Window \cup {NullPtr}] /\ size' \in [Chunks -> 0..BufferTuples]
    BY <1>1, <1>2, <1>3, <1>a
  <2>5. tuple_pqueue' \subseteq Chunks
    BY <1>0, <1>1, <1>a DEF TypeOK
  <2> QED BY <2>1, <2>3, <2>4, <2>5, <1>0, <1>1 DEF TypeOK
<1>6. WindowsOK'
  <2> SUFFICES ASSUME NEW r \in Chunks PROVE WindowsOK!(r)'
    BY DEF WindowsOK
  <2>1. CASE r = m
    <3>1. /\ buffer'[r] = IF n = 0 THEN NullPtr ELSE 0
          /\ size'[r] = n /\ from'[r] = from[r] + n /\ ~first_run'[r]
          /\ \A k \in Window : k < n => memory'[r][k] = BufferTuples + from[r] + k
      BY <2>1, <1>1, <1>2, <1>a
    <3>2. n = 0 => from'[r] = ChunkTuples - BufferTuples
      BY <3>1, <2>1, <1>2, <1>3
    <3>3. /\ Live(r)' = n /\ n \in Nat /\ from[r] \in Nat /\ 0 # NullPtr
          /\ n <= BufferTuples /\ \A k \in Window : k \in Nat
      BY <3>1, <1>2, <1>3, <1>4
    <3> QED BY <3>1, <3>2, <3>3
  <2>2. CASE r # m
    BY <2>2, <1>0, <1>1, <1>2, <1>4 DEF WindowsOK
  <2> QED BY <2>1, <2>2
<1>7. QueueOK' /\ PhasesOK'
  BY <1>0, <1>1, <1>2, <1>a DEF QueueOK, InHand, PhasesOK
<1>8. OutputOK' /\ OrderOK'
  <2>1. \A i \in 1..Len(output) : output[i][1] \in Chunks
    BY <1>0 DEF TypeOK, Tuples
  <2>2. OutputOK'
    BY <2>1, <1>0, <1>1, <1>4 DEF OutputOK
  <2>3. OrderOK'
    BY <2>1, <1>0, <1>1, <1>4 DEF OrderOK, KeyOf
  <2> QED BY <2>2, <2>3
<1>9. OutputSorted' /\ NoDuplicates'
  BY <1>1 DEF IInv, OutputSorted, NoDuplicates, KeyOf
<1> QED BY <1>5, <1>6, <1>7, <1>8, <1>9 DEF IInv

-----------------------------------------------------------------------------
(* The theorems. *)

LEMMA NextKeeps == IInv /\ [Next]_vars => IInv'
<1> SUFFICES ASSUME IInv, [Next]_vars PROVE IInv'
  OBVIOUS
<1>1. CASE InitChunk
  BY <1>1, InitChunkKeeps
<1>2. CASE WriteTuple
  BY <1>2, WriteTupleKeeps
<1>3. CASE StepOn
  BY <1>3, StepOnKeeps
<1>4. CASE Refill
  BY <1>4, RefillKeeps
<1>5. CASE Finish
  BY <1>5, FinishKeeps
<1>6. ASSUME NEW r \in Chunks, Pop(r) PROVE IInv'
  BY <1>6, PopKeeps
<1>7. CASE UNCHANGED vars
  <2>1. \A q \in Chunks : NextOf(q)' = NextOf(q) /\ Live(q)' = Live(q)
    BY <1>7 DEF vars, NextOf, Live
  <2>2. TypeOK' /\ WindowsOK' /\ QueueOK' /\ PhasesOK'
    <3>1. TypeOK' /\ QueueOK'
      BY <1>7 DEF IInv, vars, TypeOK, QueueOK, InHand
    <3>2. WindowsOK' /\ PhasesOK'
      BY <2>1, <1>7 DEF IInv, vars, WindowsOK, PhasesOK
    <3> QED BY <3>1, <3>2
  <2>3. \A i \in 1..Len(output) : output[i][1] \in Chunks
    BY DEF IInv, TypeOK, Tuples
  <2>4. OutputOK'
    BY <2>1, <2>3, <1>7 DEF IInv, vars, OutputOK
  <2>5. OrderOK'
    BY <2>1, <1>7 DEF IInv, vars, OrderOK, KeyOf, FrontKey, Front
  <2>6. OutputSorted' /\ NoDuplicates'
    BY <1>7 DEF IInv, vars, OutputSorted, NoDuplicates, KeyOf
  <2> QED BY <2>2, <2>4, <2>5, <2>6 DEF IInv
<1> QED
  BY <1>1, <1>2, <1>3, <1>4, <1>5, <1>6, <1>7 DEF Next, Merge, Terminated

(* The invariant holds in every state of the merge. *)
THEOREM Invariance == Spec => []IInv
<1>1. Init => IInv
  BY InitEstablishes
<1>2. IInv /\ [Next]_vars => IInv'
  BY NextKeeps
<1> QED BY <1>1, <1>2, PTL DEF Spec

(* The merge loop of MergeBenchmark::run never leaves a window or a temporary
   file, whatever the lengths of runs and windows are. *)
THEOREM TypeCorrect == Spec => []TypeOK
<1>1. IInv => TypeOK
  BY DEF IInv
<1> QED BY <1>1, Invariance, PTL

(* What the merge has written is sorted by key at every moment. *)
THEOREM SortedOutput == Spec => []OutputSorted
<1>1. IInv => OutputSorted
  BY DEF IInv
<1> QED BY <1>1, Invariance, PTL

(* The merge writes no tuple twice. *)
THEOREM EachTupleOnce == Spec => []NoDuplicates
<1>1. IInv => NoDuplicates
  BY DEF IInv
<1> QED BY <1>1, Invariance, PTL

(* What an element of the priority queue points to does not change while it is
   in the queue. *)
THEOREM QueueIsStable == Spec => QueuedKeysStable
<1>1. ASSUME IInv, [Next]_vars,
             NEW r \in tuple_pqueue \cap tuple_pqueue'
      PROVE  <<buffer[r], Front(r)>>' = <<buffer[r], Front(r)>>
  <2>0. TypeOK /\ QueueOK /\ PhasesOK /\ r \in Chunks
    BY <1>1 DEF IInv, TypeOK
  <2>1. CASE InitChunk
    <3>1. r # idx
      BY <2>0, <2>1, <1>1, Constants DEF InitChunk, PhasesOK, QueueOK, IInv, WindowsOK,
         TypeOK
    <3>2. idx \in Chunks /\ first_run[idx]
      <4>1. idx \in Chunks
        BY <2>0, <2>1, Constants DEF InitChunk, PhasesOK, TypeOK, Chunks
      <4> QED BY <4>1, <2>0, <2>1, Constants DEF InitChunk, PhasesOK
    <3>3. buffer'[r] = buffer[r] /\ memory' = memory
      BY <3>1, <3>2, <2>0, <2>1 DEF InitChunk, CallNext, FirstWindow, TypeOK
    <3> QED BY <3>3 DEF Front
  <2>2. CASE StepOn \/ Refill
    <3>1. r # min_tuple
      BY <2>0, <2>2 DEF QueueOK, InHand, StepOn, Refill
    <3>2. ~first_run[min_tuple]
      BY <2>0, <2>2 DEF PhasesOK, StepOn, Refill, TypeOK
    <3>3. buffer'[r] = buffer[r] /\ memory'[r] = memory[r]
      BY <3>1, <3>2, <2>0, <2>2 DEF StepOn, Refill, CallNext, NextWindow, TypeOK
    <3> QED BY <3>3 DEF Front
  <2>3. CASE UNCHANGED <<buffer, memory>>
    BY <2>3 DEF Front
  <2> QED
    BY <2>1, <2>2, <2>3, <1>1
    DEF Next, Merge, Terminated, vars, Pop, WriteTuple, Finish
<1>2. IInv /\ [Next]_vars =>
        [\A r \in tuple_pqueue \cap tuple_pqueue' :
           <<buffer[r], Front(r)>>' = <<buffer[r], Front(r)>>]_vars
  BY <1>1
<1> QED BY <1>2, Invariance, PTL DEF Spec, QueuedKeysStable

-----------------------------------------------------------------------------
(* The merge implements module SortedStream. *)

LEMMA Emits ==
  ASSUME IInv, WriteTuple
  PROVE  \E x \in Tuples \ {output[i] : i \in 1..Len(output)} : Sort!Emit(x)
<1> USE Constants
<1>0. TypeOK /\ WindowsOK /\ QueueOK /\ PhasesOK /\ OutputOK /\ OrderOK
  BY DEF IInv
<1>a. PICK m \in Chunks : m = min_tuple
  BY <1>0 DEF TypeOK
<1>1. /\ pc = "write" /\ pc' = "advance" /\ output' = Append(output, <<m, Front(m)>>)
      /\ runs' = runs
  BY <1>a DEF WriteTuple
<1>2. buffer[m] # NullPtr /\ \A q \in Chunks : ~first_run[q]
  BY <1>0, <1>1, <1>a DEF QueueOK, PhasesOK
<1>3. Front(m) = NextOf(m) /\ NextOf(m) \in Rows
  BY <1>0, <1>1, <1>2, FrontIsNext
<1> DEFINE Written == {output[i] : i \in 1..Len(output)}
<1>b. PICK x : x = <<m, Front(m)>>
  OBVIOUS
<1>4. x \in Tuples \ Written
  <2>1. x \in Tuples
    BY <1>3, <1>b DEF Tuples
  <2>2. ASSUME NEW i \in 1..Len(output), output[i] = x PROVE FALSE
    <3>1. output[i][2] < NextOf(output[i][1])
      BY <1>0 DEF OutputOK
    <3>2. output[i][1] = m /\ output[i][2] = NextOf(m)
      BY <2>2, <1>3, <1>b
    <3>3. NextOf(m) \in Nat
      BY <1>3
    <3> QED BY <3>1, <3>2, <3>3
  <2> QED BY <2>1, <2>2
<1>5. ASSUME NEW y \in Tuples \ Written
      PROVE  KeyOf(x) <= KeyOf(y)
  <2>1. PICK q, j : y = <<q, j>> /\ q \in Chunks /\ j \in Rows
    BY DEF Tuples
  <2>2. ~(j < NextOf(q))
    BY <2>1, <1>0 DEF OutputOK
  <2>3. NextOf(q) \in Rows /\ NextOf(q) <= j
    BY <2>1, <2>2, <1>0, NextOfType DEF Rows
  <2>4. FrontKey(m) <= runs[q][NextOf(q)]
    BY <2>1, <2>3, <1>0, <1>1, <1>a DEF OrderOK, Rows
  <2>5. runs[q] \in SortedRuns /\ runs[m] \in SortedRuns
    BY <2>1, <1>0 DEF TypeOK
  <2>6. /\ runs[q][NextOf(q)] <= runs[q][j]
        /\ runs[q][NextOf(q)] \in Nat /\ runs[q][j] \in Nat
    <3>1. \A i \in Rows : runs[q][i] \in Nat
      BY <2>5, MergeAssumption DEF SortedRuns
    <3>2. \A i \in Rows : i < j => runs[q][i] <= runs[q][j]
      BY <2>1, <2>5 DEF SortedRuns
    <3>3. PICK n \in Rows : n = NextOf(q)
      BY <2>3
    <3>4. n = j \/ n < j
      BY <2>1, <2>3, <3>3 DEF Rows
    <3>5. runs[q][n] <= runs[q][j] /\ runs[q][n] \in Nat /\ runs[q][j] \in Nat
      BY <3>1, <3>2, <3>4, <2>1
    <3> QED BY <3>3, <3>5
  <2>7. FrontKey(m) \in Nat
    BY <1>3, <2>5, MergeAssumption DEF FrontKey, SortedRuns
  <2>8. KeyOf(x) = FrontKey(m) /\ KeyOf(y) = runs[q][j]
    BY <1>b, <2>1 DEF KeyOf, FrontKey
  <2> QED BY <2>4, <2>6, <2>7, <2>8
<1>6. output \in Seq(Tuples) /\ x \in Tuples
  BY <1>0, <1>4 DEF TypeOK
<1>7. /\ output' = Append(output, x)
      /\ (Tuples \ Written)' = (Tuples \ Written) \ {x}
  <2>1. output' = Append(output, x)
    BY <1>1, <1>b
  <2>2. /\ Len(output') = Len(output) + 1 /\ Len(output) \in Nat
        /\ \A i \in 1..Len(output) : output'[i] = output[i]
        /\ output'[Len(output) + 1] = x
    BY <2>1, <1>6
  <2>3. {output'[i] : i \in 1..Len(output')} = Written \cup {x}
    BY <2>2
  <2> QED BY <2>1, <2>3
<1>8. [t \in Tuples |-> KeyOf(t)]' = [t \in Tuples |-> KeyOf(t)]
  BY <1>1 DEF KeyOf
<1>9. Sort!Emit(x)
  BY <1>1, <1>4, <1>5, <1>7, <1>8 DEF Sort!Emit
<1> QED BY <1>4, <1>9

LEMMA Completes == ASSUME IInv, Finish PROVE Sort!Complete
<1> USE Constants
<1>0. TypeOK /\ WindowsOK /\ QueueOK /\ PhasesOK /\ OutputOK
  BY DEF IInv
<1>1. /\ pc = "pop" /\ pc' = "done" /\ tuple_pqueue = {}
      /\ runs' = runs /\ output' = output
  BY DEF Finish
<1>2. \A r \in Chunks : NextOf(r) = ChunkTuples
  BY <1>0, <1>1, NullMeansAll DEF QueueOK, InHand, PhasesOK
<1>3. \A r \in Chunks, j \in Rows : \E i \in 1..Len(output) : output[i] = <<r, j>>
  <2> SUFFICES ASSUME NEW r \in Chunks, NEW j \in Rows
               PROVE  \E i \in 1..Len(output) : output[i] = <<r, j>>
    OBVIOUS
  <2>1. j < NextOf(r)
    BY <1>2 DEF Rows
  <2> QED BY <2>1, <1>0 DEF OutputOK
<1>4. Tuples \ {output[i] : i \in 1..Len(output)} = {}
  <2> SUFFICES ASSUME NEW x \in Tuples
               PROVE  \E i \in 1..Len(output) : output[i] = x
    OBVIOUS
  <2>1. PICK r, j : x = <<r, j>> /\ r \in Chunks /\ j \in Rows
    BY DEF Tuples
  <2> QED BY <2>1, <1>3
<1>5. [t \in Tuples |-> KeyOf(t)]' = [t \in Tuples |-> KeyOf(t)]
  BY <1>1 DEF KeyOf
<1> QED BY <1>1, <1>4, <1>5 DEF Sort!Complete, Tuples

(* Every step of the merge emits a least tuple of those that remain, ends the
   merge when none is left, or is invisible: the merge sorts. *)
THEOREM MergeSorts == Spec => Sort!MSafety
<1>1. Init => Sort!MInit
  <2> SUFFICES ASSUME Init PROVE Sort!MInit
    OBVIOUS
  <2>1. output = <<>> /\ 1..Len(output) = {} /\ pc = "init"
    BY DEF Init
  <2>2. Tuples \ {output[i] : i \in 1..Len(output)} = Tuples
    BY <2>1
  <2>3. DOMAIN [t \in Tuples |-> KeyOf(t)] = Tuples
    OBVIOUS
  <2> QED BY <2>1, <2>2, <2>3 DEF Sort!MInit
<1>2. IInv /\ [Next]_vars => [Sort!MNext]_(Sort!mvars)
  <2> SUFFICES ASSUME IInv, [Next]_vars PROVE [Sort!MNext]_(Sort!mvars)
    OBVIOUS
  <2>1. CASE WriteTuple
    BY <2>1, Emits DEF Sort!MNext
  <2>2. CASE Finish
    BY <2>2, Completes DEF Sort!MNext
  <2>3. ASSUME runs' = runs, output' = output, (pc = "done")' = (pc = "done")
        PROVE  UNCHANGED Sort!mvars
    <3>1. [t \in Tuples |-> KeyOf(t)]' = [t \in Tuples |-> KeyOf(t)]
      BY <2>3 DEF KeyOf
    <3> QED BY <3>1, <2>3 DEF Sort!mvars, Tuples
  <2>4. CASE InitChunk \/ StepOn \/ Refill \/ (\E r \in Chunks : Pop(r)) \/ UNCHANGED vars
    <3>1. runs' = runs /\ output' = output /\ (pc = "done")' = (pc = "done")
      BY <2>4 DEF InitChunk, StepOn, Refill, Pop, vars
    <3> QED BY <3>1, <2>3
  <2> QED BY <2>1, <2>2, <2>4 DEF Next, Merge, Terminated
<1> QED BY <1>1, <1>2, Invariance, PTL DEF Spec, Sort!MSafety

=============================================================================

-------------------------- MODULE SequentialProofs --------------------------
(***************************************************************************)
(* Theorems about the parts of the system that one thread runs by itself:  *)
(*   BufferringWriter  (Spec) for any capacity, any offset, any sizes the  *)
(*                     header allows, any short writes and failures        *)
(*   TaskQueue         (LSpec) for any memory and any tasks                *)
(*   RangePartition    (RSpec) for any keys and any sorted delimiters      *)
(*   PdqSort           (SSpec) for any keys, and any thresholds the code   *)
(*                     works with                                          *)
(* Each has an inductive invariant of its own; they share no state.        *)
(***************************************************************************)
EXTENDS BufferringWriter, TaskQueue, RangePartition, PdqSort,
  SequenceTheorems, FiniteSetTheorems, WellFoundedInduction, TLAPS

(* The least element of a set of numbers. *)
LEMMA Least ==
  ASSUME NEW S \in SUBSET Nat, S # {}
  PROVE  \E u \in S : \A v \in S : u <= v
<1> DEFINE R == OpToRel(<, Nat)
<1>1. IsWellFoundedOn(R, Nat)
  BY NatLessThanWellFounded
<1>2. \A u, v \in Nat : u < v => <<u, v>> \in R
  BY DEF OpToRel
<1> HIDE DEF R
<1>3. PICK u \in S : \A v \in S : ~ (<<v, u>> \in R)
  BY <1>1, WFMin, Zenon
<1>4. \A v \in S : ~ (v < u)
  BY <1>2, <1>3
<1> QED BY <1>4

-----------------------------------------------------------------------------
(* The writer of BufferringWriter. *)

(* The buffer holds the last current_size bytes handed over, in order. *)
BufferIsTail ==
  /\ offset + current_size = Base + handed
  /\ \A i \in 0..(current_size - 1) : buffer[i] = offset - Base + i

(* bytes_written counts the bytes of the buffer in the file, or has wrapped
   because the first pwrite failed. *)
FlushCounts ==
  /\ bytes_written <= current_size \/ (bytes_written = Word - 1 /\ dropped > 0)
  /\ pc # "flush" => bytes_written = 0
  /\ pc = "destroyed" => current_size = 0
  /\ pc = "flush" => handed + pending <= Limit

(* Unless a flush was dropped, the file is complete up to there. *)
PrefixOnDisk ==
  dropped = 0 =>
    \A p \in Base..(offset + bytes_written - 1) : disk[p] = p - Base

IInv ==
  /\ TypeOK
  /\ BufferIsTail
  /\ FlushCounts
  /\ InPlace
  /\ PrefixOnDisk

-----------------------------------------------------------------------------

(* Arithmetic of the unsigned counter. *)
LEMMA Unsigned ==
  ASSUME NEW w \in Nat, w > 0
  PROVE  /\ \A r \in 0..(w - 1) : r % w = r
         /\ (0 - 1) % w = w - 1
OBVIOUS


(* The constructor establishes the invariant. *)
LEMMA InitIInv == Init => IInv
BY WriterAssumption
DEF Init, IInv, TypeOK, BufferIsTail, FlushCounts, InPlace, PrefixOnDisk

(* write() with room in the buffer. *)
LEMMA WriteFitsStep ==
  ASSUME IInv, NEW many \in Sizes, WriteFits(many)
  PROVE  IInv'
<1> USE WriterAssumption DEF IInv
<1>1. /\ many \in 1..Capacity /\ current_size + many <= Capacity
      /\ handed + many <= Limit
      /\ buffer' = [i \in 0..(Capacity - 1) |->
                      IF i \in current_size..(current_size + many - 1)
                      THEN handed + (i - current_size) ELSE buffer[i]]
      /\ current_size' = current_size + many /\ handed' = handed + many
      /\ UNCHANGED <<disk, offset, bytes_written, pending, pc, errors, dropped>>
      /\ pc = "idle"
  BY DEF WriteFits, Fits, Copy, Copied, TypeOK
<1>2. TypeOK'
  BY <1>1 DEF TypeOK
<1>3. BufferIsTail'
  BY <1>1 DEF TypeOK, BufferIsTail
<1>4. FlushCounts'
  BY <1>1 DEF TypeOK, FlushCounts
<1>5. InPlace' /\ PrefixOnDisk'
  BY <1>1 DEF TypeOK, InPlace, PrefixOnDisk
<1> QED BY <1>2, <1>3, <1>4, <1>5

(* write() without room, and the destructor, enter flush. *)
LEMMA EnterFlushStep ==
  ASSUME IInv, pc = "idle", NEW many \in Sizes \cup {0}, handed + many <= Limit,
         EnterFlush(many)
  PROVE  IInv'
<1> USE WriterAssumption
<1>1. TypeOK' /\ FlushCounts'
  BY DEF IInv, TypeOK, EnterFlush, FlushCounts
<1>2. BufferIsTail' /\ InPlace' /\ PrefixOnDisk'
  BY DEF IInv, TypeOK, EnterFlush, FlushCounts, BufferIsTail, InPlace,
         PrefixOnDisk
<1> QED BY <1>1, <1>2 DEF IInv

(* A pwrite puts n bytes where they belong. *)
LEMMA PwriteStep ==
  ASSUME IInv, NEW n \in 1..Capacity, Pwrite(n)
  PROVE  /\ IInv'
         /\ \A p \in DOMAIN disk : disk[p] # Hole => disk'[p] = disk[p]
<1> DEFINE Target == (offset + bytes_written)..(offset + bytes_written + n - 1)
<1> USE WriterAssumption
<1>1. /\ pc = "flush" /\ bytes_written + n <= current_size
      /\ UNCHANGED <<buffer, offset, current_size, pending, pc, handed, errors,
                     dropped>>
  BY DEF Pwrite, Flushing, IInv, TypeOK
<1>2. bytes_written' = bytes_written + n
  BY <1>1, Unsigned DEF Pwrite, Advanced, IInv, TypeOK
<1>3. \A p \in DOMAIN disk :
        disk'[p] = IF p \in Target
                   THEN p - Base ELSE disk[p]
  <2> TAKE p \in DOMAIN disk
  <2>1. disk'[p] = IF p \in Target
                   THEN buffer[p - offset] ELSE disk[p]
    BY DEF Pwrite, ToFile, FromBuffer, IInv, TypeOK
  <2>2. CASE p \in Target
    BY <1>1, <2>1, <2>2 DEF IInv, TypeOK, BufferIsTail
  <2>3. CASE p \notin Target
    BY <2>1, <2>3
  <2> QED BY <2>2, <2>3
<1>4. DOMAIN disk' = DOMAIN disk /\ DOMAIN disk = 0..(Base + Limit - 1)
  BY DEF Pwrite, IInv, TypeOK
<1>5. disk' \in [0..(Base + Limit - 1) -> 0..(Limit - 1) \cup {Hole}]
  <2>1. \A p \in Target :
          p - Base \in 0..(Limit - 1)
    BY <1>1 DEF IInv, TypeOK, BufferIsTail
  <2>2. \A p \in 0..(Base + Limit - 1) : disk'[p] \in 0..(Limit - 1) \cup {Hole}
    BY <1>3, <1>4, <2>1 DEF IInv, TypeOK
  <2>3. disk' = [p \in 0..(Base + Limit - 1) |-> disk'[p]]
    BY <1>4 DEF Pwrite
  <2> QED BY <2>2, <2>3
<1>6. TypeOK' /\ BufferIsTail' /\ FlushCounts'
  BY <1>1, <1>2, <1>5 DEF IInv, TypeOK, BufferIsTail, FlushCounts
<1>7. InPlace'
  BY <1>1, <1>3, <1>4 DEF IInv, TypeOK, BufferIsTail, InPlace
<1>8. PrefixOnDisk'
  BY <1>1, <1>2, <1>3, <1>4 DEF IInv, TypeOK, BufferIsTail, PrefixOnDisk
<1>9. \A p \in DOMAIN disk : disk[p] # Hole => disk'[p] = disk[p]
  BY <1>3 DEF IInv, InPlace
<1> QED BY <1>6, <1>7, <1>8, <1>9 DEF IInv

(* A failure moves the counter one back, past zero at the start of a flush. *)
LEMMA PwriteFailsStep ==
  ASSUME IInv, PwriteFails
  PROVE  IInv'
<1> USE WriterAssumption
<1>1. /\ pc = "flush" /\ bytes_written < current_size
      /\ errors' = errors + 1 /\ errors < MaxErrors
      /\ UNCHANGED <<disk, buffer, offset, current_size, pending, pc, handed>>
  BY DEF PwriteFails, Flushing
<1>2. CASE bytes_written = 0
  <2>1. Word \in Nat /\ Word > 0
    BY DEF WriterAssumption
  <2>2. (0 - 1) % Word = Word - 1
    BY <2>1, Unsigned
  <2>3. bytes_written' = Word - 1
    BY <1>2, <2>2 DEF PwriteFails, Advanced
  <2>4. dropped' = dropped + 1
    BY <1>2 DEF PwriteFails
  <2> QED BY <1>1, <2>1, <2>3, <2>4
          DEF IInv, TypeOK, BufferIsTail, FlushCounts, InPlace, PrefixOnDisk
<1>3. CASE bytes_written # 0
  <2>1. bytes_written' = bytes_written - 1 /\ dropped' = dropped
    <3>1. bytes_written - 1 \in 0..(Word - 1) /\ Word \in Nat /\ Word > 0
      BY <1>1, <1>3 DEF IInv, TypeOK, WriterAssumption
    <3>2. (bytes_written - 1) % Word = bytes_written - 1
      BY <3>1, Unsigned
    <3> QED BY <1>3, <3>1, <3>2 DEF PwriteFails, Advanced, IInv, TypeOK
  <2>2. bytes_written \in 1..(current_size - 1)
    BY <1>1, <1>3 DEF IInv, TypeOK
  <2> QED BY <1>1, <2>1, <2>2 DEF IInv, TypeOK, BufferIsTail, FlushCounts,
                                  InPlace, PrefixOnDisk
<1> QED BY <1>2, <1>3

(* The end of flush hands the buffer back empty. *)
LEMMA FlushReturnsStep ==
  ASSUME IInv, FlushReturns
  PROVE  IInv'
<1> USE WriterAssumption
<1>1. /\ pc = "flush" /\ bytes_written >= current_size
      /\ offset' = offset + current_size /\ bytes_written' = 0 /\ pending' = 0
      /\ UNCHANGED <<disk, errors, dropped>>
  BY DEF FlushReturns, Flushing, NextOffset, IInv, TypeOK
<1>2. PrefixOnDisk'
  BY <1>1 DEF IInv, TypeOK, BufferIsTail, FlushCounts, PrefixOnDisk
<1>3. CASE pending = 0
  <2>1. current_size' = 0 /\ pc' = "destroyed" /\ UNCHANGED <<buffer, handed>>
    BY <1>3 DEF FlushReturns
  <2> QED BY <1>1, <1>2, <2>1 DEF IInv, TypeOK, BufferIsTail, FlushCounts,
                                  InPlace
<1>4. CASE pending # 0
  <2>1. pending \in 1..Capacity /\ handed + pending <= Limit
    BY <1>1, <1>4 DEF IInv, TypeOK, FlushCounts
  <2>2. /\ buffer' = [i \in 0..(Capacity - 1) |->
                 IF i \in 0..(pending - 1) THEN handed + i ELSE buffer[i]]
        /\ current_size' = pending /\ handed' = handed + pending
        /\ pc' = "idle"
    BY <1>4, <2>1 DEF FlushReturns, Copy, Copied, IInv, TypeOK
  <2>3. TypeOK'
    BY <1>1, <2>1, <2>2 DEF IInv, TypeOK, BufferIsTail
  <2>4. BufferIsTail'
    <3>1. offset' = Base + handed /\ offset' \in Int /\ handed \in Int
      BY <1>1 DEF IInv, TypeOK, BufferIsTail
    <3>2. \A i \in 0..(pending - 1) : buffer'[i] = handed + i
      BY <2>1, <2>2
    <3> QED BY <2>1, <2>2, <3>1, <3>2 DEF BufferIsTail
  <2>5. FlushCounts'
    BY <1>1, <2>1, <2>2 DEF IInv, TypeOK, FlushCounts
  <2>6. InPlace'
    BY <1>1, <2>1, <2>2 DEF IInv, TypeOK, InPlace
  <2> QED BY <1>2, <2>3, <2>4, <2>5, <2>6 DEF IInv
<1> QED BY <1>3, <1>4

(* Every step preserves the invariant. *)
LEMMA NextIInv == IInv /\ [Next]_vars => IInv'
<1> SUFFICES ASSUME IInv, [Next]_vars PROVE IInv'
  OBVIOUS
<1>1. CASE Write
  <2>1. PICK many \in Sizes : WriteFits(many) \/ WriteFull(many)
    BY <1>1 DEF Write
  <2> QED BY <2>1, WriteFitsStep, EnterFlushStep DEF WriteFull
<1>2. CASE Destroy
  <2>1. pc = "idle" /\ EnterFlush(0)
    BY <1>2 DEF Destroy
  <2>2. handed + 0 <= Limit
    BY WriterAssumption DEF IInv, TypeOK
  <2> QED BY <2>1, <2>2, EnterFlushStep
<1>3. CASE FlushStep
  BY <1>3, PwriteStep, PwriteFailsStep, FlushReturnsStep DEF FlushStep
<1>4. CASE UNCHANGED vars
  BY <1>4 DEF vars, IInv, TypeOK, BufferIsTail, FlushCounts, InPlace,
              PrefixOnDisk
<1> QED BY <1>1, <1>2, <1>3, <1>4 DEF Next, Terminated

(* The inductive invariant holds in every reachable state. *)
THEOREM Invariance == Spec => []IInv
BY InitIInv, NextIInv, PTL DEF Spec

(* Type correctness: the buffer never overflows. *)
THEOREM TypeCorrect == Spec => []TypeOK
<1>1. IInv => TypeOK
  BY DEF IInv
<1> QED BY <1>1, Invariance, PTL

(* No byte is ever written where it does not belong. *)
THEOREM BytesInPlace == Spec => []InPlace
<1>1. IInv => InPlace
  BY DEF IInv
<1> QED BY <1>1, Invariance, PTL

(* Nothing is lost unless a flush could not start, and nothing is left when
   the writer is destroyed. *)
THEOREM NothingLost == Spec => []Conserved
<1>1. IInv /\ dropped = 0 => InFileOrBuffer
  <2> SUFFICES ASSUME IInv, dropped = 0, NEW k \in 0..(handed - 1)
               PROVE  IF Base + k < offset THEN disk[Base + k] = k
                                           ELSE buffer[Base + k - offset] = k
    BY DEF InFileOrBuffer
  <2> USE WriterAssumption DEF IInv, TypeOK
  <2>1. CASE Base + k < offset
    BY <2>1 DEF PrefixOnDisk
  <2>2. CASE Base + k >= offset
    BY <2>2 DEF BufferIsTail
  <2> QED BY <2>1, <2>2
<1>2. IInv /\ dropped = 0 /\ InFileOrBuffer => (pc = "destroyed" => AllInFile)
  BY WriterAssumption
  DEF IInv, TypeOK, BufferIsTail, FlushCounts, InFileOrBuffer, AllInFile
<1>3. IInv => Conserved
  BY <1>1, <1>2 DEF Conserved
<1> QED BY <1>3, Invariance, PTL

(* What reached the file stays there. *)
THEOREM FileIsStable == Spec => Durable
<1>1. IInv /\ [Next]_vars
        => [\A p \in DOMAIN disk : disk[p] # Hole => disk'[p] = disk[p]]_vars
  <2> SUFFICES
        ASSUME IInv, Next
        PROVE  \A p \in DOMAIN disk : disk[p] # Hole => disk'[p] = disk[p]
    OBVIOUS
  <2>1. CASE \E n \in 1..Capacity : Pwrite(n)
    BY <2>1, PwriteStep
  <2>2. CASE ~\E n \in 1..Capacity : Pwrite(n)
    BY <2>2 DEF Next, Write, WriteFits, WriteFull, EnterFlush, Destroy,
                FlushStep, PwriteFails, FlushReturns, Terminated, vars
  <2> QED BY <2>1, <2>2
<1> QED BY <1>1, Invariance, PTL DEF Spec, Durable

-----------------------------------------------------------------------------
(***************************************************************************)
(* The linked list behind the queue is intact and is a queue, for any      *)
(* memory and any tasks.  LTyped and ListIntact together are inductive.    *)
(***************************************************************************)

ListInv == LTyped /\ ListIntact

LEMMA InitListInv == LInit => ListInv
  BY ListAssumption DEF LInit, ListInv, LTyped, ListIntact, Allocated, Nodes

(* insert into an empty queue, where tail may point anywhere. *)
LEMMA InsertFirst ==
  ASSUME ListInv, NEW t \in QueueTasks, insert(t), Empty
  PROVE  ListInv'
<1>1. PICK addr \in Addresses \ Allocated :
        /\ head' = addr /\ tail' = addr
        /\ heap' = [heap EXCEPT ![addr] = NewNode(t)]
        /\ nodes' = Append(nodes, addr)
  BY DEF insert
<1>2. nodes = <<>> /\ Allocated = {} /\ nodes' = <<addr>>
  BY <1>1 DEF ListInv, LTyped, ListIntact, insert, Empty
<1>3. heap'[addr] \in Nodes /\ heap'[addr].next = Null
  BY <1>1 DEF ListInv, LTyped, NewNode, Nodes
<1>4. LTyped'
  BY <1>1, <1>2, <1>3 DEF ListInv, LTyped, insert, NewNode, Nodes
<1>5. Allocated' = {addr}
  BY <1>1, <1>2, <1>3, ListAssumption DEF ListInv, LTyped, Allocated, Nodes
<1>6. ListIntact'
  BY <1>1, <1>2, <1>3, <1>5 DEF ListInv, LTyped, ListIntact, insert, Empty
<1> QED BY <1>4, <1>6 DEF ListInv

(* insert behind the last node. *)
LEMMA InsertLast ==
  ASSUME ListInv, NEW t \in QueueTasks, insert(t), ~Empty
  PROVE  ListInv'
<1> DEFINE n == Len(nodes)
<1>1. PICK addr \in Addresses \ Allocated :
        /\ head' = head /\ tail' = addr
        /\ heap' = [p \in Addresses |->
                      IF p = addr THEN NewNode(t)
                      ELSE IF p = tail THEN Linked(heap[p], addr) ELSE heap[p]]
        /\ nodes' = Append(nodes, addr)
  BY DEF insert
<1>2. /\ open /\ open' /\ n \in Nat \ {0} /\ nodes # <<>>
      /\ tail = nodes[n] /\ tail \in Allocated
      /\ n_tasks' = n + 1
  BY DEF ListInv, LTyped, ListIntact, insert, Empty
<1>3. /\ nodes' \in Seq(Addresses) /\ Len(nodes') = n + 1 /\ nodes'[n + 1] = addr
      /\ \A i \in 1..n : nodes'[i] = nodes[i] /\ nodes[i] \in Allocated
  BY <1>1, <1>2 DEF ListInv, LTyped, ListIntact
<1>4. /\ heap'[addr] = NewNode(t) /\ heap'[addr] \in Nodes /\ heap'[addr].next = Null
      /\ heap[tail] \in Nodes
      /\ heap'[tail] = [heap[tail] EXCEPT !.next = addr]
      /\ heap'[tail] \in Nodes /\ heap'[tail].next = addr
      /\ \A p \in Addresses : p # addr /\ p # tail => heap'[p] = heap[p]
  BY <1>1, <1>2, ListAssumption
  DEF ListInv, LTyped, NewNode, Linked, Nodes, Allocated
<1>5. LTyped'
  BY <1>1, <1>2, <1>3, <1>4 DEF ListInv, LTyped, insert
<1>6. Allocated' = Allocated \cup {addr}
  BY <1>1, <1>2, <1>4, ListAssumption DEF ListInv, LTyped, Allocated, Nodes
<1>7. ASSUME NEW i \in 1..(n + 1)
      PROVE  /\ heap'[nodes'[i]] \in Nodes
             /\ heap'[nodes'[i]].next = IF i = n + 1 THEN Null ELSE nodes'[i + 1]
  <2>1. CASE i = n + 1
    BY <1>3, <1>4, <2>1
  <2>2. CASE i = n
    <3>1. nodes'[i] = tail /\ i # n + 1 /\ nodes'[i + 1] = addr
      BY <1>2, <1>3, <2>2
    <3> QED BY <1>4, <3>1
  <2>3. CASE i < n
    <3>1. i \in 1..n /\ i + 1 \in 1..n /\ n \in 1..n
      BY <1>2, <2>3
    <3>2. nodes[i] # addr /\ nodes[i] # tail /\ nodes[i] \in Addresses
      BY <1>1, <1>2, <1>3, <2>3, <3>1 DEF ListInv, LTyped, ListIntact
    <3>3. heap'[nodes'[i]] = heap[nodes[i]]
      BY <1>3, <1>4, <3>1, <3>2
    <3> QED BY <1>3, <2>3, <3>1, <3>3 DEF ListInv, ListIntact
  <2> QED BY <1>2, <2>1, <2>2, <2>3
<1>8. \A i, j \in 1..(n + 1) : nodes'[i] = nodes'[j] => i = j
  BY <1>1, <1>2, <1>3 DEF ListInv, ListIntact
<1>9. head' = nodes'[1] /\ tail' = nodes'[n + 1]
  BY <1>1, <1>2, <1>3 DEF ListInv, ListIntact
<1>10. Allocated' = {nodes'[i] : i \in 1..(n + 1)}
  <2>1. Allocated = {nodes[i] : i \in 1..n}
    BY DEF ListInv, ListIntact
  <2> QED BY <1>2, <1>3, <1>6, <2>1
<1>11. ListIntact'
  BY <1>2, <1>3, <1>7, <1>8, <1>9, <1>10 DEF ListIntact
<1> QED BY <1>5, <1>11 DEF ListInv

(* What next and the destructor do to the list. *)
LEMMA RemoveFirst ==
  ASSUME ListInv, head # Null, nodes' = Tail(nodes),
         head' = heap[head].next, heap' = Deleted, tail' = tail
  PROVE  /\ heap' \in [Addresses -> Nodes \cup {Free}]
         /\ head' \in Addresses \cup {Null}
         /\ nodes' \in Seq(Addresses) /\ Len(nodes') = Len(nodes) - 1
         /\ \A i \in 1..Len(nodes') :
              /\ nodes'[i] = nodes[i + 1]
              /\ heap'[nodes'[i]] = heap[nodes[i + 1]]
              /\ heap'[nodes'[i]] \in Nodes
              /\ heap'[nodes'[i]].next =
                   IF i = Len(nodes') THEN Null ELSE nodes'[i + 1]
         /\ \A i, j \in 1..Len(nodes') : nodes'[i] = nodes'[j] => i = j
         /\ head' = IF nodes' = <<>> THEN Null ELSE nodes'[1]
         /\ nodes' # <<>> => tail' = nodes'[Len(nodes')]
         /\ Allocated' = {nodes'[i] : i \in 1..Len(nodes')}
<1> DEFINE n == Len(nodes)
<1>1. /\ n \in Nat \ {0} /\ nodes # <<>> /\ head = nodes[1] /\ head \in Addresses
      /\ tail = nodes[n]
  BY DEF ListInv, LTyped, ListIntact
<1>2. /\ nodes' \in Seq(Addresses) /\ Len(nodes') = n - 1
      /\ \A i \in 1..(n - 1) : nodes'[i] = nodes[i + 1]
  BY <1>1 DEF ListInv, LTyped
<1>3. \A i \in 1..(n - 1) : nodes[i + 1] # head /\ nodes[i + 1] \in Addresses
  BY <1>1 DEF ListInv, LTyped, ListIntact
<1>4. /\ heap'[head] = Free
      /\ \A p \in Addresses : p # head => heap'[p] = heap[p]
      /\ heap' \in [Addresses -> Nodes \cup {Free}]
  BY <1>1 DEF ListInv, LTyped, Deleted
<1>5. \A i \in 1..(n - 1) : heap'[nodes'[i]] = heap[nodes[i + 1]]
  BY <1>2, <1>3, <1>4
<1>6. ASSUME NEW i \in 1..(n - 1)
      PROVE  /\ heap'[nodes'[i]] \in Nodes
             /\ heap'[nodes'[i]].next = IF i = n - 1 THEN Null ELSE nodes'[i + 1]
  <2>1. /\ heap[nodes[i + 1]] \in Nodes
        /\ heap[nodes[i + 1]].next = IF i + 1 = n THEN Null ELSE nodes[(i + 1) + 1]
    BY <1>1 DEF ListInv, ListIntact
  <2>2. heap'[nodes'[i]] = heap[nodes[i + 1]]
    BY <1>5
  <2>3. ASSUME i + 1 # n
        PROVE  nodes'[i + 1] = nodes[(i + 1) + 1]
    <3>1. i + 1 \in 1..(n - 1)
      BY <1>1, <2>3
    <3> QED BY <1>2, <3>1
  <2>4. i = n - 1 <=> i + 1 = n
    BY <1>1
  <2> QED BY <2>1, <2>2, <2>3, <2>4
<1>7. ASSUME NEW i \in 1..(n - 1), NEW j \in 1..(n - 1), nodes'[i] = nodes'[j]
      PROVE  i = j
  <2>1. nodes[i + 1] = nodes[j + 1] /\ i + 1 \in 1..n /\ j + 1 \in 1..n
    BY <1>1, <1>2, <1>7
  <2>2. i + 1 = j + 1
    BY <2>1 DEF ListInv, ListIntact
  <2> QED BY <2>2
<1>8. nodes' = <<>> <=> n = 1
  <2>1. nodes' = <<>> <=> Len(nodes') = 0
    BY <1>2, EmptySeq
  <2> QED BY <1>1, <1>2, <2>1
<1>9. head' = IF nodes' = <<>> THEN Null ELSE nodes'[1]
  <2>1. 1 \in 1..n
    BY <1>1
  <2>2. head' = IF 1 = n THEN Null ELSE nodes[1 + 1]
    BY <1>1, <2>1 DEF ListInv, ListIntact
  <2>3. ASSUME n # 1 PROVE 1 \in 1..(n - 1)
    <3>1. n \in Nat /\ n # 0
      BY <1>1
    <3> HIDE DEF n
    <3> QED BY <2>3, <3>1
  <2> QED BY <1>2, <1>8, <2>2, <2>3
<1>10. nodes' # <<>> => tail' = nodes'[n - 1]
  BY <1>1, <1>2, <1>8
<1>11. Allocated' = {nodes'[i] : i \in 1..(n - 1)}
  <2>1. Allocated = {nodes[i] : i \in 1..n}
    BY DEF ListInv, ListIntact
  <2>2. Allocated' = Allocated \ {head}
    BY <1>1, <1>4 DEF Allocated
  <2>3. {nodes[i] : i \in 1..n} \ {head} = {nodes[i + 1] : i \in 1..(n - 1)}
    <3>1. ASSUME NEW p \in {nodes[i] : i \in 1..n} \ {head}
          PROVE  p \in {nodes[i + 1] : i \in 1..(n - 1)}
      <4>1. PICK i \in 1..n : p = nodes[i]
        OBVIOUS
      <4>2. i - 1 \in 1..(n - 1) /\ i = (i - 1) + 1
        BY <1>1, <4>1
      <4> QED BY <4>1, <4>2
    <3>2. {nodes[i + 1] : i \in 1..(n - 1)} \subseteq {nodes[i] : i \in 1..n} \ {head}
      BY <1>1, <1>3
    <3> QED BY <3>1, <3>2
  <2>4. {nodes[i + 1] : i \in 1..(n - 1)} = {nodes'[i] : i \in 1..(n - 1)}
    BY <1>2
  <2> QED BY <2>1, <2>2, <2>3, <2>4
<1>12. head' \in Addresses \cup {Null}
  BY <1>1, <1>2, <1>8, <1>9
<1>13. /\ \A i \in 1..Len(nodes') :
            /\ nodes'[i] = nodes[i + 1]
            /\ heap'[nodes'[i]] = heap[nodes[i + 1]]
            /\ heap'[nodes'[i]] \in Nodes
            /\ heap'[nodes'[i]].next =
                 IF i = Len(nodes') THEN Null ELSE nodes'[i + 1]
       /\ \A i, j \in 1..Len(nodes') : nodes'[i] = nodes'[j] => i = j
  BY <1>2, <1>5, <1>6, <1>7
<1>14. Allocated' = {nodes'[i] : i \in 1..Len(nodes')}
  BY <1>2, <1>11
<1> QED BY <1>2, <1>4, <1>9, <1>10, <1>12, <1>13, <1>14

LEMMA NextListInv == ListInv /\ [LNext]_listVars => ListInv'
<1> SUFFICES ASSUME ListInv, [LNext]_listVars PROVE ListInv'
  OBVIOUS
<1>1. ASSUME NEW t \in QueueTasks, insert(t) PROVE ListInv'
  BY <1>1, InsertFirst, InsertLast
<1>2. CASE NextOfNone
  BY <1>2 DEF NextOfNone, ListInv, LTyped, ListIntact, Allocated
<1>3. CASE next
  <2>1. /\ open /\ head # Null /\ head \in Addresses /\ n_tasks = Len(nodes)
        /\ heap[head] \in Nodes
    BY <1>3, ListAssumption DEF next, ListInv, LTyped, ListIntact
  <2>2. taken' \in QueueTasks
    BY <1>3, <2>1 DEF next, Oldest, Nodes
  <2>3. /\ nodes' = Tail(nodes) /\ head' = heap[head].next /\ heap' = Deleted
        /\ tail' = tail /\ n_tasks' = n_tasks - 1 /\ open' = open
    BY <1>3 DEF next
  <2>4. LTyped'
    BY <2>1, <2>2, <2>3, RemoveFirst DEF ListInv, LTyped
  <2>5. ListIntact'
    BY <2>1, <2>3, RemoveFirst DEF ListIntact
  <2> QED BY <2>4, <2>5 DEF ListInv
<1>4. CASE DestroyQueue
  <2>1. LTyped'
    BY <1>4 DEF DestroyQueue, ListInv, LTyped
  <2>2. /\ UNCHANGED <<heap, head, tail, nodes>> /\ ~open'
        /\ Allocated' = Allocated
    BY <1>4 DEF DestroyQueue, Allocated
  <2>3. ListIntact'
    BY <2>2 DEF ListInv, ListIntact
  <2> QED BY <2>1, <2>3 DEF ListInv
<1>5. CASE DestroyNode
  <2>1. /\ nodes' = Tail(nodes) /\ head' = heap[head].next /\ heap' = Deleted
        /\ tail' = tail /\ head # Null /\ ~open
        /\ UNCHANGED <<n_tasks, taken, open>>
    BY <1>5 DEF DestroyNode
  <2>2. LTyped'
    BY <2>1, RemoveFirst DEF ListInv, LTyped
  <2>3. ListIntact'
    BY <2>1, RemoveFirst DEF ListIntact
  <2> QED BY <2>2, <2>3 DEF ListInv
<1>6. CASE LTerminated \/ UNCHANGED listVars
  BY <1>6 DEF LTerminated, listVars, ListInv, LTyped, ListIntact, Allocated
<1> QED BY <1>1, <1>2, <1>3, <1>4, <1>5, <1>6 DEF LNext

(* The nodes in memory are exactly the list, and tail is its end whenever insert
   uses it, whatever addresses new hands out again. *)
THEOREM ListStaysIntact == LSpec => []ListIntact
<1>1. ListInv => ListIntact
  BY DEF ListInv
<1> QED BY InitListInv, NextListInv, <1>1, PTL DEF LSpec

(* What is taken out of the list is what has been in it for the longest time. *)
THEOREM ListIsFifo == LSpec => ImplementsFifo
<1> DEFINE q == [i \in 1..Len(nodes) |-> heap[nodes[i]].task]
<1>1. LInit => Fifo!FInit
  BY DEF LInit, Fifo!FInit
<1>2. ASSUME ListInv, [LNext]_listVars
      PROVE  [Fifo!FNext]_(Fifo!fvars)
  <2>1. /\ q \in Seq(QueueTasks) /\ Len(q) = Len(nodes) /\ Len(nodes) \in Nat
        /\ q = <<>> <=> nodes = <<>>
    BY <1>2 DEF ListInv, LTyped, ListIntact, Nodes
  <2>2. ASSUME NEW t \in QueueTasks, insert(t) PROVE Fifo!Put(t)
    <3>1. PICK addr \in Addresses \ Allocated :
            nodes' = Append(nodes, addr) /\ heap'[addr].task = t
      BY <1>2, <2>2 DEF insert, ListInv, LTyped, NewNode
    <3>2. \A p \in Allocated : p # addr /\ heap'[p].task = heap[p].task
      BY <1>2, <2>2, <3>1, ListAssumption
      DEF insert, ListInv, LTyped, Allocated, NewNode, Linked, Nodes
    <3>3. \A i \in 1..Len(nodes) : nodes[i] \in Allocated
      BY <1>2 DEF ListInv, ListIntact
    <3>4. /\ nodes' \in Seq(Addresses) /\ Len(nodes') = Len(nodes) + 1
          /\ nodes'[Len(nodes) + 1] = addr
          /\ \A i \in 1..Len(nodes) : nodes'[i] = nodes[i]
      BY <1>2, <2>1, <3>1 DEF ListInv, LTyped
    <3>5. q' = Append(q, t)
      BY <2>1, <3>1, <3>2, <3>3, <3>4
    <3> QED BY <2>2, <3>5 DEF insert, Fifo!Put
  <2>3. ASSUME head # Null, nodes' = Tail(nodes), head' = heap[head].next,
               heap' = Deleted, tail' = tail
        PROVE  q # <<>> /\ q' = Tail(q) /\ heap[head].task = Head(q)
    <3>1. nodes # <<>> /\ head = nodes[1] /\ Len(nodes) # 0
      BY <1>2, <2>3, EmptySeq DEF ListInv, LTyped, ListIntact
    <3>2. /\ Len(nodes') = Len(nodes) - 1
          /\ \A i \in 1..Len(nodes') : heap'[nodes'[i]] = heap[nodes[i + 1]]
      BY <1>2, <2>3, RemoveFirst
    <3> QED BY <2>1, <3>1, <3>2
  <2>4. CASE NextOfNone
    <3>1. nodes = <<>>
      BY <1>2, <2>4, EmptySeq DEF NextOfNone, ListInv, LTyped, ListIntact
    <3> QED BY <2>1, <2>4, <3>1 DEF NextOfNone, Fifo!FNext, Fifo!Get
  <2>5. CASE next
    <3>1. head # Null
      BY <1>2, <2>5, EmptySeq, ListAssumption
      DEF next, ListInv, LTyped, ListIntact
    <3>2. q # <<>> /\ q' = Tail(q) /\ heap[head].task = Head(q)
      BY <2>3, <2>5, <3>1 DEF next
    <3> QED BY <2>5, <3>2 DEF next, Oldest, Fifo!FNext, Fifo!Get
  <2>6. CASE DestroyQueue
    BY <2>6 DEF DestroyQueue, Fifo!FNext, Fifo!Shut
  <2>7. CASE DestroyNode
    BY <2>3, <2>7 DEF DestroyNode, Fifo!FNext, Fifo!Drop
  <2>8. CASE LTerminated \/ UNCHANGED listVars
    BY <2>8 DEF LTerminated, listVars, Fifo!fvars
  <2> QED BY <1>2, <2>2, <2>4, <2>5, <2>6, <2>7, <2>8 DEF LNext, Fifo!FNext
<1> QED BY <1>1, <1>2, InitListInv, NextListInv, PTL DEF LSpec, ImplementsFifo, Fifo!FSpec

-----------------------------------------------------------------------------
(* The ranges of RangePartition: every index stored is its key's place among
   the delimiters, for any keys and any sorted delimiters. *)

(* The delimiters below a key, and the key's place among them. *)
IsBelow(key, d) == dels[d] < key \/ (call.way = 17 /\ dels[d] = key)

Place(key, i) ==
  /\ i \in 0..(call.way - 1)
  /\ \A d \in 0..(call.way - 2) : IsBelow(key, d) <=> d < i

PlacesRight ==
  /\ DOMAIN indices = DOMAIN keys
  /\ \A k \in DOMAIN keys :
       /\ k >= at => indices[k] = Unwritten
       /\ k < at => Place(keys[k], indices[k])

RangeSteps ==
  /\ call \in Calls
  /\ beg \in 0..Registers /\ at \in Nat
  /\ step \in {"load", "scan", "root", "child", "leaf"}
  /\ step = "load" => at = 4 * beg
  /\ step = "scan" => call.way = 17 /\ 4 * (beg - 1) <= at /\ at < 4 * beg
  /\ step \in {"root", "child", "leaf"} => call.way = 8 /\ at = 4 * (beg - 1) /\ beg > 0
  /\ step # "load" => key_128 = load(keys, beg - 1)

(* The way down the tree: greater is the comparison made at its root. *)
MiddleOf(greater) == blendv(dels_128(1), dels_128(5), greater)

LowestOf(greater, next_greater) ==
  blendv(blendv(dels_128(0), dels_128(4), greater),
         blendv(dels_128(2), dels_128(6), greater), next_greater)

WayDown ==
  /\ DOMAIN result = 0..1 /\ DOMAIN merged = 0..2
  /\ step \in {"child", "leaf"} => result[0] = cmpgt(key_128, dels_128(3))
  /\ step = "child" =>
       merged = [i \in 0..2 |-> blendv(dels_128(i), dels_128(i + 4), result[0])]
  /\ step = "leaf" =>
       /\ result[1] = cmpgt(key_128, MiddleOf(result[0]))
       /\ merged[1] = LowestOf(result[0], result[1])

RangeInv == RangeSteps /\ WayDown /\ PlacesRight

LEMMA CallFacts ==
  ASSUME call \in Calls
  PROVE  /\ call.way \in {8, 17}
         /\ \A d \in 0..(call.way - 2) : dels[d] \in Int
         /\ \A d, e \in 0..(call.way - 2) : d <= e => dels[d] <= dels[e]
         /\ Registers \in Nat
         /\ DOMAIN keys = 0..(4 * Registers - 1)
         /\ \A k \in DOMAIN keys : keys[k] \in Int
<1>1. /\ call.way \in {8, 17}
      /\ DOMAIN dels = IF call.way = 17 THEN 0..15 ELSE 0..7
      /\ \A d \in DOMAIN dels : dels[d] \in Int
      /\ \A d, e \in 0..(call.way - 2) : d <= e => dels[d] <= dels[e]
      /\ IsFiniteSet(DOMAIN keys) /\ Cardinality(DOMAIN keys) % 4 = 0
      /\ DOMAIN keys = 0..(Cardinality(DOMAIN keys) - 1)
      /\ \A k \in DOMAIN keys : keys[k] \in Int
  BY DEF Calls, dels, keys
<1>2. Cardinality(DOMAIN keys) \in Nat
  BY <1>1, FS_CardinalityType, Zenon
<1>3. /\ Registers \in Nat
      /\ Cardinality(DOMAIN keys) = 4 * Registers
  BY <1>1, <1>2 DEF Registers
<1>4. \A d \in 0..(call.way - 2) : d \in DOMAIN dels
  BY <1>1
<1> HIDE DEF dels, keys
<1> QED BY <1>1, <1>3, <1>4

(* The place is what IndexRight asks for. *)
LEMMA PlaceIsIndex ==
  ASSUME call \in Calls, NEW key \in Int, NEW i, Place(key, i)
  PROVE  /\ i = Cardinality({d \in 0..(call.way - 2) : IsBelow(key, d)})
         /\ Accepted(key, i)
<1>1. /\ call.way \in {8, 17}
      /\ \A d \in 0..(call.way - 2) : dels[d] \in Int
  BY CallFacts
<1>2. /\ i \in 0..(call.way - 1)
      /\ \A d \in 0..(call.way - 2) : IsBelow(key, d) <=> d < i
  BY DEF Place
<1>3. {d \in 0..(call.way - 2) : IsBelow(key, d)} = 0..(i - 1)
  BY <1>1, <1>2
<1>4. Cardinality(0..(i - 1)) = i
  <2>1. Cardinality(0..(i - 1)) = IF 0 > i - 1 THEN 0 ELSE (i - 1) - 0 + 1
    BY <1>1, <1>2, FS_Interval
  <2> QED BY <2>1, <1>1, <1>2
<1>5. Accepted(key, i)
  <2> DEFINE top == call.way - 2
  <2>1. top \in 0..(call.way - 2) /\ 0 \in 0..(call.way - 2)
    BY <1>1
  <2>2. CASE i > top
    <3>1. IsBelow(key, top)
      BY <1>1, <1>2, <2>1, <2>2
    <3> QED BY <3>1, <2>1, <2>2, <1>1 DEF Accepted, IsBelow
  <2>3. CASE i = 0
    <3>1. ~ IsBelow(key, 0)
      BY <1>2, <2>1, <2>3
    <3> QED BY <3>1, <2>1, <2>3, <1>1 DEF Accepted, IsBelow
  <2>4. CASE i # 0 /\ ~ (i > top)
    <3>1. i - 1 \in 0..(call.way - 2) /\ i \in 0..(call.way - 2)
      BY <1>1, <1>2, <2>4
    <3>2. IsBelow(key, i - 1) /\ ~ IsBelow(key, i)
      BY <1>1, <1>2, <3>1
    <3>3. dels[i - 1] \in Int /\ dels[i] \in Int
      BY <1>1, <3>1
    <3>4. dels[i - 1] <= key /\ key <= dels[i]
      BY <3>2, <3>3 DEF IsBelow
    <3> QED BY <3>4, <2>4 DEF Accepted
  <2> QED BY <2>2, <2>3, <2>4
<1> QED BY <1>3, <1>4, <1>5

-----------------------------------------------------------------------------
(* range_17_way. *)

(* Delimiter j is in lane j % 4 of register j \div 4. *)
LEMMA BitPlaces ==
  \A j \in 0..15 : /\ j \div 4 \in 0..3 /\ j % 4 \in 0..3
                   /\ 4 * (j \div 4) + (j % 4) = j
OBVIOUS

(* The lanes of one register, and of two packed ones. *)
LEMMA Widths == Cardinality(0..3) = 4 /\ Cardinality(0..7) = 8
<1>1. ASSUME NEW m \in Nat, NEW n, n = m + 1 PROVE Cardinality(0..m) = n
  <2>1. Cardinality(0..m) = IF 0 > m THEN 0 ELSE m - 0 + 1
    BY FS_Interval
  <2> QED BY <2>1, <1>1
<1>2. 3 \in Nat /\ 7 \in Nat /\ 4 = 3 + 1 /\ 8 = 7 + 1
  OBVIOUS
<1> QED BY <1>1, <1>2, Zenon

(* The bit of lane j is the comparison with delimiter j. *)
LEMMA BitsOfPacked ==
  ASSUME NEW r, \A i \in Lanes : DOMAIN r[i] = Lanes
  PROVE  movemask(Packed(r)) = {j \in 0..15 : r[j \div 4][j % 4] < 0}
<1> DEFINE low == packs(r[0], r[1])
           high == packs(r[2], r[3])
<1>1. Cardinality(DOMAIN r[0]) = 4 /\ Cardinality(DOMAIN r[2]) = 4
  BY Widths DEF Lanes
<1>2. low = [l \in 0..(2 * 4 - 1) |-> IF l < 4 THEN r[0][l] ELSE r[1][l - 4]]
  BY <1>1 DEF packs
<1>3. high = [l \in 0..(2 * 4 - 1) |-> IF l < 4 THEN r[2][l] ELSE r[3][l - 4]]
  BY <1>1 DEF packs
<1> HIDE DEF low, high
<1>4. Cardinality(DOMAIN low) = 8
  <2>1. DOMAIN low = 0..7
    BY <1>2
  <2> QED BY <2>1, Widths
<1>5. packs(low, high) =
        [l \in 0..(2 * 8 - 1) |-> IF l < 8 THEN low[l] ELSE high[l - 8]]
  BY <1>4 DEF packs
<1>6. DOMAIN packs(low, high) = 0..15
  BY <1>5
<1>7. ASSUME NEW j \in 0..15
      PROVE  packs(low, high)[j] = r[j \div 4][j % 4]
  <2>1. CASE j \in 0..3
    <3>1. j \div 4 = 0 /\ j % 4 = j
      BY <2>1
    <3> QED BY <3>1, <2>1, <1>2, <1>5
  <2>2. CASE j \in 4..7
    <3>1. j \div 4 = 1 /\ j % 4 = j - 4
      BY <2>2
    <3> QED BY <3>1, <2>2, <1>2, <1>5
  <2>3. CASE j \in 8..11
    <3>1. j \div 4 = 2 /\ j % 4 = j - 8 /\ j - 8 \in 0..3
      BY <2>3
    <3> QED BY <3>1, <2>3, <1>3, <1>5
  <2>4. CASE j \in 12..15
    <3>1. j \div 4 = 3 /\ j % 4 = (j - 8) - 4 /\ j - 8 \in 4..7
      BY <2>4
    <3> QED BY <3>1, <2>4, <1>3, <1>5
  <2> QED BY <2>1, <2>2, <2>3, <2>4
<1>8. Packed(r) = packs(low, high)
  BY DEF Packed, low, high
<1> QED BY <1>6, <1>7, <1>8 DEF movemask

(* The first delimiter greater than the key, or 16. *)
LEMMA FirstGreaterRight ==
  ASSUME call \in Calls, call.way = 17, NEW key \in Int
  PROVE  Place(key, FirstGreater([l \in Lanes |-> key]))
<1> DEFINE register == [l \in Lanes |-> key]
           r == [i \in Lanes |-> cmpgt(load(dels, i), register)]
           bits == movemask(Packed(r)) \union {16}
           first_bit == Min(bits)
<1>1. /\ \A d \in 0..15 : dels[d] \in Int
      /\ \A d, e \in 0..15 : d <= e => dels[d] <= dels[e]
  BY CallFacts
<1>2. \A i \in Lanes : DOMAIN r[i] = Lanes
  BY DEF cmpgt
<1>3. \A i, l \in Lanes : r[i][l] = IF dels[4 * i + l] > key THEN -1 ELSE 0
  BY DEF cmpgt, load
<1> HIDE DEF r
<1>4. movemask(Packed(r)) = {j \in 0..15 : r[j \div 4][j % 4] < 0}
  BY <1>2, BitsOfPacked
<1>5. \A j \in 0..15 :
        /\ j \div 4 \in Lanes /\ j % 4 \in Lanes
        /\ 4 * (j \div 4) + (j % 4) = j
  BY BitPlaces DEF Lanes
<1>6. \A j \in 0..15 : r[j \div 4][j % 4] < 0 <=> dels[j] > key
  <2> SUFFICES ASSUME NEW j \in 0..15
               PROVE  r[j \div 4][j % 4] < 0 <=> dels[j] > key
    OBVIOUS
  <2>1. r[j \div 4][j % 4] = IF dels[4 * (j \div 4) + (j % 4)] > key THEN -1 ELSE 0
    BY <1>3, <1>5
  <2>2. r[j \div 4][j % 4] = IF dels[j] > key THEN -1 ELSE 0
    BY <2>1, <1>5
  <2> QED BY <2>2
<1>7. bits = {j \in 0..15 : dels[j] > key} \union {16}
  BY <1>4, <1>6
<1> HIDE DEF bits
<1>8. \E u \in bits : \A v \in bits : u <= v
  <2>1. bits \in SUBSET Nat /\ bits # {}
    BY <1>7
  <2> QED BY <2>1, Least
<1>9. first_bit \in bits /\ \A v \in bits : first_bit <= v
  BY <1>8 DEF Min
<1> HIDE DEF first_bit
<1>10. first_bit \in 0..16
  BY <1>7, <1>9
<1>11. ASSUME NEW d \in 0..15 PROVE IsBelow(key, d) <=> d < first_bit
  <2>1. IsBelow(key, d) <=> ~ (dels[d] > key)
    BY <1>1 DEF IsBelow
  <2>2. d < first_bit => ~ (dels[d] > key)
    <3>1. dels[d] > key => d \in bits
      BY <1>7
    <3> QED BY <3>1, <1>9, <1>10
  <2>3. ~ (d < first_bit) => dels[d] > key
    <3>1. SUFFICES ASSUME first_bit <= d PROVE dels[d] > key
      BY <1>10
    <3>2. first_bit \in 0..15 /\ dels[first_bit] > key
      BY <3>1, <1>7, <1>9
    <3> QED BY <3>1, <3>2, <1>1
  <2> QED BY <2>1, <2>2, <2>3
<1>12. FirstGreater(register) = first_bit
  BY DEF FirstGreater, bit_scan_forward, r, bits, first_bit
<1> HIDE DEF register
<1>13. Place(key, first_bit)
  BY <1>10, <1>11 DEF Place
<1> QED BY <1>12, <1>13 DEF register

-----------------------------------------------------------------------------
(* range_8_way. *)

(* What the comparisons on the way down make of one lane. *)
LEMMA LaneDown ==
  ASSUME call \in Calls, call.way = 8, NEW l \in Lanes,
         NEW greater, greater = cmpgt(key_128, dels_128(3)),
         NEW next_greater, next_greater = cmpgt(key_128, MiddleOf(greater)),
         key_128[l] \in Int
  PROVE  /\ greater[l] = IF key_128[l] > dels[3] THEN -1 ELSE 0
         /\ next_greater[l] =
              IF key_128[l] > (IF key_128[l] > dels[3] THEN dels[5] ELSE dels[1])
              THEN -1 ELSE 0
         /\ LowestOf(greater, next_greater)[l] =
              IF next_greater[l] < 0
              THEN IF key_128[l] > dels[3] THEN dels[6] ELSE dels[2]
              ELSE IF key_128[l] > dels[3] THEN dels[4] ELSE dels[0]
<1>1. \A d \in 0..6 : dels[d] \in Int
  <2>1. \A d \in 0..(call.way - 2) : dels[d] \in Int
    BY CallFacts
  <2> QED BY <2>1
<1>2. /\ dels_128(0)[l] = dels[0] /\ dels_128(1)[l] = dels[1] /\ dels_128(2)[l] = dels[2]
      /\ dels_128(3)[l] = dels[3] /\ dels_128(4)[l] = dels[4] /\ dels_128(5)[l] = dels[5]
      /\ dels_128(6)[l] = dels[6]
  BY DEF dels_128, broadcast, load, Lanes
<1>3. greater[l] = IF key_128[l] > dels[3] THEN -1 ELSE 0
  BY <1>2 DEF cmpgt
<1>4. MiddleOf(greater)[l] = IF key_128[l] > dels[3] THEN dels[5] ELSE dels[1]
  BY <1>2, <1>3 DEF MiddleOf, blendv
<1>5. next_greater[l] =
        IF key_128[l] > (IF key_128[l] > dels[3] THEN dels[5] ELSE dels[1]) THEN -1 ELSE 0
  BY <1>4 DEF cmpgt
<1>6. LowestOf(greater, next_greater)[l] =
        IF next_greater[l] < 0
        THEN IF key_128[l] > dels[3] THEN dels[6] ELSE dels[2]
        ELSE IF key_128[l] > dels[3] THEN dels[4] ELSE dels[0]
  BY <1>2, <1>3 DEF LowestOf, blendv
<1> QED BY <1>3, <1>5, <1>6

(* The way down ends at the key's place. *)
LEMMA IndexIsPlace ==
  ASSUME RangeInv, step = "leaf", NEW l \in Lanes, key_128[l] \in Int
  PROVE  Place(key_128[l], Index[l])
<1> DEFINE key == key_128[l]
           top == IF key > dels[3] THEN 1 ELSE 0
           middle == IF key > (IF top = 1 THEN dels[5] ELSE dels[1]) THEN 1 ELSE 0
           bottom == IF key > (IF middle = 1 THEN IF top = 1 THEN dels[6] ELSE dels[2]
                               ELSE IF top = 1 THEN dels[4] ELSE dels[0])
                     THEN 1 ELSE 0
<1>1. call \in Calls /\ call.way = 8
  BY DEF RangeInv, RangeSteps
<1>2. /\ \A d \in 0..6 : dels[d] \in Int
      /\ \A d, e \in 0..6 : d <= e => dels[d] <= dels[e]
  BY <1>1, CallFacts
<1>3. /\ result[0] = cmpgt(key_128, dels_128(3))
      /\ result[1] = cmpgt(key_128, MiddleOf(result[0]))
      /\ merged[1] = LowestOf(result[0], result[1])
  BY DEF RangeInv, WayDown
<1>4. /\ result[0][l] = - top /\ result[1][l] = - middle
      /\ merged[1][l] = IF middle = 1 THEN IF top = 1 THEN dels[6] ELSE dels[2]
                        ELSE IF top = 1 THEN dels[4] ELSE dels[0]
  BY <1>1, <1>3, LaneDown
<1>5. cmpgt(key_128, merged[1])[l] = - bottom
  BY <1>4 DEF cmpgt
<1> DEFINE up == 0 - result[0][l]
           across == (up + up) - result[1][l]
<1>6. Index[l] = (across + across) - cmpgt(key_128, merged[1])[l]
  BY DEF Index, sub, add, Zero
<1>7. Index[l] = 4 * top + 2 * middle + bottom
  BY <1>4, <1>5, <1>6
<1>8. ASSUME NEW d \in 0..6 PROVE key > dels[d] <=> d < 4 * top + 2 * middle + bottom
  <2>1. /\ dels[0] <= dels[1] /\ dels[1] <= dels[2] /\ dels[2] <= dels[3]
        /\ dels[3] <= dels[4] /\ dels[4] <= dels[5] /\ dels[5] <= dels[6]
    BY <1>2
  <2>2. d = 0 \/ d = 1 \/ d = 2 \/ d = 3 \/ d = 4 \/ d = 5 \/ d = 6
    OBVIOUS
  <2> QED BY <1>2, <2>1, <2>2
<1>9. 4 * top + 2 * middle + bottom \in 0..7
  OBVIOUS
<1>10. ASSUME NEW d \in 0..6 PROVE IsBelow(key, d) <=> key > dels[d]
  BY <1>1, <1>2 DEF IsBelow
<1> HIDE DEF top, middle, bottom, key
<1> QED BY <1>1, <1>7, <1>8, <1>9, <1>10 DEF Place, key

-----------------------------------------------------------------------------
(* Each step keeps RangeInv. *)

LEMMA RangeStart == RInit => RangeInv
<1> SUFFICES ASSUME RInit PROVE RangeInv
  OBVIOUS
<1> USE DEF RInit
<1>1. call \in Calls
  OBVIOUS
<1>2. Registers \in Nat /\ DOMAIN keys = 0..(4 * Registers - 1)
  BY <1>1, CallFacts
<1> HIDE DEF RInit
<1>3. RangeSteps
  BY <1>2 DEF RInit, RangeSteps
<1>4. WayDown
  BY DEF RInit, WayDown
<1>5. PlacesRight
  BY <1>2 DEF RInit, PlacesRight
<1> QED BY <1>3, <1>4, <1>5 DEF RangeInv

LEMMA LoadKeysStep ==
  ASSUME RangeInv, LoadKeys(IF call.way = 17 THEN "scan" ELSE "root")
  PROVE  RangeInv'
<1> USE DEF RangeInv, LoadKeys
<1>1. call \in Calls /\ call' = call /\ call.way \in {8, 17} /\ Registers \in Nat
  BY CallFacts DEF RangeSteps
<1>2. /\ keys' = keys /\ Registers' = Registers
      /\ \A key, d : IsBelow(key, d)' = IsBelow(key, d)
  BY <1>1 DEF keys, Registers, IsBelow, dels
<1>3. RangeSteps'
  BY <1>1, <1>2 DEF RangeSteps, load, dels
<1>4. WayDown'
  BY <1>1 DEF WayDown
<1>5. PlacesRight'
  BY <1>1, <1>2 DEF PlacesRight, Place
<1> QED BY <1>3, <1>4, <1>5

(* The keys at work are the next four. *)
LEMMA KeysAtWork ==
  ASSUME RangeInv, step # "load", NEW l \in Lanes
  PROVE  /\ 4 * (beg - 1) + l \in DOMAIN keys
         /\ key_128[l] = keys[4 * (beg - 1) + l] /\ key_128[l] \in Int
<1>1. /\ call \in Calls /\ beg \in 0..Registers /\ at \in Nat
      /\ beg > 0 /\ key_128 = load(keys, beg - 1)
  BY DEF RangeInv, RangeSteps
<1>2. /\ Registers \in Nat /\ DOMAIN keys = 0..(4 * Registers - 1)
      /\ \A k \in DOMAIN keys : keys[k] \in Int
  BY <1>1, CallFacts
<1>3. 4 * (beg - 1) + l \in DOMAIN keys
  BY <1>1, <1>2 DEF Lanes
<1>4. key_128[l] = keys[4 * (beg - 1) + l]
  BY <1>1 DEF load
<1> QED BY <1>2, <1>3, <1>4

LEMMA ScanStep == ASSUME RangeInv, Scan PROVE RangeInv'
<1>1. /\ call \in Calls /\ call' = call /\ call.way = 17
      /\ beg \in 0..Registers /\ beg' = beg /\ at \in Nat /\ at' = at + 1
      /\ 4 * (beg - 1) <= at /\ at < 4 * beg
      /\ key_128' = key_128 /\ merged' = merged /\ result' = result
      /\ step = "scan" /\ step' = IF (at + 1) % 4 = 0 THEN "load" ELSE "scan"
      /\ indices' = [indices EXCEPT ![at] = FirstGreater(broadcast(key_128, at % 4))]
  BY DEF RangeInv, RangeSteps, Scan
<1>2. /\ keys' = keys /\ Registers' = Registers /\ Registers \in Nat
      /\ DOMAIN keys = 0..(4 * Registers - 1)
      /\ \A key, d : IsBelow(key, d)' = IsBelow(key, d)
  BY <1>1, CallFacts DEF keys, Registers, IsBelow, dels
<1>3. at % 4 \in Lanes /\ at = 4 * (beg - 1) + (at % 4)
  BY <1>1, <1>2 DEF Lanes
<1>4. at \in DOMAIN keys /\ key_128[at % 4] = keys[at] /\ keys[at] \in Int
  BY <1>1, <1>3, KeysAtWork
<1>5. Place(keys[at], FirstGreater(broadcast(key_128, at % 4)))
  <2>1. broadcast(key_128, at % 4) = [l \in Lanes |-> keys[at]]
    BY <1>4 DEF broadcast
  <2> QED BY <1>1, <1>4, <2>1, FirstGreaterRight
<1>6. RangeSteps'
  <2>1. (at + 1) % 4 = 0 => at + 1 = 4 * beg
    BY <1>1, <1>2
  <2>2. (at + 1) % 4 # 0 => at + 1 < 4 * beg
    BY <1>1, <1>2
  <2>3. key_128 = load(keys, beg - 1)
    BY <1>1 DEF RangeInv, RangeSteps
  <2> HIDE DEF load
  <2> QED BY <1>1, <1>2, <2>1, <2>2, <2>3 DEF RangeSteps, load
<1>7. WayDown'
  BY <1>1 DEF RangeInv, WayDown
<1>8. PlacesRight'
  <2> SUFFICES ASSUME NEW k \in DOMAIN keys
               PROVE  /\ k >= at + 1 => indices'[k] = Unwritten
                      /\ k < at + 1 => Place(keys[k], indices'[k])
    BY <1>1, <1>2 DEF RangeInv, PlacesRight, Place
  <2>1. k \in Int /\ DOMAIN indices = DOMAIN keys
    BY <1>2 DEF RangeInv, PlacesRight
  <2>2. CASE k = at
    BY <1>1, <1>4, <1>5, <2>1, <2>2
  <2>3. CASE k # at
    <3>1. indices'[k] = indices[k]
      BY <1>1, <2>1, <2>3
    <3> QED BY <1>1, <2>1, <2>3, <3>1 DEF RangeInv, PlacesRight
  <2> QED BY <2>2, <2>3
<1> QED BY <1>6, <1>7, <1>8 DEF RangeInv

LEMMA RootStep == ASSUME RangeInv, Root PROVE RangeInv'
<1>1. /\ call \in Calls /\ call' = call /\ call.way = 8
      /\ beg' = beg /\ at' = at /\ key_128' = key_128 /\ indices' = indices
      /\ step = "root" /\ step' = "child"
  BY DEF RangeInv, RangeSteps, Root
<1>2. /\ keys' = keys /\ dels' = dels /\ Registers' = Registers
      /\ \A key, d : IsBelow(key, d)' = IsBelow(key, d)
      /\ \A d : dels_128(d)' = dels_128(d)
  BY <1>1 DEF keys, Registers, IsBelow, dels, dels_128, load, broadcast
<1>3. RangeSteps'
  BY <1>1, <1>2 DEF RangeInv, RangeSteps, load
<1>4. WayDown'
  <2>1. DOMAIN result = 0..1 /\ 0 \in 0..1
    BY DEF RangeInv, WayDown
  <2>2. /\ DOMAIN result' = 0..1 /\ result'[0] = cmpgt(key_128, dels_128(3))
        /\ merged' = [i \in 0..2 |-> blendv(dels_128(i), dels_128(i + 4), result'[0])]
    BY <2>1 DEF Root
  <2>3. DOMAIN merged' = 0..2
    BY <2>2
  <2>4. dels_128(3)' = dels_128(3) /\ cmpgt(key_128, dels_128(3))' = cmpgt(key_128, dels_128(3))
    BY <1>1, <1>2 DEF cmpgt
  <2>5. merged' = [i \in 0..2 |-> blendv(dels_128(i), dels_128(i + 4), result[0])]'
    BY <1>1, <1>2, <2>2 DEF blendv
  <2> QED BY <1>1, <2>2, <2>3, <2>4, <2>5 DEF WayDown
<1>5. PlacesRight'
  BY <1>1, <1>2 DEF RangeInv, PlacesRight, Place
<1> QED BY <1>3, <1>4, <1>5 DEF RangeInv

LEMMA ChildStep == ASSUME RangeInv, Child PROVE RangeInv'
<1>1. /\ call \in Calls /\ call' = call /\ call.way = 8
      /\ beg' = beg /\ at' = at /\ key_128' = key_128 /\ indices' = indices
      /\ step = "child" /\ step' = "leaf"
  BY DEF RangeInv, RangeSteps, Child
<1>2. /\ keys' = keys /\ dels' = dels /\ Registers' = Registers
      /\ \A key, d : IsBelow(key, d)' = IsBelow(key, d)
  BY <1>1 DEF keys, Registers, IsBelow, dels
<1>3. RangeSteps'
  BY <1>1, <1>2 DEF RangeInv, RangeSteps, load
<1>4. WayDown'
  <2>1. /\ DOMAIN result = 0..1 /\ DOMAIN merged = 0..2
        /\ 0 \in 0..1 /\ 1 \in 0..1 /\ 0 \in 0..2 /\ 1 \in 0..2 /\ 2 \in 0..2
        /\ result[0] = cmpgt(key_128, dels_128(3))
        /\ merged = [i \in 0..2 |-> blendv(dels_128(i), dels_128(i + 4), result[0])]
    BY <1>1 DEF RangeInv, WayDown
  <2>2. /\ merged[0] = blendv(dels_128(0), dels_128(4), result[0])
        /\ merged[1] = MiddleOf(result[0])
        /\ merged[2] = blendv(dels_128(2), dels_128(6), result[0])
    BY <2>1 DEF MiddleOf
  <2>3. /\ DOMAIN result' = 0..1 /\ DOMAIN merged' = 0..2
        /\ result'[0] = result[0] /\ result'[1] = cmpgt(key_128, merged[1])
        /\ merged'[1] = blendv(merged[0], merged[2], result'[1])
    BY <2>1 DEF Child
  <2>4. merged'[1] = LowestOf(result'[0], result'[1])
    BY <2>2, <2>3 DEF LowestOf
  <2>5. result'[1] = cmpgt(key_128, MiddleOf(result'[0]))
    BY <2>2, <2>3
  <2>6. /\ cmpgt(key_128, dels_128(3))' = cmpgt(key_128, dels_128(3))
        /\ cmpgt(key_128, MiddleOf(result[0]))' = cmpgt(key_128, MiddleOf(result'[0]))
        /\ LowestOf(result[0], result[1])' = LowestOf(result'[0], result'[1])
    BY <1>1, <1>2 DEF cmpgt, dels_128, load, broadcast, MiddleOf, LowestOf, blendv
  <2> QED BY <1>1, <2>1, <2>3, <2>4, <2>5, <2>6 DEF WayDown
<1>5. PlacesRight'
  BY <1>1, <1>2 DEF RangeInv, PlacesRight, Place
<1> QED BY <1>3, <1>4, <1>5 DEF RangeInv

LEMMA LeafStep == ASSUME RangeInv, Leaf PROVE RangeInv'
<1>1. /\ call \in Calls /\ call' = call /\ call.way = 8
      /\ beg \in 0..Registers /\ beg > 0 /\ beg' = beg
      /\ at = 4 * (beg - 1) /\ at' = at + 4
      /\ key_128' = key_128 /\ merged' = merged /\ result' = result
      /\ step = "leaf" /\ step' = "load"
      /\ indices' = [k \in DOMAIN indices |->
                       IF k \in at..(at + 3) THEN Index[k - at] ELSE indices[k]]
  BY DEF RangeInv, RangeSteps, Leaf
<1>2. /\ keys' = keys /\ Registers' = Registers /\ Registers \in Nat
      /\ DOMAIN keys = 0..(4 * Registers - 1)
      /\ \A key, d : IsBelow(key, d)' = IsBelow(key, d)
  BY <1>1, CallFacts DEF keys, Registers, IsBelow, dels
<1>3. RangeSteps'
  BY <1>1, <1>2 DEF RangeSteps
<1>4. WayDown'
  BY <1>1 DEF RangeInv, WayDown
<1>5. PlacesRight'
  <2>1. DOMAIN indices = DOMAIN keys /\ at \in Nat
    BY <1>1, <1>2 DEF RangeInv, PlacesRight
  <2> SUFFICES ASSUME NEW k \in DOMAIN keys
               PROVE  /\ k >= at + 4 => indices'[k] = Unwritten
                      /\ k < at + 4 => Place(keys[k], indices'[k])
    BY <1>1, <1>2, <2>1 DEF PlacesRight, Place
  <2>2. k \in Int
    BY <1>2
  <2>3. CASE k \in at..(at + 3)
    <3> at \in Int /\ 4 * (beg - 1) = at
      BY <1>1, <2>1
    <3>1. k - at \in Lanes /\ 4 * (beg - 1) + (k - at) = k
      BY <2>2, <2>3 DEF Lanes
    <3>2. key_128[k - at] = keys[k] /\ key_128[k - at] \in Int
      BY <1>1, <3>1, KeysAtWork
    <3>3. Place(keys[k], Index[k - at])
      BY <1>1, <3>1, <3>2, IndexIsPlace
    <3>4. indices'[k] = Index[k - at]
      BY <1>1, <2>1, <2>3
    <3> QED BY <2>1, <2>2, <2>3, <3>3, <3>4
  <2>4. CASE k \notin at..(at + 3)
    <3>1. indices'[k] = indices[k]
      BY <1>1, <2>1, <2>4
    <3> QED BY <2>1, <2>2, <2>4, <3>1 DEF RangeInv, PlacesRight
  <2> QED BY <2>3, <2>4
<1> QED BY <1>3, <1>4, <1>5 DEF RangeInv

LEMMA RangeStutter == ASSUME RangeInv, UNCHANGED rangeVars PROVE RangeInv'
<1>1. /\ call' = call /\ beg' = beg /\ at' = at /\ key_128' = key_128
      /\ result' = result /\ merged' = merged /\ indices' = indices /\ step' = step
  BY DEF rangeVars
<1> QED BY <1>1 DEF RangeInv, RangeSteps, WayDown, PlacesRight, Place, IsBelow, MiddleOf,
              LowestOf, Registers, keys, dels, dels_128, load, broadcast, cmpgt, blendv

(* Every step of range_17_way and range_8_way keeps the invariant. *)
THEOREM RangeInvariance == RSpec => []RangeInv
<1>1. RangeInv /\ [RNext]_rangeVars => RangeInv'
  <2> SUFFICES ASSUME RangeInv, [RNext]_rangeVars PROVE RangeInv'
    OBVIOUS
  <2>1. CASE LoadKeys(IF call.way = 17 THEN "scan" ELSE "root")
    BY <2>1, LoadKeysStep
  <2>2. CASE Scan
    BY <2>2, ScanStep
  <2>3. CASE Root
    BY <2>3, RootStep
  <2>4. CASE Child
    BY <2>4, ChildStep
  <2>5. CASE Leaf
    BY <2>5, LeafStep
  <2>6. CASE RTerminated \/ UNCHANGED rangeVars
    BY <2>6, RangeStutter DEF RTerminated
  <2> QED BY <2>1, <2>2, <2>3, <2>4, <2>5, <2>6 DEF RNext
<1> QED BY <1>1, RangeStart, PTL DEF RSpec

(* range_17_way and range_8_way store for every key the number of delimiters
   below it, which is what the test programs accept: for any number of keys, any
   keys and any sorted delimiters, equal ones too, whatever the number behind
   the 7 delimiters is. *)
THEOREM RangesFound == RSpec => []IndexRight
<1>1. RangeInv => IndexRight
  <2> SUFFICES ASSUME RangeInv, NEW k \in DOMAIN keys
               PROVE  IF k >= at THEN indices[k] = Unwritten
                      ELSE /\ indices[k] =
                                Cardinality({d \in 0..(call.way - 2) : IsBelow(keys[k], d)})
                           /\ Accepted(keys[k], indices[k])
    BY DEF IndexRight, IsBelow
  <2>1. call \in Calls /\ at \in Nat
    BY DEF RangeInv, RangeSteps
  <2>2. keys[k] \in Int /\ k \in Int
    BY <2>1, CallFacts
  <2>3. CASE k >= at
    BY <2>3 DEF RangeInv, PlacesRight
  <2>4. CASE ~ (k >= at)
    <3>1. Place(keys[k], indices[k])
      BY <2>1, <2>2, <2>4 DEF RangeInv, PlacesRight
    <3> QED BY <2>1, <2>2, <2>4, <3>1, PlaceIsIndex
  <2> QED BY <2>3, <2>4
<1> QED BY <1>1, RangeInvariance, PTL

-----------------------------------------------------------------------------
(* pdqsort and divide_sort. *)

Arrays(D) == [D -> Int]

(* m2 has the elements of m; none was moved but from [lo, hi) to [lo, hi). *)
Moves(D, p, lo, hi) ==
  /\ p \in [D -> D]
  /\ \A i \in D : IF i \in lo..(hi - 1) THEN p[i] \in lo..(hi - 1) ELSE p[i] = i
  /\ \A i, j \in D : p[i] = p[j] => i = j
  /\ \A j \in D : \E i \in D : p[i] = j
Shuffled(D, m, m2, lo, hi) ==
  /\ m2 \in Arrays(D)
  /\ \E p \in [D -> D] : Moves(D, p, lo, hi) /\ \A i \in D : m2[i] = m[p[i]]

Rising(m, lo, hi) == \A i, j \in lo..(hi - 1) : i < j => m[i] <= m[j]

-----------------------------------------------------------------------------
(* Where the searches stop. *)

(* Min and Max of a set with a bound. *)
LEMMA MinIs ==
  ASSUME NEW T \in SUBSET Int, T # {}, NEW b \in Int, \A t \in T : b <= t
  PROVE  Min(T) \in T /\ \A t \in T : Min(T) <= t
<1> DEFINE S == {t - b : t \in T}
<1>1. \A t \in T : t \in Int /\ t - b \in Nat /\ t - b \in S
  <2>1. \A t \in T : t \in Int /\ t - b \in Nat
    OBVIOUS
  <2>2. \A t \in T : t - b \in S
    BY Zenon
  <2> QED BY <2>1, <2>2
<1>2. PICK u \in S : \A v \in S : u <= v
  <2>1. S \in SUBSET Nat /\ S # {}
    BY <1>1
  <2> QED BY <2>1, Least, Zenon
<1>3. PICK w \in T : u = w - b
  OBVIOUS
<1> HIDE DEF S
<1>4. \A t \in T : w <= t
  BY <1>1, <1>2, <1>3
<1>5. Min(T) = CHOOSE t \in T : \A v \in T : t <= v
  BY DEF Min
<1> QED BY <1>4, <1>5

LEMMA MaxIs ==
  ASSUME NEW T \in SUBSET Int, T # {}, NEW b \in Int, \A t \in T : t <= b
  PROVE  Max(T) \in T /\ \A t \in T : t <= Max(T)
<1> DEFINE S == {b - t : t \in T}
<1>1. \A t \in T : t \in Int /\ b - t \in Nat /\ b - t \in S
  <2>1. \A t \in T : t \in Int /\ b - t \in Nat
    OBVIOUS
  <2>2. \A t \in T : b - t \in S
    BY Zenon
  <2> QED BY <2>1, <2>2
<1>2. PICK u \in S : \A v \in S : u <= v
  <2>1. S \in SUBSET Nat /\ S # {}
    BY <1>1
  <2> QED BY <2>1, Least, Zenon
<1>3. PICK w \in T : u = b - w
  OBVIOUS
<1> HIDE DEF S
<1>4. \A t \in T : w >= t
  BY <1>1, <1>2, <1>3
<1>5. Max(T) = CHOOSE t \in T : \A v \in T : t >= v
  BY DEF Max
<1> QED BY <1>4, <1>5

(* The search that goes up has passed nothing that stops it. *)
LEMMA UpIs ==
  ASSUME NEW from \in Int, NEW hi \in Int, NEW S
  PROVE  LET u == Up(from, hi, S)
         IN /\ u \in Int /\ u <= hi
            /\ u = hi \/ (u >= from /\ u \in S)
            /\ \A i \in from..(hi - 1) : i < u => i \notin S
            /\ \A i \in from..(hi - 1) : i \in S => u <= i /\ u \in S
            /\ from <= hi => from <= u
<1> DEFINE T == {hi} \cup ((from..(hi - 1)) \cap S)
<1> DEFINE b == IF from <= hi THEN from ELSE hi
<1>1. T \in SUBSET Int /\ hi \in T /\ b \in Int /\ \A t \in T : b <= t
  OBVIOUS
<1>2. Min(T) \in T /\ \A t \in T : Min(T) <= t
  BY <1>1, MinIs
<1>3. Up(from, hi, S) = Min(T)
  BY DEF Up
<1> HIDE DEF T, b
<1>4. \A t : t \in T <=> t = hi \/ (t \in from..(hi - 1) /\ t \in S)
  BY DEF T
<1> QED BY <1>2, <1>3, <1>4

LEMMA DownIs ==
  ASSUME NEW from \in Int, NEW lo \in Int, NEW S
  PROVE  LET d == Down(from, lo, S)
         IN /\ d \in Int /\ d >= lo - 1
            /\ d = lo - 1 \/ (d <= from /\ d \in S)
            /\ \A i \in lo..from : d < i => i \notin S
            /\ \A i \in lo..from : i \in S => i <= d /\ d \in S
            /\ lo - 1 <= from => d <= from
<1> DEFINE T == {lo - 1} \cup ((lo..from) \cap S)
<1> DEFINE b == IF lo - 1 <= from THEN from ELSE lo - 1
<1>1. T \in SUBSET Int /\ lo - 1 \in T /\ b \in Int /\ \A t \in T : t <= b
  OBVIOUS
<1>2. Max(T) \in T /\ \A t \in T : t <= Max(T)
  BY <1>1, MaxIs
<1>3. Down(from, lo, S) = Max(T)
  BY DEF Down
<1> HIDE DEF T, b
<1>4. \A t : t \in T <=> t = lo - 1 \/ (t \in lo..from /\ t \in S)
  BY DEF T
<1> QED BY <1>2, <1>3, <1>4

-----------------------------------------------------------------------------
(* What exchanges keep. *)

LEMMA ShuffledNot ==
  ASSUME NEW D, NEW m \in Arrays(D), NEW lo, NEW hi
  PROVE  Shuffled(D, m, m, lo, hi)
<1> DEFINE p == [i \in D |-> i]
<1>1. p \in [D -> D] /\ \A i \in D : p[i] = i
  OBVIOUS
<1>2. Moves(D, p, lo, hi)
  BY <1>1 DEF Moves
<1> QED BY <1>1, <1>2 DEF Shuffled

LEMMA ShuffledTwice ==
  ASSUME NEW D, NEW lo, NEW hi, NEW m, NEW m2, NEW m3,
         Shuffled(D, m, m2, lo, hi), Shuffled(D, m2, m3, lo, hi)
  PROVE  Shuffled(D, m, m3, lo, hi)
<1>1. PICK p \in [D -> D] : Moves(D, p, lo, hi) /\ \A i \in D : m2[i] = m[p[i]]
  BY DEF Shuffled
<1>2. PICK q \in [D -> D] : Moves(D, q, lo, hi) /\ \A i \in D : m3[i] = m2[q[i]]
  BY DEF Shuffled
<1> DEFINE r == [i \in D |-> p[q[i]]]
<1>3. r \in [D -> D] /\ \A i \in D : r[i] = p[q[i]] /\ q[i] \in D /\ p[i] \in D
  OBVIOUS
<1> HIDE DEF r
<1>4. \A j \in D : \E i \in D : r[i] = j
  <2> SUFFICES ASSUME NEW j \in D PROVE \E i \in D : r[i] = j
    OBVIOUS
  <2>1. PICK k \in D : p[k] = j
    BY <1>1 DEF Moves
  <2>2. PICK i \in D : q[i] = k
    BY <1>2 DEF Moves
  <2> QED BY <1>3, <2>1, <2>2
<1>5. \A i, j \in D : r[i] = r[j] => i = j
  <2>1. \A i, j \in D : p[i] = p[j] => i = j
    BY <1>1 DEF Moves
  <2>2. \A i, j \in D : q[i] = q[j] => i = j
    BY <1>2 DEF Moves
  <2> QED BY <1>3, <2>1, <2>2
<1>6. \A i \in D : IF i \in lo..(hi - 1) THEN r[i] \in lo..(hi - 1) ELSE r[i] = i
  <2>1. \A i \in D : IF i \in lo..(hi - 1) THEN p[i] \in lo..(hi - 1) ELSE p[i] = i
    BY <1>1 DEF Moves
  <2>2. \A i \in D : IF i \in lo..(hi - 1) THEN q[i] \in lo..(hi - 1) ELSE q[i] = i
    BY <1>2 DEF Moves
  <2> QED BY <1>3, <2>1, <2>2
<1>7. Moves(D, r, lo, hi)
  BY <1>3, <1>4, <1>5, <1>6 DEF Moves
<1>8. \A i \in D : m3[i] = m[r[i]]
  BY <1>1, <1>2, <1>3
<1>9. m3 \in Arrays(D)
  BY DEF Shuffled
<1> QED BY <1>3, <1>7, <1>8, <1>9 DEF Shuffled

(* In a part is in the whole. *)
LEMMA ShuffledWithin ==
  ASSUME NEW D, NEW m, NEW m2, NEW lo \in Int, NEW hi \in Int, NEW lo2 \in Int, NEW hi2 \in Int,
         Shuffled(D, m, m2, lo, hi), lo2 <= lo, hi <= hi2
  PROVE  Shuffled(D, m, m2, lo2, hi2)
<1>1. PICK p \in [D -> D] : Moves(D, p, lo, hi) /\ \A i \in D : m2[i] = m[p[i]]
  BY DEF Shuffled
<1>2. \A i : i \in lo..(hi - 1) => i \in lo2..(hi2 - 1)
  OBVIOUS
<1>3. \A i \in D : IF i \in lo2..(hi2 - 1) THEN p[i] \in lo2..(hi2 - 1) ELSE p[i] = i
  BY <1>1, <1>2 DEF Moves
<1>4. Moves(D, p, lo2, hi2)
  BY <1>1, <1>3 DEF Moves
<1> QED BY <1>1, <1>4 DEF Shuffled

(* What is outside stays, what is inside was inside. *)
Contained(D, m, m2, lo, hi) ==
  /\ m2 \in Arrays(D)
  /\ \A i \in D : i \notin lo..(hi - 1) => m2[i] = m[i]
  /\ \A i \in D : i \in lo..(hi - 1) =>
       \E j \in D : j \in lo..(hi - 1) /\ m2[i] = m[j]

LEMMA ShuffledPlaces ==
  ASSUME NEW D, NEW m, NEW m2, NEW lo, NEW hi, Shuffled(D, m, m2, lo, hi)
  PROVE  Contained(D, m, m2, lo, hi)
<1>1. PICK p \in [D -> D] : Moves(D, p, lo, hi) /\ \A i \in D : m2[i] = m[p[i]]
  BY DEF Shuffled
<1>3. ASSUME NEW i \in D, i \in lo..(hi - 1)
      PROVE  \E j \in D : j \in lo..(hi - 1) /\ m2[i] = m[j]
  <2>1. p[i] \in D /\ p[i] \in lo..(hi - 1)
    BY <1>1, <1>3 DEF Moves
  <2> QED BY <1>1, <2>1
<1>4. \A i \in D : i \notin lo..(hi - 1) => m2[i] = m[i]
  BY <1>1 DEF Moves
<1> QED BY <1>3, <1>4 DEF Shuffled, Contained

Swapped(D, m, i, j, m2) ==
  /\ m2 \in Arrays(D)
  /\ m2[i] = m[j] /\ m2[j] = m[i]
  /\ \A k \in D : k # i /\ k # j => m2[k] = m[k]

LEMMA SwapIs ==
  ASSUME NEW D, NEW m \in Arrays(D), NEW i \in D, NEW j \in D
  PROVE  Swapped(D, m, i, j, Swap(m, i, j))
BY DEF Swap, Arrays, Swapped

LEMMA ShuffledSwap ==
  ASSUME NEW D, NEW m \in Arrays(D), NEW lo, NEW hi,
         NEW i \in D, NEW j \in D, i \in lo..(hi - 1), j \in lo..(hi - 1)
  PROVE  Shuffled(D, m, Swap(m, i, j), lo, hi)
<1> DEFINE p == [k \in D |-> IF k = i THEN j ELSE IF k = j THEN i ELSE k]
<1>1. p \in [D -> D] /\ p[i] = j /\ p[j] = i /\ \A k \in D : k # i /\ k # j => p[k] = k
  <2>1. p \in [D -> D] /\ \A k \in D : p[k] = IF k = i THEN j ELSE IF k = j THEN i ELSE k
    OBVIOUS
  <2> HIDE DEF p
  <2> QED BY <2>1
<1> HIDE DEF p
<1>2. Swap(m, i, j) \in Arrays(D) /\ \A k \in D : Swap(m, i, j)[k] = m[p[k]]
  <2>1. Swapped(D, m, i, j, Swap(m, i, j))
    BY SwapIs, Zenon
  <2> QED BY <1>1, <2>1 DEF Swapped
<1>3. \A k \in D : IF k \in lo..(hi - 1) THEN p[k] \in lo..(hi - 1) ELSE p[k] = k
  BY <1>1
<1>4. \A k, l \in D : p[k] = p[l] => k = l
  BY <1>1
<1>5. \A k \in D : \E l \in D : p[l] = k
  BY <1>1
<1>6. Moves(D, p, lo, hi)
  BY <1>1, <1>3, <1>4, <1>5 DEF Moves
<1> QED BY <1>1, <1>2, <1>6 DEF Shuffled

-----------------------------------------------------------------------------
(* Sorting few elements. *)

SortedTwo(D, m, i, j, m2) ==
  /\ m2 \in Arrays(D)
  /\ m2[i] <= m2[j]
  /\ {m2[i], m2[j]} = {m[i], m[j]}
  /\ \A k \in D : k # i /\ k # j => m2[k] = m[k]

LEMMA Sort2Is ==
  ASSUME NEW D, NEW m \in Arrays(D), NEW lo, NEW hi,
         NEW i \in D, NEW j \in D, i \in lo..(hi - 1), j \in lo..(hi - 1), i # j
  PROVE  /\ SortedTwo(D, m, i, j, sort2(m, i, j))
         /\ Shuffled(D, m, sort2(m, i, j), lo, hi)
<1> m[i] \in Int /\ m[j] \in Int
  BY DEF Arrays
<1>1. CASE m[j] < m[i]
  <2>1. sort2(m, i, j) = Swap(m, i, j)
    BY <1>1 DEF sort2
  <2>2. Swapped(D, m, i, j, Swap(m, i, j))
    BY SwapIs, Zenon
  <2>3. Shuffled(D, m, Swap(m, i, j), lo, hi)
    BY ShuffledSwap, Zenon
  <2>4. m[j] <= m[i]
    BY <1>1
  <2>5. SortedTwo(D, m, i, j, Swap(m, i, j))
    BY <2>2, <2>4 DEF Swapped, SortedTwo
  <2> QED BY <2>1, <2>3, <2>5
<1>2. CASE ~ (m[j] < m[i])
  <2>1. sort2(m, i, j) = m
    BY <1>2 DEF sort2
  <2>2. m[i] <= m[j]
    BY <1>2
  <2>3. Shuffled(D, m, m, lo, hi)
    BY ShuffledNot, Zenon
  <2>4. SortedTwo(D, m, i, j, m)
    BY <2>2 DEF SortedTwo
  <2> QED BY <2>1, <2>3, <2>4
<1> QED BY <1>1, <1>2

(* Three different places are in order, whatever was there. *)
LEMMA Sort3Is ==
  ASSUME NEW D, NEW m \in Arrays(D), NEW lo, NEW hi,
         NEW i \in D, NEW j \in D, NEW k \in D,
         i \in lo..(hi - 1), j \in lo..(hi - 1), k \in lo..(hi - 1),
         i # j, j # k, i # k
  PROVE  /\ sort3(m, i, j, k) \in Arrays(D)
         /\ Shuffled(D, m, sort3(m, i, j, k), lo, hi)
         /\ sort3(m, i, j, k)[i] <= sort3(m, i, j, k)[j]
         /\ sort3(m, i, j, k)[j] <= sort3(m, i, j, k)[k]
<1> DEFINE s1 == sort2(m, i, j)
           s2 == sort2(s1, j, k)
           s3 == sort2(s2, i, j)
<1>1. SortedTwo(D, m, i, j, s1) /\ Shuffled(D, m, s1, lo, hi)
  BY Sort2Is, Zenon
<1>7. sort3(m, i, j, k) = s3
  BY DEF sort3, s1, s2, s3
<1> HIDE DEF s1
<1>a. s1 \in Arrays(D)
  BY <1>1 DEF SortedTwo
<1>2. SortedTwo(D, s1, j, k, s2) /\ Shuffled(D, s1, s2, lo, hi)
  BY <1>a, Sort2Is, Zenon
<1> HIDE DEF s2
<1>b. s2 \in Arrays(D)
  BY <1>2 DEF SortedTwo
<1>3. SortedTwo(D, s2, i, j, s3) /\ Shuffled(D, s2, s3, lo, hi)
  BY <1>b, Sort2Is, Zenon
<1> HIDE DEF s3
<1>c. \A t \in {s1, s2, s3} : t[i] \in Int /\ t[j] \in Int /\ t[k] \in Int
  BY <1>1, <1>2, <1>3 DEF SortedTwo, Arrays
<1>4. s2[i] <= s2[k] /\ s2[j] <= s2[k]
  <2>1. /\ s1[i] <= s1[j] /\ s2[j] <= s2[k] /\ s2[i] = s1[i]
        /\ s1[j] = s2[j] \/ s1[j] = s2[k]
    BY <1>1, <1>2 DEF SortedTwo
  <2> QED BY <1>c, <2>1
<1>5. s3[i] <= s3[j] /\ s3[j] <= s3[k]
  <2>1. /\ s3[i] <= s3[j] /\ s3[k] = s2[k]
        /\ s3[j] = s2[i] \/ s3[j] = s2[j]
    BY <1>3 DEF SortedTwo
  <2> QED BY <1>4, <2>1
<1>6. s3 \in Arrays(D) /\ Shuffled(D, m, s3, lo, hi)
  <2>1. Shuffled(D, m, s2, lo, hi)
    BY <1>1, <1>2, ShuffledTwice, Zenon
  <2> QED BY <1>3, <2>1, ShuffledTwice, Zenon DEF SortedTwo
<1> QED BY <1>5, <1>6, <1>7

(* Where an element sinks to: down to the first that is not greater. *)
SinksTo(m, lo, cur, s) ==
  /\ s \in lo..cur
  /\ s = lo \/ m[s - 1] <= m[cur]
  /\ \A t \in (lo + 1)..cur : m[t - 1] <= m[cur] => t <= s

LEMMA SiftIs ==
  ASSUME NEW m, NEW lo \in Int, NEW cur \in Int, lo <= cur
  PROVE  SinksTo(m, lo, cur, Sift(m, lo, cur))
<1> DEFINE T == {lo} \cup {s \in (lo + 1)..cur : m[s - 1] <= m[cur]}
<1>1. T \in SUBSET Int /\ lo \in T /\ \A t \in T : t <= cur
  OBVIOUS
<1>2. \A t : t \in T <=> t = lo \/ (t \in (lo + 1)..cur /\ m[t - 1] <= m[cur])
  OBVIOUS
<1>3. Sift(m, lo, cur) = Max(T)
  BY DEF Sift
<1> HIDE DEF T
<1>4. Max(T) \in T /\ \A t \in T : t <= Max(T)
  BY <1>1, MaxIs
<1> QED BY <1>2, <1>3, <1>4 DEF SinksTo

SunkFrom(D, m, s, cur, m2) ==
  /\ m2 \in Arrays(D)
  /\ m2[s] = m[cur]
  /\ \A i \in (s + 1)..cur : m2[i] = m[i - 1]
  /\ \A i \in D : i \notin s..cur => m2[i] = m[i]

LEMMA SunkIs ==
  ASSUME NEW D, NEW m \in Arrays(D), NEW cur \in Int, NEW s \in Int, s <= cur,
         \A i \in s..cur : i \in D
  PROVE  SunkFrom(D, m, s, cur, Sunk(m, s, cur))
<1>1. \A i \in (s + 1)..cur : i - 1 \in s..cur /\ i \in s..cur /\ i # s
  OBVIOUS
<1>2. s \in s..cur /\ cur \in s..cur /\ \A i : i \notin s..cur => i # s /\ i \notin (s + 1)..cur
  OBVIOUS
<1>3. DOMAIN m = D /\ \A i \in D : m[i] \in Int
  BY DEF Arrays
<1>4. Sunk(m, s, cur) = [i \in D |-> CASE i = s -> m[cur]
                        [] i \in (s + 1)..cur -> m[i - 1]
                        [] OTHER -> m[i]]
  BY <1>3 DEF Sunk
<1>5. \A i \in D : Sunk(m, s, cur)[i] = IF i = s THEN m[cur] ELSE IF i \in (s + 1)..cur THEN m[i - 1] ELSE m[i]
  BY <1>1, <1>4
<1>6. Sunk(m, s, cur) \in Arrays(D)
  <2>1. \A i \in D : Sunk(m, s, cur)[i] \in Int
    BY <1>1, <1>2, <1>3, <1>5
  <2> QED BY <1>4, <2>1 DEF Arrays
<1> QED BY <1>1, <1>2, <1>5, <1>6 DEF SunkFrom

LEMMA ShuffledSunk ==
  ASSUME NEW D, NEW m \in Arrays(D), NEW lo \in Int, NEW hi \in Int,
         NEW cur \in Int, NEW s \in Int, lo <= s, s <= cur, cur < hi,
         \A i \in lo..(hi - 1) : i \in D, D \subseteq Int
  PROVE  Shuffled(D, m, Sunk(m, s, cur), lo, hi)
<1> DEFINE r == Sunk(m, s, cur)
           p == [i \in D |-> IF i = s THEN cur ELSE IF i \in (s + 1)..cur THEN i - 1 ELSE i]
<1>1. \A i \in s..cur : i \in D /\ i \in lo..(hi - 1)
  OBVIOUS
<1>2. SunkFrom(D, m, s, cur, r)
  <2>1. \A i \in s..cur : i \in D
    BY <1>1
  <2> QED BY <2>1, SunkIs, Zenon
<1> HIDE DEF r
<1>3. \A i \in (s + 1)..cur : i - 1 \in s..cur /\ i \in s..cur /\ i # s
  OBVIOUS
<1>4. s \in s..cur /\ cur \in s..cur
  OBVIOUS
<1>5. p \in [D -> D] /\ \A i \in D : p[i] = IF i = s THEN cur ELSE IF i \in (s + 1)..cur THEN i - 1 ELSE i
  <2>1. \A i \in D : (IF i = s THEN cur ELSE IF i \in (s + 1)..cur THEN i - 1 ELSE i) \in D
    BY <1>1, <1>3, <1>4
  <2> QED BY <2>1
<1> HIDE DEF p
<1>6. \A i \in D : IF i \in lo..(hi - 1) THEN p[i] \in lo..(hi - 1) ELSE p[i] = i
  BY <1>1, <1>3, <1>4, <1>5
<1>7. \A i, j \in D : p[i] = p[j] => i = j
  BY <1>5
<1>8. \A j \in D : \E i \in D : p[i] = j
  <2> SUFFICES ASSUME NEW j \in D PROVE \E i \in D : p[i] = j
    OBVIOUS
  <2>1. CASE j = cur
    BY <1>1, <1>4, <1>5, <2>1
  <2>2. CASE j \in s..(cur - 1)
    <3>1. j + 1 \in (s + 1)..cur /\ j + 1 \in s..cur /\ j + 1 # s /\ (j + 1) - 1 = j
      BY <2>2
    <3> QED BY <1>1, <1>5, <3>1
  <2>3. CASE j # cur /\ j \notin s..(cur - 1)
    <3>1. j # s /\ j \notin (s + 1)..cur
      BY <2>3
    <3> QED BY <1>5, <3>1
  <2> QED BY <2>1, <2>2, <2>3
<1>9. r \in Arrays(D) /\ \A i \in D : r[i] = m[p[i]]
  BY <1>2, <1>5 DEF SunkFrom
<1>10. Moves(D, p, lo, hi)
  BY <1>5, <1>6, <1>7, <1>8 DEF Moves
<1>11. Shuffled(D, m, r, lo, hi)
  BY <1>5, <1>9, <1>10 DEF Shuffled
<1> QED BY <1>11 DEF r

(* The element at cur sinks into what is in order before it. *)
LEMMA RisingSunk ==
  ASSUME NEW D, NEW m \in Arrays(D), NEW lowest \in Int, NEW lo \in Int, NEW cur \in Int,
         lowest <= lo, lo <= cur, \A i \in lo..cur : i \in D,
         Rising(m, lo, cur), Sift(m, lowest, cur) >= lo
  PROVE  Rising(Sunk(m, Sift(m, lowest, cur), cur), lo, cur + 1)
<1> DEFINE s == Sift(m, lowest, cur)
           r == Sunk(m, s, cur)
<1>0. lowest <= cur
  OBVIOUS
<1>1. /\ s \in lowest..cur
      /\ s = lowest \/ m[s - 1] <= m[cur]
      /\ \A t \in (lowest + 1)..cur : m[t - 1] <= m[cur] => t <= s
  <2>1. SinksTo(m, lowest, cur, s)
    BY <1>0, SiftIs, Zenon
  <2> QED BY <2>1, Zenon DEF SinksTo
<1>2. s \in Int /\ lo <= s /\ s <= cur
  BY <1>1
<1> HIDE DEF s
<1>3. \A i \in s..cur : i \in D
  BY <1>2
<1>4. /\ r \in Arrays(D) /\ r[s] = m[cur]
      /\ \A i \in (s + 1)..cur : r[i] = m[i - 1]
      /\ \A i \in D : i \notin s..cur => r[i] = m[i]
  <2>1. SunkFrom(D, m, s, cur, r)
    BY <1>2, <1>3, SunkIs, Zenon
  <2> QED BY <2>1, Zenon DEF SunkFrom
<1> HIDE DEF r
<1>5. \A i, j \in lo..(cur - 1) : i < j => m[i] <= m[j]
  BY DEF Rising
<1>6. \A i \in lo..cur : m[i] \in Int
  BY DEF Arrays
(* Before s nothing is greater, from s on everything is. *)
<1>7. \A i \in lo..(s - 1) : m[i] <= m[cur]
  <2> SUFFICES ASSUME NEW i \in lo..(s - 1) PROVE m[i] <= m[cur]
    OBVIOUS
  <2>1. m[s - 1] <= m[cur] /\ s - 1 \in lo..(cur - 1) /\ i \in lo..(cur - 1) /\ i <= s - 1
    BY <1>1, <1>2
  <2>2. m[i] <= m[s - 1]
    BY <1>5, <1>6, <2>1
  <2>3. m[i] \in Int /\ m[s - 1] \in Int /\ m[cur] \in Int
    BY <1>6, <2>1
  <2> QED BY <2>1, <2>2, <2>3
<1>8. \A i \in s..(cur - 1) : m[cur] <= m[i]
  <2> SUFFICES ASSUME NEW i \in s..(cur - 1) PROVE m[cur] <= m[i]
    OBVIOUS
  <2>1. i + 1 \in (lowest + 1)..cur /\ ~ (i + 1 <= s) /\ i + 1 - 1 = i
    BY <1>2
  <2>2. ~ (m[i] <= m[cur])
    BY <1>1, <2>1
  <2>3. m[i] \in Int /\ m[cur] \in Int
    BY <1>2, <1>6
  <2> QED BY <2>2, <2>3
<1>9. ASSUME NEW i \in lo..cur, NEW j \in lo..cur, i < j PROVE r[i] <= r[j]
  <2>1. CASE j < s
    <3>1. i \in D /\ j \in D /\ i \notin s..cur /\ j \notin s..cur /\ i \in lo..(cur - 1) /\ j \in lo..(cur - 1)
      BY <1>2, <1>9, <2>1
    <3> QED BY <1>4, <1>5, <1>9, <3>1
  <2>2. CASE j = s
    <3>1. i \in D /\ i \notin s..cur /\ i \in lo..(s - 1)
      BY <1>2, <1>9, <2>2
    <3> QED BY <1>4, <1>7, <2>2, <3>1
  <2>3. CASE j > s
    <3>1. j \in (s + 1)..cur /\ j - 1 \in s..(cur - 1) /\ j - 1 \in lo..(cur - 1)
      BY <1>2, <2>3
    <3>2. r[j] = m[j - 1]
      BY <1>4, <3>1
    <3>3. CASE i < s
      <4>1. i \in D /\ i \notin s..cur /\ i \in lo..(cur - 1) /\ i < j - 1
        BY <1>2, <2>3, <3>3
      <4> QED BY <1>4, <1>5, <3>1, <3>2, <4>1
    <3>4. CASE i = s
      BY <1>4, <1>8, <3>1, <3>2, <3>4
    <3>5. CASE i > s
      <4>1. i \in (s + 1)..cur /\ i - 1 \in lo..(cur - 1) /\ i - 1 < j - 1
        BY <1>2, <1>9, <3>5
      <4>2. r[i] = m[i - 1]
        BY <1>4, <4>1
      <4> QED BY <1>5, <3>1, <3>2, <4>1, <4>2
    <3> QED BY <1>2, <3>3, <3>4, <3>5
  <2> QED BY <1>2, <2>1, <2>2, <2>3
<1>10. Rising(r, lo, cur + 1)
  <2>1. (cur + 1) - 1 = cur
    OBVIOUS
  <2> QED BY <1>9, <2>1 DEF Rising
<1> QED BY <1>10 DEF r, s

Steps(X) == [X \X Int -> X]
Recursive(X, base, lo, hi, turn, g) ==
  /\ g \in [lo..hi -> X]
  /\ \A cur \in lo..hi : g[cur] = IF cur = lo THEN base ELSE turn[<<g[cur - 1], cur>>]

(* A function on lo..hi that starts with base and goes on with turn exists. *)
LEMMA Recursion ==
  ASSUME NEW X, NEW base \in X, NEW lo \in Int, NEW hi \in Int, NEW turn \in Steps(X)
  PROVE  \E g : Recursive(X, base, lo, hi, turn, g)
<1> USE DEF Steps, Recursive
<1> DEFINE Goes(g, n) == Recursive(X, base, lo, lo + n, turn, g)
           Bad == {n \in Nat : ~ \E g : Goes(g, n)}
<1>1. ASSUME NEW n \in Bad, \A k \in Bad : n <= k
      PROVE  FALSE
  <2>1. CASE n = 0
    <3> DEFINE g == [cur \in lo..lo |-> base]
    <3>1. g \in [lo..lo -> X] /\ \A cur \in lo..lo : cur = lo /\ g[cur] = base
      OBVIOUS
    <3>2. lo + n = lo
      BY <2>1
    <3> HIDE DEF g
    <3>3. Goes(g, n)
      BY <3>1, <3>2
    <3> QED BY <3>3
  <2>2. CASE n # 0
    <3>1. n - 1 \in Nat /\ n - 1 \notin Bad
      <4>1. n \in Nat /\ n - 1 \in Nat /\ ~ (n <= n - 1)
        BY <2>2
      <4> HIDE DEF Bad
      <4> QED BY <1>1, <4>1
    <3>2. PICK f : Goes(f, n - 1)
      BY <3>1
    <3> DEFINE top == lo + n
               g == [cur \in lo..top |-> IF cur = top THEN turn[<<f[top - 1], top>>] ELSE f[cur]]
    <3>3. /\ top \in Int /\ lo < top /\ lo + (n - 1) = top - 1
          /\ \A cur \in lo..top : cur # top => cur \in lo..(top - 1)
          /\ \A cur \in lo..top : cur # lo => cur - 1 \in lo..(top - 1) /\ cur - 1 \in lo..top /\ cur - 1 # top
      BY <2>2
    <3>4. /\ f \in [lo..(top - 1) -> X]
          /\ \A cur \in lo..(top - 1) : f[cur] = IF cur = lo THEN base ELSE turn[<<f[cur - 1], cur>>]
      BY <3>2, <3>3
    <3>5. turn[<<f[top - 1], top>>] \in X
      <4>1. top - 1 \in lo..(top - 1)
        BY <3>3
      <4> QED BY <3>3, <3>4, <4>1
    <3>6. g \in [lo..top -> X]
      BY <3>3, <3>4, <3>5
    <3>7. \A cur \in lo..top : g[cur] = IF cur = top THEN turn[<<f[top - 1], top>>] ELSE f[cur]
      OBVIOUS
    <3> HIDE DEF g
    <3>8. \A cur \in lo..top : g[cur] = IF cur = lo THEN base ELSE turn[<<g[cur - 1], cur>>]
      <4> SUFFICES ASSUME NEW cur \in lo..top
                   PROVE  g[cur] = IF cur = lo THEN base ELSE turn[<<g[cur - 1], cur>>]
        OBVIOUS
      <4>1. CASE cur = lo
        <5>1. cur # top /\ cur \in lo..(top - 1)
          BY <3>3, <4>1
        <5>2. g[cur] = f[cur] /\ f[cur] = base
          BY <3>4, <3>7, <4>1, <5>1
        <5> QED BY <4>1, <5>2
      <4>2. CASE cur # lo
        <5>1. g[cur - 1] = f[cur - 1]
          BY <3>3, <3>7, <4>2
        <5> QED BY <3>3, <3>4, <3>7, <4>2, <5>1
      <4> QED BY <4>1, <4>2
    <3>9. Goes(g, n)
      BY <3>6, <3>8
    <3> QED BY <3>9
  <2> QED BY <2>1, <2>2
<1>2. Bad = {}
  <2> SUFFICES ASSUME Bad # {} PROVE FALSE
    OBVIOUS
  <2>1. Bad \in SUBSET Nat
    OBVIOUS
  <2>2. PICK n \in Bad : \A k \in Bad : n <= k
    BY <2>1, Least, Zenon
  <2> QED BY <1>1, <2>2
<1>3. CASE lo <= hi
  <2>1. hi - lo \in Nat /\ lo + (hi - lo) = hi
    BY <1>3
  <2>2. PICK g : Goes(g, hi - lo)
    BY <1>2, <2>1
  <2> QED BY <2>1, <2>2
<1>4. CASE ~ (lo <= hi)
  <2> DEFINE g == [cur \in lo..hi |-> base]
  <2>1. g \in [lo..hi -> X] /\ \A cur \in lo..hi : FALSE
    BY <1>4
  <2> QED BY <2>1, Zenon
<1> QED BY <1>3, <1>4

Inserts(lowest, lo, hi, g) ==
  g = [cur \in lo..(hi - 1) |->
         IF cur = lo THEN a
         ELSE Sunk(g[cur - 1], Sift(g[cur - 1], lowest, cur), cur)]

LEMMA InsertedUnfolds ==
  ASSUME NEW lowest, NEW lo, NEW hi, NEW g, Inserts(lowest, lo, hi, g)
  PROVE  Inserts(lowest, lo, hi, Inserted(lowest, lo, hi))
<1> DEFINE Body(f) == [cur \in lo..(hi - 1) |->
                         IF cur = lo THEN a
                         ELSE Sunk(f[cur - 1], Sift(f[cur - 1], lowest, cur), cur)]
<1>1. Inserted(lowest, lo, hi) = CHOOSE f : f = Body(f)
  BY DEF Inserted
<1>2. g = Body(g)
  BY DEF Inserts
<1> HIDE DEF Body
<1>3. (CHOOSE f : f = Body(f)) = Body(CHOOSE f : f = Body(f))
  BY <1>2, Zenon
<1>4. Inserted(lowest, lo, hi) = Body(Inserted(lowest, lo, hi))
  BY <1>1, <1>3
<1> QED BY <1>4 DEF Body, Inserts

Descended(D, lowest, lo, hi, M) ==
  \A cur \in lo..(hi - 1) :
    /\ M[cur] \in Arrays(D)
    /\ Shuffled(D, a, M[cur], lo, cur + 1)
    /\ Rising(M[cur], lo, cur + 1)
    /\ cur # lo => Sift(M[cur - 1], lowest, cur) >= lo

(* The insertion sorts, where nothing smaller is before the range or the sifts
   look where they are. *)
LEMMA InsertedIs ==
  ASSUME NEW D \in SUBSET Int, a \in Arrays(D),
         NEW lowest \in Int, NEW lo \in Int, NEW hi \in Int, lowest <= lo,
         \A i \in lowest..(hi - 1) : i \in D,
         lowest = lo \/ \A j \in lo..(hi - 1) : a[lo - 1] <= a[j]
  PROVE  Descended(D, lowest, lo, hi, Inserted(lowest, lo, hi))
<1> DEFINE M == Inserted(lowest, lo, hi)
           To(m, cur) == IF cur \in lo..(hi - 1) THEN Sunk(m, Sift(m, lowest, cur), cur) ELSE m
           turn == [t \in Arrays(D) \X Int |-> To(t[1], t[2])]
<1>1. ASSUME NEW m \in Arrays(D), NEW cur \in lo..(hi - 1)
      PROVE  /\ Sift(m, lowest, cur) \in lowest..cur
             /\ SinksTo(m, lowest, cur, Sift(m, lowest, cur))
             /\ Sunk(m, Sift(m, lowest, cur), cur) \in Arrays(D)
  <2>1. cur \in Int /\ lowest <= cur
    OBVIOUS
  <2>2. SinksTo(m, lowest, cur, Sift(m, lowest, cur))
    BY <2>1, SiftIs, Zenon
  <2>3. Sift(m, lowest, cur) \in lowest..cur
    BY <2>2 DEF SinksTo
  <2>4. /\ Sift(m, lowest, cur) \in Int /\ Sift(m, lowest, cur) <= cur
        /\ \A i \in Sift(m, lowest, cur)..cur : i \in D
    BY <2>3
  <2>5. SunkFrom(D, m, Sift(m, lowest, cur), cur, Sunk(m, Sift(m, lowest, cur), cur))
    BY <2>1, <2>4, SunkIs, Zenon
  <2> QED BY <2>2, <2>3, <2>5 DEF SunkFrom
<1>2. turn \in Steps(Arrays(D))
  BY <1>1 DEF Steps
<1>3. \A m \in Arrays(D) : \A cur \in lo..(hi - 1) :
        turn[<<m, cur>>] = Sunk(m, Sift(m, lowest, cur), cur)
  OBVIOUS
<1> HIDE DEF turn
<1>4. PICK g : Recursive(Arrays(D), a, lo, hi - 1, turn, g)
  <2>1. hi - 1 \in Int
    OBVIOUS
  <2> QED BY <1>2, <2>1, Recursion, Zenon
<1>5. \A cur \in lo..(hi - 1) : cur # lo => cur - 1 \in lo..(hi - 1)
  OBVIOUS
<1>6. Inserts(lowest, lo, hi, g)
  BY <1>3, <1>4, <1>5 DEF Recursive, Inserts
<1>7. Inserts(lowest, lo, hi, M)
  BY <1>6, InsertedUnfolds, Zenon
<1> HIDE DEF M
<1>8. \A cur \in lo..(hi - 1) :
        M[cur] = IF cur = lo THEN a ELSE Sunk(M[cur - 1], Sift(M[cur - 1], lowest, cur), cur)
  BY <1>7 DEF Inserts
<1> DEFINE Good(cur) == /\ M[cur] \in Arrays(D)
                        /\ Shuffled(D, a, M[cur], lo, cur + 1)
                        /\ Rising(M[cur], lo, cur + 1)
                        /\ cur # lo => Sift(M[cur - 1], lowest, cur) >= lo
<1>9. lo \in lo..(hi - 1) => Good(lo)
  <2> SUFFICES ASSUME lo \in lo..(hi - 1) PROVE Good(lo)
    OBVIOUS
  <2>1. M[lo] = a
    BY <1>8
  <2>2. Shuffled(D, a, a, lo, lo + 1)
    BY ShuffledNot, Zenon
  <2>3. Rising(a, lo, lo + 1)
    BY DEF Rising
  <2> QED BY <2>1, <2>2, <2>3
<1>10. ASSUME NEW cur \in lo..(hi - 1), cur # lo, Good(cur - 1)
       PROVE  Good(cur)
  <2> DEFINE m == M[cur - 1]
             s == Sift(m, lowest, cur)
  <2>1. cur \in Int /\ (cur - 1) + 1 = cur /\ lo < cur /\ cur < hi /\ cur + 1 \in Int /\ cur <= cur + 1
    BY <1>10
  <2>2. m \in Arrays(D) /\ Shuffled(D, a, m, lo, cur) /\ Rising(m, lo, cur)
    BY <1>10, <2>1
  <2>3. M[cur] = Sunk(m, s, cur)
    BY <1>8, <1>10
  <2> HIDE DEF m
  <2>4. s \in lowest..cur /\ SinksTo(m, lowest, cur, s) /\ M[cur] \in Arrays(D)
    BY <1>1, <2>2, <2>3
  <2>5. s >= lo
    <3>1. CASE lowest = lo
      BY <2>4, <3>1
    <3>2. CASE lowest # lo
      <4>1. /\ lo - 1 \in D /\ lo - 1 \notin lo..(cur - 1)
            /\ cur \in D /\ cur \notin lo..(cur - 1)
            /\ lo \in (lowest + 1)..cur
        BY <2>1, <3>2
      <4>2. m[lo - 1] = a[lo - 1] /\ m[cur] = a[cur]
        <5>1. Contained(D, a, m, lo, cur)
          BY <2>2, ShuffledPlaces, Zenon
        <5> QED BY <4>1, <5>1 DEF Contained
      <4>3. a[lo - 1] <= a[cur]
        BY <1>10, <3>2
      <4> QED BY <2>1, <2>4, <4>1, <4>2, <4>3 DEF SinksTo
    <3> QED BY <3>1, <3>2
  <2> HIDE DEF s
  <2>6. Shuffled(D, m, Sunk(m, s, cur), lo, cur + 1)
    <3>1. /\ s \in Int /\ lo <= s /\ s <= cur /\ cur < cur + 1
          /\ \A i \in lo..((cur + 1) - 1) : i \in D
      BY <2>1, <2>4, <2>5
    <3> QED BY <2>1, <2>2, <3>1, ShuffledSunk, Zenon
  <2>7. Shuffled(D, a, m, lo, cur + 1)
    <3>1. lo <= lo
      OBVIOUS
    <3> QED BY <2>1, <2>2, <3>1, ShuffledWithin, Zenon
  <2>8. Shuffled(D, a, M[cur], lo, cur + 1)
    BY <2>3, <2>6, <2>7, ShuffledTwice, Zenon
  <2>9. Rising(M[cur], lo, cur + 1)
    <3>1. lo <= cur /\ \A i \in lo..cur : i \in D
      BY <2>1
    <3>2. Rising(Sunk(m, Sift(m, lowest, cur), cur), lo, cur + 1)
      BY <2>1, <2>2, <2>5, <3>1, RisingSunk, Zenon DEF s
    <3> QED BY <2>3, <3>2 DEF s
  <2> QED BY <2>4, <2>5, <2>8, <2>9 DEF m, s
<1> HIDE DEF Good
<1>11. \A cur \in lo..(hi - 1) : Good(cur)
  <2> DEFINE Bad == {k \in Nat : lo + k \in lo..(hi - 1) /\ ~ Good(lo + k)}
  <2>1. ASSUME Bad # {} PROVE FALSE
    <3>1. Bad \in SUBSET Nat
      OBVIOUS
    <3>2. PICK k \in Bad : \A l \in Bad : k <= l
      BY <2>1, <3>1, Least, Zenon
    <3>3. k \in Nat /\ lo + k \in lo..(hi - 1) /\ ~ Good(lo + k)
      OBVIOUS
    <3>4. k # 0
      BY <1>9, <3>3
    <3>5. /\ k - 1 \in Nat /\ lo + (k - 1) \in lo..(hi - 1) /\ lo + k # lo
          /\ (lo + k) - 1 = lo + (k - 1) /\ ~ (k <= k - 1)
      BY <3>3, <3>4
    <3>6. k - 1 \notin Bad
      BY <3>2, <3>5, Zenon
    <3>7. Good(lo + (k - 1))
      BY <3>5, <3>6
    <3> QED BY <1>10, <3>3, <3>5, <3>7
  <2>2. \A cur \in lo..(hi - 1) : cur - lo \in Nat /\ lo + (cur - lo) = cur
    OBVIOUS
  <2> QED BY <2>1, <2>2
<1> QED BY <1>11 DEF Descended, Good, M

OrderedBy(D, lo, hi, m2) ==
  /\ Shuffled(D, a, m2, lo, hi)
  /\ Rising(m2, lo, hi)

(* Insertion puts a range in order. *)
LEMMA OrderedIs ==
  ASSUME NEW D \in SUBSET Int, a \in Arrays(D), NEW lo \in Int, NEW hi \in Int, lo <= hi,
         \A i \in lo..(hi - 1) : i \in D
  PROVE  OrderedBy(D, lo, hi, Ordered(lo, hi))
<1>1. CASE lo = hi
  <2>1. Ordered(lo, hi) = a
    BY <1>1 DEF Ordered
  <2>2. Shuffled(D, a, a, lo, hi)
    BY ShuffledNot, Zenon
  <2>3. Rising(a, lo, hi)
    BY <1>1 DEF Rising
  <2> QED BY <2>1, <2>2, <2>3 DEF OrderedBy
<1>2. CASE lo # hi
  <2>1. lo <= lo /\ lo = lo
    OBVIOUS
  <2>2. Descended(D, lo, lo, hi, Inserted(lo, lo, hi))
    BY <2>1, InsertedIs, Zenon
  <2>3. hi - 1 \in lo..(hi - 1) /\ (hi - 1) + 1 = hi
    BY <1>2
  <2>4. Ordered(lo, hi) = Inserted(lo, lo, hi)[hi - 1]
    BY <1>2 DEF Ordered
  <2> QED BY <2>2, <2>3, <2>4 DEF Descended, OrderedBy
<1> QED BY <1>1, <1>2

-----------------------------------------------------------------------------
(* partial_insertion_sort. *)

Partials(D) == [mem : Arrays(D), moved : Int, sorted : BOOLEAN]

Inserting(m, lo, cur, p) ==
  IF p.moved > partial_insertion_sort_limit THEN Abandoned(p)
  ELSE [p EXCEPT !.mem = Sunk(@, Sift(p.mem, lo, cur), cur),
                 !.moved = @ + cur - Sift(p.mem, lo, cur)]

Partial(m, lo, hi, g) ==
  g = [cur \in lo..(hi - 1) |->
         IF cur = lo THEN [mem |-> m, moved |-> 0, sorted |-> TRUE]
         ELSE Inserting(m, lo, cur, g[cur - 1])]

LEMMA PartialUnfolds ==
  ASSUME NEW m, NEW lo, NEW hi, NEW g, Partial(m, lo, hi, g), lo # hi
  PROVE  \E f : Partial(m, lo, hi, f) /\ partial_insertion_sort(m, lo, hi) = f[hi - 1]
<1> DEFINE Body(f) == [cur \in lo..(hi - 1) |->
         IF cur = lo THEN [mem |-> m, moved |-> 0, sorted |-> TRUE]
         ELSE IF f[cur - 1].moved > partial_insertion_sort_limit THEN Abandoned(f[cur - 1])
              ELSE [f[cur - 1] EXCEPT !.mem = Sunk(@, Sift(f[cur - 1].mem, lo, cur), cur),
                             !.moved = @ + cur - Sift(f[cur - 1].mem, lo, cur)]]
           P == CHOOSE f : f = Body(f)
<1>1. partial_insertion_sort(m, lo, hi) = P[hi - 1]
  BY DEF partial_insertion_sort
<1>2. g = Body(g)
  BY DEF Partial, Inserting
<1>3. \A f : Partial(m, lo, hi, f) <=> f = Body(f)
  BY DEF Partial, Inserting
<1> HIDE DEF Body
<1>4. (CHOOSE f : f = Body(f)) = Body(CHOOSE f : f = Body(f))
  BY <1>2, Zenon
<1> QED BY <1>1, <1>3, <1>4

PartiallySorted(D, m, lo, hi, p) ==
  /\ p \in Partials(D)
  /\ Shuffled(D, m, p.mem, lo, hi)
  /\ p.sorted => Rising(p.mem, lo, hi)

GoneOn(D, p, m2, q) ==
  q \in Partials(D) /\ q.mem = m2 /\ q.sorted = p.sorted

LEMMA PartialGoesOn ==
  ASSUME NEW D, NEW p \in Partials(D), NEW m2 \in Arrays(D), NEW n \in Int
  PROVE  GoneOn(D, p, m2, [p EXCEPT !.mem = m2, !.moved = @ + n])
<1>1. p.moved + n \in Int
  BY DEF Partials
<1> QED BY <1>1 DEF Partials, GoneOn

(* What has not been given up is in order, and nothing else was touched. *)
LEMMA InsertingIs ==
  ASSUME NEW D \in SUBSET Int, NEW m \in Arrays(D), NEW lo \in Int, NEW cur \in Int, lo <= cur,
         \A i \in lo..cur : i \in D,
         NEW p, PartiallySorted(D, m, lo, cur, p)
  PROVE  PartiallySorted(D, m, lo, cur + 1, Inserting(m, lo, cur, p))
<1>1. p \in Partials(D) /\ p.mem \in Arrays(D) /\ Shuffled(D, m, p.mem, lo, cur)
  BY DEF PartiallySorted, Partials
<1>2. cur + 1 \in Int /\ lo <= lo /\ cur <= cur + 1 /\ (cur + 1) - 1 = cur /\ cur < cur + 1
  OBVIOUS
<1>3. Shuffled(D, m, p.mem, lo, cur + 1)
  BY <1>1, <1>2, ShuffledWithin, Zenon
<1>4. CASE p.moved > partial_insertion_sort_limit
  <2>1. Inserting(m, lo, cur, p) = [p EXCEPT !.sorted = FALSE]
    BY <1>4 DEF Inserting, Abandoned
  <2>2. /\ [p EXCEPT !.sorted = FALSE] \in Partials(D)
        /\ [p EXCEPT !.sorted = FALSE].mem = p.mem /\ ~ [p EXCEPT !.sorted = FALSE].sorted
    BY <1>1 DEF Partials
  <2> QED BY <1>3, <2>1, <2>2 DEF PartiallySorted
<1>5. CASE ~ (p.moved > partial_insertion_sort_limit)
  <2> DEFINE s == Sift(p.mem, lo, cur)
             q == [p EXCEPT !.mem = Sunk(@, s, cur), !.moved = @ + cur - s]
  <2>1. Inserting(m, lo, cur, p) = q
    BY <1>5 DEF Inserting
  <2>2. s \in lo..cur
    <3>1. SinksTo(p.mem, lo, cur, s)
      BY SiftIs, Zenon
    <3> QED BY <3>1 DEF SinksTo
  <2>3. /\ s \in Int /\ lo <= s /\ s <= cur /\ s >= lo
        /\ \A i \in lo..((cur + 1) - 1) : i \in D
    BY <2>2
  <2>4. Shuffled(D, p.mem, Sunk(p.mem, s, cur), lo, cur + 1)
    <3> HIDE DEF s
    <3> QED BY <1>1, <1>2, <2>3, ShuffledSunk, Zenon
  <2>5. Shuffled(D, m, Sunk(p.mem, s, cur), lo, cur + 1)
    BY <1>3, <2>4, ShuffledTwice, Zenon
  <2>6. p.sorted => Rising(Sunk(p.mem, s, cur), lo, cur + 1)
    <3> SUFFICES ASSUME p.sorted PROVE Rising(Sunk(p.mem, s, cur), lo, cur + 1)
      OBVIOUS
    <3>1. Rising(p.mem, lo, cur)
      BY DEF PartiallySorted
    <3> QED BY <1>1, <1>2, <2>3, <3>1, RisingSunk, Zenon
  <2>7. Sunk(p.mem, s, cur) \in Arrays(D)
    BY <2>4 DEF Shuffled
  <2> HIDE DEF s
  <2>8. q \in Partials(D) /\ q.mem = Sunk(p.mem, s, cur) /\ q.sorted = p.sorted
    <3>1. p.moved + cur - s \in Int /\ p.moved + cur - s = p.moved + (cur - s) /\ cur - s \in Int
      BY <1>1, <2>3 DEF Partials
    <3>2. q = [p EXCEPT !.mem = Sunk(p.mem, s, cur), !.moved = @ + (cur - s)]
      BY <3>1
    <3> HIDE DEF q
    <3>3. p \in Partials(D) /\ Sunk(p.mem, s, cur) \in Arrays(D) /\ cur - s \in Int
      BY <1>1, <2>7, <3>1
    <3>4. GoneOn(D, p, Sunk(p.mem, s, cur), q)
      BY <3>2, <3>3, PartialGoesOn, Zenon
    <3> QED BY <3>4 DEF GoneOn
  <2> HIDE DEF q
  <2> QED BY <2>1, <2>5, <2>6, <2>8 DEF PartiallySorted
<1> QED BY <1>4, <1>5

LEMMA PartialIs ==
  ASSUME NEW D \in SUBSET Int, NEW m \in Arrays(D), NEW lo \in Int, NEW hi \in Int, lo <= hi,
         \A i \in lo..(hi - 1) : i \in D
  PROVE  PartiallySorted(D, m, lo, hi, partial_insertion_sort(m, lo, hi))
<1> DEFINE start == [mem |-> m, moved |-> 0, sorted |-> TRUE]
<1>0. ASSUME NEW top \in Int, top = lo \/ top = lo + 1 PROVE PartiallySorted(D, m, lo, top, start)
  <2>1. start \in Partials(D) /\ start.mem = m
    BY DEF Partials
  <2>2. Shuffled(D, m, m, lo, top)
    BY ShuffledNot, Zenon
  <2>3. Rising(m, lo, top)
    BY <1>0 DEF Rising
  <2> QED BY <2>1, <2>2, <2>3 DEF PartiallySorted
<1>1. CASE lo = hi
  <2>1. partial_insertion_sort(m, lo, hi) = start
    BY <1>1 DEF partial_insertion_sort
  <2> QED BY <1>0, <1>1, <2>1
<1>2. CASE lo # hi
  <2> DEFINE To(p, cur) ==
               IF cur \in lo..(hi - 1) THEN Inserting(m, lo, cur, p) ELSE p
             turn == [t \in Partials(D) \X Int |-> To(t[1], t[2])]
  <2>1. ASSUME NEW p \in Partials(D), NEW cur \in lo..(hi - 1)
        PROVE  Inserting(m, lo, cur, p) \in Partials(D)
    <3>1. p.mem \in Arrays(D) /\ cur \in Int /\ lo <= cur
      BY DEF Partials
    <3>2. SinksTo(p.mem, lo, cur, Sift(p.mem, lo, cur))
      BY <3>1, SiftIs, Zenon
    <3>3. /\ Sift(p.mem, lo, cur) \in Int /\ Sift(p.mem, lo, cur) <= cur
          /\ \A i \in Sift(p.mem, lo, cur)..cur : i \in D
      BY <3>2 DEF SinksTo
    <3>4. SunkFrom(D, p.mem, Sift(p.mem, lo, cur), cur, Sunk(p.mem, Sift(p.mem, lo, cur), cur))
      BY <3>1, <3>3, SunkIs, Zenon
    <3>5. Sunk(p.mem, Sift(p.mem, lo, cur), cur) \in Arrays(D)
      BY <3>4 DEF SunkFrom
    <3>6. Abandoned(p) \in Partials(D)
      BY DEF Partials, Abandoned
    <3> DEFINE s == Sift(p.mem, lo, cur)
    <3>7. p.moved + cur - s = p.moved + (cur - s) /\ cur - s \in Int
      BY <3>1, <3>3 DEF Partials
    <3>8. Inserting(m, lo, cur, p) = IF p.moved > partial_insertion_sort_limit THEN Abandoned(p)
            ELSE [p EXCEPT !.mem = Sunk(p.mem, s, cur), !.moved = @ + (cur - s)]
      BY <3>7 DEF Inserting
    <3> HIDE DEF s
    <3>9. [p EXCEPT !.mem = Sunk(p.mem, s, cur), !.moved = @ + (cur - s)] \in Partials(D)
      <4>1. Sunk(p.mem, s, cur) \in Arrays(D)
        BY <3>5 DEF s
      <4>2. GoneOn(D, p, Sunk(p.mem, s, cur), [p EXCEPT !.mem = Sunk(p.mem, s, cur), !.moved = @ + (cur - s)])
        BY <3>7, <4>1, PartialGoesOn, Zenon DEF s
      <4> QED BY <4>2 DEF GoneOn
    <3> QED BY <3>6, <3>8, <3>9
  <2>2. turn \in Steps(Partials(D))
    <3> HIDE DEF To
    <3>1. \A p \in Partials(D) : \A cur \in Int : To(p, cur) \in Partials(D)
      BY <2>1 DEF To
    <3> QED BY <3>1 DEF Steps
  <2>3. \A p \in Partials(D) : \A cur \in lo..(hi - 1) : turn[<<p, cur>>] = Inserting(m, lo, cur, p)
    <3>1. \A p \in Partials(D) : \A cur \in Int : turn[<<p, cur>>] = To(p, cur)
      <4> HIDE DEF To
      <4> QED OBVIOUS
    <3> HIDE DEF turn
    <3> QED BY <3>1
  <2> HIDE DEF turn
  <2>4. PICK g : Recursive(Partials(D), start, lo, hi - 1, turn, g)
    <3>1. hi - 1 \in Int /\ start \in Partials(D)
      BY DEF Partials
    <3> QED BY <2>2, <3>1, Recursion, Zenon
  <2>5. \A cur \in lo..(hi - 1) : cur # lo => cur - 1 \in lo..(hi - 1)
    OBVIOUS
  <2>6. Partial(m, lo, hi, g)
    <3> HIDE DEF start
    <3>1. g = [cur \in lo..(hi - 1) |-> IF cur = lo THEN start ELSE Inserting(m, lo, cur, g[cur - 1])]
      BY <2>3, <2>4, <2>5 DEF Recursive
    <3> QED BY <3>1 DEF Partial, start
  <2>7. PICK f : Partial(m, lo, hi, f) /\ partial_insertion_sort(m, lo, hi) = f[hi - 1]
    BY <1>2, <2>6, PartialUnfolds, Zenon
  <2>8. \A cur \in lo..(hi - 1) : f[cur] = IF cur = lo THEN start ELSE Inserting(m, lo, cur, f[cur - 1])
    BY <2>7 DEF Partial
  <2> HIDE DEF start
  <2> DEFINE Bad == {k \in Nat : lo + k \in lo..(hi - 1) /\ ~ PartiallySorted(D, m, lo, lo + k + 1, f[lo + k])}
  <2>9. ASSUME Bad # {} PROVE FALSE
    <3>1. Bad \in SUBSET Nat
      OBVIOUS
    <3>2. PICK k \in Bad : \A l \in Bad : k <= l
      BY <2>9, <3>1, Least, Zenon
    <3>3. k \in Nat /\ lo + k \in lo..(hi - 1) /\ ~ PartiallySorted(D, m, lo, lo + k + 1, f[lo + k])
      OBVIOUS
    <3>4. k # 0
      <4>1. ASSUME k = 0 PROVE FALSE
        <5>1. lo + k = lo /\ lo + k + 1 = lo + 1
          BY <4>1
        <5>2. f[lo] = start
          BY <2>8, <3>3, <5>1
        <5>3. PartiallySorted(D, m, lo, lo + 1, start)
          BY <1>0
        <5> QED BY <3>3, <5>1, <5>2, <5>3
      <4> QED BY <4>1
    <3>5. /\ k - 1 \in Nat /\ lo + (k - 1) \in lo..(hi - 1) /\ lo + k # lo /\ lo + k \in Int /\ lo <= lo + k
          /\ (lo + k) - 1 = lo + (k - 1) /\ lo + (k - 1) + 1 = lo + k /\ ~ (k <= k - 1)
          /\ \A i \in lo..(lo + k) : i \in D
      BY <3>3, <3>4
    <3>6. PartiallySorted(D, m, lo, lo + k, f[lo + (k - 1)])
      <4>1. k - 1 \notin Bad
        BY <3>2, <3>5, Zenon
      <4> QED BY <3>5, <4>1
    <3>7. PartiallySorted(D, m, lo, lo + k + 1, Inserting(m, lo, lo + k, f[lo + (k - 1)]))
      BY <3>5, <3>6, InsertingIs, Zenon
    <3>8. f[lo + k] = Inserting(m, lo, lo + k, f[lo + (k - 1)])
      BY <2>8, <3>3, <3>5
    <3> QED BY <3>3, <3>7, <3>8
  <2>10. /\ hi - 1 - lo \in Nat /\ lo + (hi - 1 - lo) = hi - 1 /\ hi - 1 + 1 = hi /\ hi - 1 \in lo..(hi - 1)
    BY <1>2
  <2>11. PartiallySorted(D, m, lo, hi, f[hi - 1])
    BY <2>9, <2>10
  <2> QED BY <2>7, <2>11
<1> QED BY <1>1, <1>2

-----------------------------------------------------------------------------
(* The invariant. *)

(* The array as it was handed over. *)
Places == 0..(Len(sort_call.s) - 1)
Given == [i \in Places |-> sort_call.s[i + 1]]

Loop(bads) == [begin : Nat, end : Nat, bad : bads, leftmost : BOOLEAN]

SortTypeOK ==
  /\ sort_call \in SortCalls
  /\ a \in Arrays(Places)
  /\ \E bads : loops \in Seq(Loop(bads))
  /\ first \in Int /\ last \in Int

(* The loops are in the array, one behind the other with their pivots between
   them, and something is before those that are not leftmost. *)
Stacked ==
  /\ \A k \in 1..Len(loops) :
       /\ loops[k].begin <= loops[k].end
       /\ loops[k].end <= Len(sort_call.s)
       /\ ~ loops[k].leftmost => loops[k].begin > 0
  /\ \A k, l \in 1..Len(loops) : k < l => loops[k].end < loops[l].begin

(* What is in no loop is in its place. *)
InLoop(k, i, j) == loops[k].begin <= i /\ j < loops[k].end
Settled ==
  \A i, j \in Places :
    i < j => a[i] <= a[j] \/ \E k \in 1..Len(loops) : InLoop(k, i, j)

(* The head of the loops. *)
LEMMA HeadIs ==
  ASSUME SortTypeOK, Stacked, loops # <<>>
  PROVE  /\ Len(loops) \in Nat \ {0} /\ Head(loops) = loops[1]
         /\ begin = loops[1].begin /\ end = loops[1].end
         /\ begin \in Nat /\ end \in Nat /\ size = end - begin
         /\ begin <= end /\ end <= Len(sort_call.s) /\ Len(sort_call.s) \in Nat
         /\ \A i \in begin..(end - 1) : i \in Places
         /\ ~ Head(loops).leftmost => begin > 0
         /\ \A k \in 1..Len(loops) : loops[k].begin \in Nat /\ loops[k].end \in Nat
<1>1. PICK bads : loops \in Seq(Loop(bads))
  BY DEF SortTypeOK
<1>2. /\ Len(loops) \in Nat \ {0} /\ Head(loops) = loops[1] /\ loops[1] \in Loop(bads)
      /\ \A k \in 1..Len(loops) : loops[k] \in Loop(bads)
  BY <1>1
<1>3. \A k \in 1..Len(loops) : loops[k].begin \in Nat /\ loops[k].end \in Nat
  BY <1>2 DEF Loop
<1>4. sort_call.s \in Seq(Int) /\ Len(sort_call.s) \in Nat
  BY SortAssumption DEF SortTypeOK
<1>5. 1 \in 1..Len(loops)
  BY <1>2
<1>6. /\ begin = loops[1].begin /\ end = loops[1].end /\ begin \in Nat /\ end \in Nat /\ size = end - begin
  BY <1>2, <1>3, <1>5 DEF begin, end, size
<1>7. /\ begin <= end /\ end <= Len(sort_call.s)
      /\ ~ Head(loops).leftmost => begin > 0
  BY <1>2, <1>5, <1>6 DEF Stacked
<1>8. \A i \in begin..(end - 1) : i \in Places
  BY <1>4, <1>6, <1>7 DEF Places
<1> QED BY <1>2, <1>3, <1>4, <1>6, <1>7, <1>8

(* What happens in the innermost loop settles nothing less outside. *)
Outside(m2) ==
  \A i, j \in Places :
    i < j /\ ~ (begin <= i /\ j < end) =>
      m2[i] <= m2[j] \/ \E k \in 2..Len(loops) : InLoop(k, i, j)

LEMMA SettledOutside ==
  ASSUME SortTypeOK, Stacked, Settled, loops # <<>>,
         NEW m2, Shuffled(Places, a, m2, begin, end)
  PROVE  Outside(m2)
<1>1. Contained(Places, a, m2, begin, end)
  BY ShuffledPlaces, Zenon
<1>2. /\ Len(loops) \in Nat \ {0}
      /\ begin = loops[1].begin /\ end = loops[1].end
      /\ begin \in Nat /\ end \in Nat /\ Places \in SUBSET Int
  BY HeadIs DEF Places
<1>3. /\ \A i \in Places : i \notin begin..(end - 1) => m2[i] = a[i]
      /\ \A i \in Places : i \in begin..(end - 1) =>
           \E j \in Places : j \in begin..(end - 1) /\ m2[i] = a[j]
  BY <1>1 DEF Contained
<1>4. \A k \in 1..Len(loops) : k # 1 => k \in 2..Len(loops) /\ loops[k].begin \in Nat /\ end < loops[k].begin
  <2>1. 1 \in 1..Len(loops) /\ \A k \in 1..Len(loops) : k # 1 => 1 < k
    BY <1>2
  <2> QED BY <1>2, <2>1, HeadIs DEF Stacked
<1>5. ASSUME NEW i \in Places, NEW j \in Places, i < j, ~ (begin <= i /\ j < end),
             NEW k \in 1..Len(loops), InLoop(k, i, j)
      PROVE  k \in 2..Len(loops) /\ i > end
  BY <1>2, <1>4, <1>5 DEF InLoop
<1>6. SUFFICES ASSUME NEW i \in Places, NEW j \in Places, i < j, ~ (begin <= i /\ j < end)
               PROVE  m2[i] <= m2[j] \/ \E k \in 2..Len(loops) : InLoop(k, i, j)
  BY DEF Outside
<1>7. CASE i \in begin..(end - 1)
  <2>1. PICK u \in Places : u \in begin..(end - 1) /\ m2[i] = a[u]
    BY <1>3, <1>7
  <2>2. j \notin begin..(end - 1) /\ u < j /\ ~ (begin <= u /\ j < end) /\ ~ (u > end)
    BY <1>2, <1>6, <1>7, <2>1
  <2>3. a[u] <= a[j]
    BY <1>5, <2>2 DEF Settled
  <2> QED BY <1>3, <2>1, <2>2, <2>3
<1>8. CASE i \notin begin..(end - 1) /\ j \in begin..(end - 1)
  <2>1. PICK v \in Places : v \in begin..(end - 1) /\ m2[j] = a[v]
    BY <1>3, <1>8
  <2>2. i < v /\ ~ (begin <= i /\ v < end) /\ ~ (i > end)
    BY <1>2, <1>6, <1>8, <2>1
  <2>3. a[i] <= a[v]
    BY <1>5, <2>2 DEF Settled
  <2> QED BY <1>3, <1>8, <2>1, <2>3
<1>9. CASE i \notin begin..(end - 1) /\ j \notin begin..(end - 1)
  <2>1. m2[i] = a[i] /\ m2[j] = a[j]
    BY <1>3, <1>9
  <2>2. a[i] <= a[j] \/ \E k \in 2..Len(loops) : InLoop(k, i, j)
    BY <1>5, <1>6 DEF Settled
  <2> QED BY <2>1, <2>2
<1> QED BY <1>7, <1>8, <1>9

-----------------------------------------------------------------------------
(* How the loops change. *)

LoopsOK ==
  /\ \E bads : loops \in Seq(Loop(bads))
  /\ Stacked /\ Settled

(* A loop returns with its part in order. *)
LEMMA LoopReturns ==
  ASSUME SortTypeOK, Stacked, Settled, loops # <<>>, sort_call' = sort_call,
         Shuffled(Places, a, a', begin, end), Rising(a', begin, end), loops' = Tail(loops)
  PROVE  LoopsOK'
<1>1. PICK bads : loops \in Seq(Loop(bads))
  BY DEF SortTypeOK
<1>2. /\ loops' \in Seq(Loop(bads)) /\ Len(loops') = Len(loops) - 1
      /\ \A k \in 1..Len(loops') : loops'[k] = loops[k + 1]
  BY <1>1, HeadTailProperties
<1>3. Len(loops) \in Nat \ {0} /\ begin \in Nat /\ end \in Nat
  BY HeadIs
<1>4. \A k \in 1..Len(loops') : k + 1 \in 1..Len(loops)
  BY <1>2, <1>3
<1>5. \A k \in 2..Len(loops) : k - 1 \in 1..Len(loops') /\ loops'[k - 1] = loops[k]
  BY <1>2, <1>3
<1>6. Stacked'
  <2>1. \A k \in 1..Len(loops') :
          /\ loops'[k].begin <= loops'[k].end
          /\ loops'[k].end <= Len(sort_call.s)
          /\ ~ loops'[k].leftmost => loops'[k].begin > 0
    BY <1>2, <1>4 DEF Stacked
  <2>2. \A k, l \in 1..Len(loops') : k < l => loops'[k].end < loops'[l].begin
    <3> SUFFICES ASSUME NEW k \in 1..Len(loops'), NEW l \in 1..Len(loops'), k < l
                 PROVE  loops'[k].end < loops'[l].begin
      OBVIOUS
    <3>1. k + 1 < l + 1 /\ k + 1 \in 1..Len(loops) /\ l + 1 \in 1..Len(loops)
      BY <1>4
    <3> QED BY <1>2, <3>1 DEF Stacked
  <2> QED BY <2>1, <2>2 DEF Stacked
<1>7. Settled'
  <2>1. Outside(a')
    BY SettledOutside, Zenon
  <2>2. ASSUME NEW i \in Places, NEW j \in Places, i < j
        PROVE  a'[i] <= a'[j] \/ \E k \in 1..Len(loops') : InLoop(k, i, j)'
    <3>1. CASE begin <= i /\ j < end
      <4>1. i \in begin..(end - 1) /\ j \in begin..(end - 1)
        BY <1>3, <2>2, <3>1 DEF Places
      <4> QED BY <2>2, <4>1 DEF Rising
    <3>2. CASE ~ (begin <= i /\ j < end)
      <4>1. a'[i] <= a'[j] \/ \E k \in 2..Len(loops) : InLoop(k, i, j)
        BY <2>1, <2>2, <3>2 DEF Outside
      <4> QED BY <1>5, <4>1 DEF InLoop
    <3> QED BY <3>1, <3>2
  <2>3. Places' = Places
    BY DEF Places
  <2> QED BY <2>2, <2>3 DEF Settled, InLoop
<1> QED BY <1>2, <1>6, <1>7 DEF LoopsOK

(* Nothing before p is greater than what is there, nothing behind it smaller. *)
Parted(m, lo, p, hi) ==
  /\ \A i \in lo..(p - 1) : m[i] <= m[p]
  /\ \A j \in (p + 1)..(hi - 1) : m[p] <= m[j]

(* A loop goes on as two, left and right of a pivot that is in its place. *)
LEMMA LoopSplits ==
  ASSUME SortTypeOK, Stacked, Settled, loops # <<>>, sort_call' = sort_call,
         begin <= pivot_pos, pivot_pos < end,
         Shuffled(Places, a, a', begin, end), Parted(a', begin, pivot_pos, end),
         NEW bad, SplitLoop(bad)
  PROVE  LoopsOK'
<1> DEFINE left == [begin |-> begin, end |-> pivot_pos, bad |-> bad,
                    leftmost |-> Leftmost(Head(loops))]
           right == [begin |-> pivot_pos + 1, end |-> end, bad |-> bad, leftmost |-> FALSE]
<1>1. PICK bads : loops \in Seq(Loop(bads))
  BY DEF SortTypeOK
<1>2. /\ Tail(loops) \in Seq(Loop(bads)) /\ Len(Tail(loops)) = Len(loops) - 1
      /\ \A k \in 1..Len(Tail(loops)) : Tail(loops)[k] = loops[k + 1]
  BY <1>1, HeadTailProperties
<1>3. /\ Len(loops) \in Nat \ {0} /\ begin \in Nat /\ end \in Nat /\ pivot_pos \in Nat
      /\ end <= Len(sort_call.s) /\ Len(sort_call.s) \in Nat
      /\ Head(loops) = loops[1] /\ begin = loops[1].begin /\ end = loops[1].end
      /\ ~ Head(loops).leftmost => begin > 0
      /\ Head(loops).leftmost \in BOOLEAN
  <2>1. Head(loops) \in Loop(bads)
    BY <1>1
  <2>2. pivot_pos \in Int
    BY DEF SortTypeOK, pivot_pos
  <2> QED BY <2>1, <2>2, HeadIs DEF Loop
<1>4. loops' = <<left, right>> \o Tail(loops)
  BY DEF SplitLoop
<1> DEFINE all == bads \cup {bad}
<1>5. left \in Loop(all) /\ right \in Loop(all)
  BY <1>3 DEF Loop, Leftmost
<1>6. /\ left.begin = begin /\ left.end = pivot_pos /\ left.leftmost = Head(loops).leftmost
      /\ right.begin = pivot_pos + 1 /\ right.end = end /\ right.leftmost = FALSE
  BY DEF Leftmost
<1> HIDE DEF left, right
<1>7. /\ <<left, right>> \in Seq(Loop(all)) /\ Len(<<left, right>>) = 2
      /\ <<left, right>>[1] = left /\ <<left, right>>[2] = right
  BY <1>5
<1>8. Tail(loops) \in Seq(Loop(all))
  <2>1. Loop(bads) \subseteq Loop(all)
    BY DEF Loop
  <2> QED BY <1>2, <2>1, SeqMonotonic
<1>9. /\ loops' \in Seq(Loop(all)) /\ Len(loops') = Len(loops) + 1
      /\ loops'[1] = left /\ loops'[2] = right
      /\ \A k \in 3..Len(loops') : loops'[k] = loops[k - 1]
  <2> DEFINE two == <<left, right>>
  <2>1. /\ two \o Tail(loops) \in Seq(Loop(all))
        /\ Len(two \o Tail(loops)) = Len(two) + Len(Tail(loops))
        /\ \A k \in 1..(Len(two) + Len(Tail(loops))) :
             (two \o Tail(loops))[k] = IF k <= Len(two) THEN two[k] ELSE Tail(loops)[k - Len(two)]
    BY <1>7, <1>8, ConcatProperties
  <2>2. two \in Seq(Loop(all)) /\ Len(two) = 2 /\ two[1] = left /\ two[2] = right
    BY <1>7
  <2>3. loops' = two \o Tail(loops)
    BY <1>4
  <2> HIDE DEF two
  <2>4. 2 + Len(Tail(loops)) = Len(loops) + 1
    BY <1>2, <1>3
  <2>5. \A k \in 3..(Len(loops) + 1) : ~ (k <= 2) /\ k \in 1..(Len(loops) + 1) /\ k - 2 \in 1..Len(Tail(loops)) /\ (k - 2) + 1 = k - 1
    BY <1>2, <1>3
  <2>6. 1 \in 1..(Len(loops) + 1) /\ 2 \in 1..(Len(loops) + 1) /\ 1 <= 2 /\ 2 <= 2
    BY <1>3
  <2> QED BY <1>2, <2>1, <2>2, <2>3, <2>4, <2>5, <2>6
<1>10. /\ \A k \in 3..Len(loops') : k - 1 \in 2..Len(loops)
       /\ \A k \in 2..Len(loops) : k + 1 \in 3..Len(loops') /\ (k + 1) - 1 = k
       /\ \A k \in 1..Len(loops') : k = 1 \/ k = 2 \/ k \in 3..Len(loops')
       /\ \A k \in 2..Len(loops) : k \in 1..Len(loops) /\ 1 < k
       /\ 1 \in 1..Len(loops) /\ 1 \in 1..Len(loops') /\ 2 \in 1..Len(loops')
  BY <1>3, <1>9
<1>11. \A k \in 2..Len(loops) : loops[k].begin \in Nat /\ loops[k].end \in Nat /\ end < loops[k].begin
  <2>1. \A k \in 1..Len(loops) : loops[k].begin \in Nat /\ loops[k].end \in Nat
    BY HeadIs
  <2> QED BY <1>3, <1>10, <2>1 DEF Stacked
<1>12. Stacked'
  <2>1. \A k \in 1..Len(loops') :
          /\ loops'[k].begin <= loops'[k].end
          /\ loops'[k].end <= Len(sort_call.s)
          /\ ~ loops'[k].leftmost => loops'[k].begin > 0
    <3> SUFFICES ASSUME NEW k \in 1..Len(loops')
                 PROVE  /\ loops'[k].begin <= loops'[k].end
                        /\ loops'[k].end <= Len(sort_call.s)
                        /\ ~ loops'[k].leftmost => loops'[k].begin > 0
      OBVIOUS
    <3>1. CASE k = 1
      BY <1>3, <1>6, <1>9, <3>1
    <3>2. CASE k = 2
      BY <1>3, <1>6, <1>9, <3>2
    <3>3. CASE k \in 3..Len(loops')
      BY <1>9, <1>10, <3>3 DEF Stacked
    <3> QED BY <1>10, <3>1, <3>2, <3>3
  <2>2. ASSUME NEW k \in 1..Len(loops'), NEW l \in 1..Len(loops'), k < l
        PROVE  loops'[k].end < loops'[l].begin
    <3>1. CASE l = 2
      <4>1. k = 1
        BY <2>2, <3>1
      <4> QED BY <1>3, <1>6, <1>9, <3>1, <4>1
    <3>2. CASE l \in 3..Len(loops')
      <4>1. loops'[l] = loops[l - 1] /\ l - 1 \in 2..Len(loops)
        BY <1>9, <1>10, <3>2
      <4>2. CASE k = 1
        BY <1>3, <1>6, <1>9, <1>11, <4>1, <4>2
      <4>3. CASE k = 2
        BY <1>3, <1>6, <1>9, <1>11, <4>1, <4>3
      <4>4. CASE k \in 3..Len(loops')
        <5>1. loops'[k] = loops[k - 1] /\ k - 1 \in 2..Len(loops) /\ k - 1 < l - 1
          BY <1>9, <1>10, <2>2, <4>4
        <5> QED BY <1>10, <4>1, <5>1 DEF Stacked
      <4> QED BY <1>10, <4>2, <4>3, <4>4
    <3>3. l # 1
      BY <2>2
    <3> QED BY <1>10, <3>1, <3>2, <3>3
  <2> QED BY <2>1, <2>2 DEF Stacked
<1>13. Settled'
  <2>1. Outside(a')
    BY SettledOutside, Zenon
  <2>2. a' \in Arrays(Places) /\ \A i \in Places : i \in Int /\ a'[i] \in Int
    <3>1. a' \in Arrays(Places)
      BY DEF Shuffled
    <3> QED BY <3>1 DEF Arrays, Places
  <2>3. ASSUME NEW i \in Places, NEW j \in Places, i < j
        PROVE  a'[i] <= a'[j] \/ \E k \in 1..Len(loops') : InLoop(k, i, j)'
    <3>1. CASE ~ (begin <= i /\ j < end)
      <4>1. a'[i] <= a'[j] \/ \E k \in 2..Len(loops) : InLoop(k, i, j)
        BY <2>1, <2>3, <3>1 DEF Outside
      <4>2. \A k \in 2..Len(loops) : k + 1 \in 1..Len(loops') /\ loops'[k + 1] = loops[k]
        BY <1>9, <1>10, <1>3
      <4> QED BY <4>1, <4>2 DEF InLoop
    <3>2. CASE begin <= i /\ j < pivot_pos
      <4>1. InLoop(1, i, j)'
        BY <1>6, <1>9, <3>2 DEF InLoop
      <4> QED BY <1>10, <4>1
    <3>3. CASE pivot_pos < i /\ j < end
      <4>1. InLoop(2, i, j)'
        BY <1>3, <1>6, <1>9, <2>2, <3>3 DEF InLoop
      <4> QED BY <1>10, <4>1
    <3>4. CASE begin <= i /\ i <= pivot_pos /\ pivot_pos <= j /\ j < end
      <4>1. pivot_pos \in Places
        BY <1>3 DEF Places
      <4>2. a'[i] <= a'[pivot_pos]
        <5>1. CASE i = pivot_pos
          BY <2>2, <4>1, <5>1
        <5>2. CASE i # pivot_pos
          <6>1. i \in begin..(pivot_pos - 1)
            BY <1>3, <2>2, <3>4, <5>2
          <6> QED BY <6>1 DEF Parted
        <5> QED BY <5>1, <5>2
      <4>3. a'[pivot_pos] <= a'[j]
        <5>1. CASE j = pivot_pos
          BY <2>2, <4>1, <5>1
        <5>2. CASE j # pivot_pos
          <6>1. j \in (pivot_pos + 1)..(end - 1)
            BY <1>3, <2>2, <3>4, <5>2
          <6> QED BY <6>1 DEF Parted
        <5> QED BY <5>1, <5>2
      <4> QED BY <2>2, <4>1, <4>2, <4>3
    <3> QED BY <1>3, <2>2, <2>3, <3>1, <3>2, <3>3, <3>4
  <2>4. Places' = Places
    BY DEF Places
  <2> QED BY <2>3, <2>4 DEF Settled, InLoop
<1> QED BY <1>9, <1>12, <1>13 DEF LoopsOK

(* A loop goes on behind what equals the pivot. *)
LEMMA LoopShrinks ==
  ASSUME SortTypeOK, Stacked, Settled, loops # <<>>, sort_call' = sort_call,
         begin <= last, last < end, Shuffled(Places, a, a', begin, end),
         \A i \in begin..last : \A j \in begin..(end - 1) : a'[i] <= a'[j],
         loops' = [loops EXCEPT ![1].begin = last + 1]
  PROVE  LoopsOK' /\ loops' # <<>>
<1>1. PICK bads : loops \in Seq(Loop(bads))
  BY DEF SortTypeOK
<1>2. /\ Len(loops) \in Nat \ {0} /\ begin \in Nat /\ end \in Nat /\ last \in Nat
      /\ end <= Len(sort_call.s)
      /\ begin = loops[1].begin /\ end = loops[1].end
      /\ 1 \in 1..Len(loops)
  <2>1. last \in Int
    BY DEF SortTypeOK
  <2> QED BY <2>1, HeadIs
<1> DEFINE less == [loops[1] EXCEPT !.begin = last + 1]
<1>3. loops[1] \in Loop(bads)
  BY <1>1, <1>2
<1>4. less \in Loop(bads) /\ less.begin = last + 1 /\ less.end = end
  BY <1>2, <1>3 DEF Loop
<1>5. loops' = [loops EXCEPT ![1] = less]
  OBVIOUS
<1> HIDE DEF less
<1>6. /\ loops' \in Seq(Loop(bads)) /\ Len(loops') = Len(loops)
      /\ loops'[1] = less /\ \A k \in 2..Len(loops) : loops'[k] = loops[k]
  <2>1. /\ [loops EXCEPT ![1] = less] \in Seq(Loop(bads))
        /\ Len([loops EXCEPT ![1] = less]) = Len(loops)
        /\ \A k \in 1..Len(loops) : [loops EXCEPT ![1] = less][k] = IF k = 1 THEN less ELSE loops[k]
    BY <1>1, <1>2, <1>4, ExceptSeq
  <2>2. \A k \in 2..Len(loops) : k \in 1..Len(loops) /\ k # 1
    OBVIOUS
  <2> QED BY <1>2, <1>5, <2>1, <2>2
<1>7. /\ \A k \in 1..Len(loops) : k = 1 \/ k \in 2..Len(loops)
      /\ \A k \in 2..Len(loops) : k \in 1..Len(loops) /\ 1 < k
  BY <1>2
<1>8. \A k \in 1..Len(loops) : loops[k].begin \in Nat /\ loops[k].end \in Nat
  BY HeadIs
<1>9. Stacked'
  <2>1. \A k \in 1..Len(loops') :
          /\ loops'[k].begin <= loops'[k].end
          /\ loops'[k].end <= Len(sort_call.s)
          /\ ~ loops'[k].leftmost => loops'[k].begin > 0
    <3> SUFFICES ASSUME NEW k \in 1..Len(loops)
                 PROVE  /\ loops'[k].begin <= loops'[k].end
                        /\ loops'[k].end <= Len(sort_call.s)
                        /\ ~ loops'[k].leftmost => loops'[k].begin > 0
      BY <1>6
    <3>1. CASE k = 1
      BY <1>2, <1>4, <1>6, <3>1
    <3>2. CASE k \in 2..Len(loops)
      BY <1>6, <1>7, <3>2 DEF Stacked
    <3> QED BY <1>7, <3>1, <3>2
  <2>2. ASSUME NEW k \in 1..Len(loops), NEW l \in 1..Len(loops), k < l
        PROVE  loops'[k].end < loops'[l].begin
    <3>1. l \in 2..Len(loops) /\ loops'[l] = loops[l]
      BY <1>6, <1>7, <2>2
    <3>2. loops'[k].end = loops[k].end
      BY <1>2, <1>4, <1>6, <1>7
    <3> QED BY <2>2, <3>1, <3>2 DEF Stacked
  <2> QED BY <1>6, <2>1, <2>2 DEF Stacked
<1>10. Settled'
  <2>1. Outside(a')
    BY SettledOutside, Zenon
  <2>2. ASSUME NEW i \in Places, NEW j \in Places, i < j
        PROVE  a'[i] <= a'[j] \/ \E k \in 1..Len(loops') : InLoop(k, i, j)'
    <3>1. CASE ~ (begin <= i /\ j < end)
      <4>1. a'[i] <= a'[j] \/ \E k \in 2..Len(loops) : InLoop(k, i, j)
        BY <2>1, <2>2, <3>1 DEF Outside
      <4> QED BY <1>6, <1>7, <4>1 DEF InLoop
    <3>2. CASE begin <= i /\ j < end /\ i <= last
      <4>1. i \in begin..last /\ j \in begin..(end - 1)
        BY <1>2, <2>2, <3>2 DEF Places
      <4> QED BY <4>1
    <3>3. CASE j < end /\ last < i
      <4>1. InLoop(1, i, j)'
        BY <1>2, <1>4, <1>6, <3>3 DEF InLoop, Places
      <4> QED BY <1>2, <1>6, <4>1
    <3>4. i \in Int /\ j \in Int
      BY DEF Places
    <3> QED BY <1>2, <3>1, <3>2, <3>3, <3>4
  <2>3. Places' = Places
    BY DEF Places
  <2> QED BY <2>2, <2>3 DEF Settled, InLoop
<1>11. loops' # <<>>
  BY <1>2, <1>6
<1> QED BY <1>6, <1>9, <1>10, <1>11 DEF LoopsOK

(* A loop whose range is shuffled and stays. *)
LEMMA LoopStays ==
  ASSUME SortTypeOK, Stacked, Settled, loops # <<>>, sort_call' = sort_call,
         Shuffled(Places, a, a', begin, end), loops' = loops
  PROVE  LoopsOK' /\ loops' # <<>>
<1>1. Places' = Places
  BY DEF Places
<1>2. Len(loops) \in Nat \ {0} /\ begin = loops[1].begin /\ end = loops[1].end
  BY HeadIs
<1>3. Outside(a')
  BY SettledOutside, Zenon
<1>4. ASSUME NEW i \in Places, NEW j \in Places, i < j
      PROVE  a'[i] <= a'[j] \/ \E k \in 1..Len(loops) : InLoop(k, i, j)
  <2>1. CASE begin <= i /\ j < end
    BY <1>2, <2>1 DEF InLoop
  <2>2. CASE ~ (begin <= i /\ j < end)
    <3>1. \A k \in 2..Len(loops) : k \in 1..Len(loops)
      OBVIOUS
    <3> QED BY <1>3, <1>4, <2>2, <3>1 DEF Outside
  <2> QED BY <2>1, <2>2
<1>5. Settled'
  BY <1>1, <1>4 DEF Settled, InLoop
<1>6. Stacked'
  BY DEF Stacked
<1>7. \E bads : loops' \in Seq(Loop(bads))
  BY DEF SortTypeOK
<1> QED BY <1>5, <1>6, <1>7 DEF LoopsOK

-----------------------------------------------------------------------------
(* What each place of the code may rely on. *)

(* partition_right: something stops the search that goes up.  Afterwards all
   that was passed is on its side, and the pair found stops the next searches. *)
Stopped == \E i \in (begin + 1)..(end - 1) : pivot <= a[i]
RightReady ==
  /\ begin < first /\ first < end /\ last < end
  /\ \A i \in (begin + 1)..(first - 1) : a[i] < pivot
  /\ \A i \in (last + 1)..(end - 1) : pivot <= a[i]
  /\ pivot <= a[first]
  /\ first < last => a[last] < pivot

(* partition_left: the pivot is the least there is. *)
LeftReady ==
  /\ begin < first /\ first < end /\ begin <= last /\ last < end
  /\ \A i \in (begin + 1)..(first - 1) : a[i] <= pivot
  /\ \A i \in (last + 1)..(end - 1) : pivot < a[i]
  /\ a[last] <= pivot
  /\ first < last => pivot < a[first]
PivotLeast == ~ Head(loops).leftmost /\ \A i \in begin..(end - 1) : pivot <= a[i]

(* divide_sort: the median of nine leaves something on either side that is not
   the last place there. *)
Divisible ==
  /\ \E i \in 1..(size - 2) : a[0] <= a[i]
  /\ \E i \in 2..(size - 1) : a[i] <= a[0]
DivideReady ==
  /\ 1 <= first /\ first < size /\ 1 <= last /\ last < size
  /\ \A i \in 1..(first - 1) : a[i] <= a[0]
  /\ \A i \in (last + 1)..(size - 1) : a[0] <= a[i]
  /\ a[0] <= a[first] /\ a[last] <= a[0]
  /\ first = last => 1 < first /\ last < size - 1
  /\ first > last => /\ first - last \in {1, 2}
                     /\ \A i \in (last + 1)..(first - 1) : a[i] = a[0]
Divided ==
  LET n == Len(sort_call.s)
  IN /\ 0 < last /\ first < n /\ first - last \in {1, 2}
     /\ \A i \in 0..(last - 1) : a[i] <= a[last]
     /\ \A i \in last..(first - 1) : a[i] = a[last]
     /\ \A i \in first..(n - 1) : a[i] >= a[last]

Sorting ==
  /\ Stacked /\ Settled
  /\ sort_pc \in {"loop", "right", "rightswap", "left", "leftswap", "balance", "done"}
  /\ IF sort_pc = "done" THEN loops = <<>> ELSE loops # <<>>
  /\ sort_pc = "right" => Stopped
  /\ sort_pc = "rightswap" => RightReady
  /\ sort_pc = "left" => PivotLeast /\ begin < end - 1
  /\ sort_pc = "leftswap" => PivotLeast /\ LeftReady
  /\ sort_pc = "balance" =>
       begin < first /\ first < end /\ Parted(a, begin, pivot_pos, end)

Dividing ==
  /\ sort_pc \in {"pivot9", "divide", "divideswap", "divided"}
  /\ sort_call.kernel = "divide" /\ loops # <<>>
  /\ begin = 0 /\ end = Len(sort_call.s)
  /\ sort_pc = "divide" => Divisible
  /\ sort_pc = "divideswap" => DivideReady
  /\ sort_pc = "divided" => Divided

SortInv ==
  /\ SortTypeOK
  /\ Shuffled(Places, Given, a, 0, Len(sort_call.s))
  /\ Sorting \/ Dividing

-----------------------------------------------------------------------------
(* The steps of pdqsort. *)

(* What shuffles the innermost loop keeps the elements and the types. *)
LEMMA ElementsKept ==
  ASSUME SortInv, Stacked, loops # <<>>, sort_call' = sort_call,
         Shuffled(Places, a, a', begin, end), \E bads : loops' \in Seq(Loop(bads)),
         first' \in Int, last' \in Int
  PROVE  SortTypeOK' /\ Shuffled(Places, Given, a, 0, Len(sort_call.s))'
<1>1. Places' = Places /\ Given' = Given
  BY DEF Places, Given
<1>2. a' \in Arrays(Places)
  BY DEF Shuffled
<1>3. SortTypeOK'
  BY <1>1, <1>2 DEF SortTypeOK, SortInv
<1>4. /\ begin \in Int /\ end \in Int /\ 0 \in Int /\ Len(sort_call.s) \in Int
      /\ 0 <= begin /\ end <= Len(sort_call.s)
  BY HeadIs DEF SortInv
<1>5. Shuffled(Places, a, a', 0, Len(sort_call.s))
  BY <1>4, ShuffledWithin, Zenon
<1>6. Shuffled(Places, Given, a, 0, Len(sort_call.s))
  BY DEF SortInv
<1>7. Shuffled(Places, Given, a', 0, Len(sort_call.s))
  BY <1>5, <1>6, ShuffledTwice, Zenon
<1> QED BY <1>1, <1>3, <1>7

(* The element before a loop is not greater than any in it. *)
LEMMA BeforeLeast ==
  ASSUME SortTypeOK, Stacked, Settled, loops # <<>>, begin > 0
  PROVE  \A j \in begin..(end - 1) : begin - 1 \in Places /\ a[begin - 1] <= a[j]
<1>1. /\ Len(loops) \in Nat \ {0}
      /\ begin = loops[1].begin /\ end = loops[1].end
      /\ begin \in Nat /\ end \in Nat /\ end <= Len(sort_call.s) /\ Len(sort_call.s) \in Nat
      /\ \A i \in begin..(end - 1) : i \in Places
      /\ begin <= end
      /\ \A k \in 1..Len(loops) : loops[k].begin \in Nat
  BY HeadIs
<1> SUFFICES ASSUME NEW j \in begin..(end - 1)
             PROVE  begin - 1 \in Places /\ a[begin - 1] <= a[j]
  OBVIOUS
<1>2. begin - 1 \in Places /\ j \in Places /\ begin - 1 < j
  BY <1>1 DEF Places
<1>3. \A k \in 1..Len(loops) : ~ InLoop(k, begin - 1, j)
  <2> SUFFICES ASSUME NEW k \in 1..Len(loops), InLoop(k, begin - 1, j) PROVE FALSE
    OBVIOUS
  <2>1. CASE k = 1
    BY <1>1, <2>1 DEF InLoop
  <2>2. CASE k # 1
    <3>1. 1 \in 1..Len(loops) /\ 1 < k
      BY <1>1, <2>2
    <3>2. loops[1].end < loops[k].begin
      BY <3>1 DEF Stacked
    <3> QED BY <1>1, <3>2 DEF InLoop
  <2> QED BY <2>1, <2>2
<1> QED BY <1>2, <1>3 DEF Settled

(* A loop that returns with its part in order. *)
LEMMA ReturnStep ==
  ASSUME SortInv, Sorting, loops # <<>>, sort_call' = sort_call,
         Shuffled(Places, a, a', begin, end), Rising(a', begin, end), Return,
         UNCHANGED <<first, last>>
  PROVE  SortInv'
<1>1. loops' = Tail(loops)
  BY DEF Return
<1>2. SortTypeOK /\ Stacked /\ Settled /\ first \in Int /\ last \in Int
  BY DEF SortInv, Sorting, SortTypeOK
<1>3. LoopsOK'
  BY <1>1, <1>2, LoopReturns, Zenon
<1>4. SortTypeOK' /\ Shuffled(Places, Given, a, 0, Len(sort_call.s))'
  <2>1. first' \in Int /\ last' \in Int /\ \E bads : loops' \in Seq(Loop(bads))
    BY <1>2, <1>3 DEF LoopsOK
  <2> QED BY <1>2, <2>1, ElementsKept, Zenon
<1>5. sort_pc' = IF loops' = <<>> THEN "done" ELSE "loop"
  BY DEF Return
<1>6. Sorting'
  BY <1>3, <1>5 DEF Sorting, LoopsOK
<1> QED BY <1>4, <1>6 DEF SortInv

LEMMA InsertionSortStep == ASSUME SortInv, InsertionSort PROVE SortInv'
<1>1. sort_pc = "loop" /\ sort_call' = sort_call /\ a' = Ordered(begin, end) /\ Return
      /\ UNCHANGED <<first, last>>
  BY DEF InsertionSort
<1>2. Sorting /\ Stacked /\ loops # <<>> /\ SortTypeOK
  BY <1>1 DEF SortInv, Sorting, Dividing
<1>3. /\ Places \in SUBSET Int /\ a \in Arrays(Places) /\ begin \in Int /\ end \in Int /\ begin <= end
      /\ \A i \in begin..(end - 1) : i \in Places
  BY <1>2, HeadIs DEF SortTypeOK, Places
<1>4. OrderedBy(Places, begin, end, a')
  BY <1>1, <1>3, OrderedIs, Zenon
<1>5. Shuffled(Places, a, a', begin, end) /\ Rising(a', begin, end)
  BY <1>4 DEF OrderedBy
<1> QED BY <1>1, <1>2, <1>5, ReturnStep

LEMMA UnguardedInsertionSortStep ==
  ASSUME SortInv, UnguardedInsertionSort
  PROVE  SortInv'
<1> DEFINE M == Inserted(0, begin, end)
           InRange == \A cur \in (begin + 1)..(end - 1) :
                        begin > 0 /\ Sift(M[cur - 1], 0, cur) >= begin
<1>1. /\ sort_pc = "loop" /\ sort_call' = sort_call /\ ~ Head(loops).leftmost
      /\ a' = IF size = 0 THEN a ELSE M[end - 1]
      /\ loops' = Tail(loops)
      /\ Found(InRange, IF Tail(loops) = <<>> THEN "done" ELSE "loop")
      /\ UNCHANGED <<first, last>>
  BY DEF UnguardedInsertionSort
<1>2. Sorting /\ Stacked /\ Settled /\ loops # <<>> /\ SortTypeOK
  BY <1>1 DEF SortInv, Sorting, Dividing
<1>3. /\ Places \in SUBSET Int /\ a \in Arrays(Places) /\ begin \in Int /\ end \in Int /\ begin <= end
      /\ begin > 0 /\ 0 \in Int /\ 0 <= begin /\ size = end - begin
      /\ \A i \in begin..(end - 1) : i \in Places
      /\ \A i \in 0..(end - 1) : i \in Places
  <2>1. Places \in SUBSET Int /\ a \in Arrays(Places)
    BY <1>2 DEF SortTypeOK, Places
  <2>2. /\ begin \in Nat /\ end \in Nat /\ begin <= end /\ begin > 0 /\ size = end - begin
        /\ end <= Len(sort_call.s) /\ Len(sort_call.s) \in Nat
    BY <1>1, <1>2, HeadIs
  <2> QED BY <2>1, <2>2 DEF Places
<1>4. Descended(Places, 0, begin, end, M)
  <2>1. \A j \in begin..(end - 1) : a[begin - 1] <= a[j]
    BY <1>2, <1>3, BeforeLeast
  <2> QED BY <1>3, <2>1, InsertedIs, Zenon
<1> HIDE DEF M
<1>5. InRange
  <2>1. \A cur \in (begin + 1)..(end - 1) : cur \in begin..(end - 1) /\ cur # begin
    BY <1>3
  <2> QED BY <1>3, <1>4, <2>1 DEF Descended
<1> HIDE DEF InRange
<1>6. Return
  BY <1>1, <1>5 DEF Found, Return
<1>7. Shuffled(Places, a, a', begin, end) /\ Rising(a', begin, end)
  <2>1. CASE size = 0
    <3>1. Shuffled(Places, a, a, begin, end)
      BY <1>3, ShuffledNot, Zenon
    <3>2. Rising(a, begin, end)
      BY <1>3, <2>1 DEF Rising
    <3> QED BY <1>1, <2>1, <3>1, <3>2
  <2>2. CASE size # 0
    <3>1. end - 1 \in begin..(end - 1) /\ (end - 1) + 1 = end
      BY <1>3, <2>2
    <3> QED BY <1>1, <1>4, <2>2, <3>1 DEF Descended
  <2> QED BY <2>1, <2>2
<1> QED BY <1>1, <1>2, <1>6, <1>7, ReturnStep


(* Where the innermost loop is. *)
LEMMA InnermostIs ==
  ASSUME SortInv, Sorting, loops # <<>>
  PROVE  /\ SortTypeOK /\ Stacked /\ Settled
         /\ Places \in SUBSET Int /\ a \in Arrays(Places) /\ DOMAIN a = Places
         /\ first \in Int /\ last \in Int
         /\ begin \in Int /\ end \in Int /\ begin >= 0 /\ begin <= end /\ size = end - begin
         /\ end <= Len(sort_call.s)
         /\ \A i \in begin..(end - 1) : i \in Places /\ a[i] \in Int
         /\ begin < end => begin \in Places /\ pivot \in Int /\ pivot = a[begin]
<1>1. SortTypeOK /\ Stacked /\ Settled /\ first \in Int /\ last \in Int
  BY DEF SortInv, Sorting, SortTypeOK
<1>2. Places \in SUBSET Int /\ a \in Arrays(Places) /\ DOMAIN a = Places
      /\ \A i \in Places : a[i] \in Int
  BY <1>1 DEF SortTypeOK, Arrays, Places
<1>3. /\ begin \in Nat /\ end \in Nat /\ begin <= end /\ size = end - begin
      /\ end <= Len(sort_call.s)
      /\ \A i \in begin..(end - 1) : i \in Places
  BY <1>1, HeadIs
<1>4. begin < end => begin \in begin..(end - 1)
  BY <1>3
<1> QED BY <1>1, <1>2, <1>3, <1>4 DEF pivot

(* A step that only shuffles the innermost loop. *)
LEMMA StaysStep ==
  ASSUME SortInv, Sorting, loops # <<>>, sort_call' = sort_call, loops' = loops,
         Shuffled(Places, a, a', begin, end), first' \in Int, last' \in Int
  PROVE  /\ SortTypeOK' /\ Shuffled(Places, Given, a, 0, Len(sort_call.s))'
         /\ Stacked' /\ Settled' /\ loops' # <<>>
         /\ begin' = begin /\ end' = end /\ pivot' = a'[begin] /\ Places' = Places
         /\ \A i \in Places : a'[i] \in Int
<1>1. SortTypeOK /\ Stacked /\ Settled
  BY DEF SortInv, Sorting
<1>2. LoopsOK' /\ loops' # <<>>
  BY <1>1, LoopStays, Zenon
<1>3. SortTypeOK' /\ Shuffled(Places, Given, a, 0, Len(sort_call.s))'
  <2>1. \E bads : loops' \in Seq(Loop(bads))
    BY <1>1 DEF SortTypeOK
  <2> QED BY <1>1, <2>1, ElementsKept, Zenon
<1>4. begin' = begin /\ end' = end /\ pivot' = a'[begin] /\ Places' = Places
  BY DEF begin, end, pivot, Places
<1>5. \A i \in Places : a'[i] \in Int
  BY DEF Shuffled, Arrays
<1> QED BY <1>2, <1>3, <1>4, <1>5 DEF LoopsOK

(* A loop that goes on as two. *)
LEMMA SplitStep ==
  ASSUME SortInv, Sorting, loops # <<>>, sort_call' = sort_call,
         begin < first, first < end,
         Shuffled(Places, a, a', begin, end), Parted(a', begin, pivot_pos, end),
         NEW bad, SplitLoop(bad), UNCHANGED <<first, last>>
  PROVE  SortInv'
<1>1. SortTypeOK /\ Stacked /\ Settled /\ first \in Int /\ last \in Int
      /\ begin \in Int /\ end \in Int
  BY InnermostIs
<1>2. begin <= pivot_pos /\ pivot_pos < end
  BY <1>1 DEF pivot_pos
<1>3. LoopsOK'
  BY <1>1, <1>2, LoopSplits, Zenon
<1>4. SortTypeOK' /\ Shuffled(Places, Given, a, 0, Len(sort_call.s))'
  <2>1. first' \in Int /\ last' \in Int /\ \E bads : loops' \in Seq(Loop(bads))
    BY <1>1, <1>3 DEF LoopsOK
  <2> QED BY <1>1, <2>1, ElementsKept, Zenon
<1>5. sort_pc' = "loop" /\ loops' # <<>>
  <2>1. PICK bads : Tail(loops) \in Seq(Loop(bads))
    <3>1. PICK bads : loops \in Seq(Loop(bads))
      BY <1>1 DEF SortTypeOK
    <3> QED BY <3>1
  <2>2. \A u, v : <<u, v>> \o Tail(loops) # <<>>
    <3> SUFFICES ASSUME NEW u, NEW v PROVE <<u, v>> \o Tail(loops) # <<>>
      OBVIOUS
    <3> DEFINE all == Loop(bads) \cup {u, v}
    <3>1. <<u, v>> \in Seq(all) /\ Len(<<u, v>>) = 2
      OBVIOUS
    <3>2. Tail(loops) \in Seq(all) /\ Len(Tail(loops)) \in Nat
      <4>1. Loop(bads) \subseteq all
        OBVIOUS
      <4> QED BY <2>1, <4>1, SeqMonotonic
    <3> HIDE DEF all
    <3>3. Len(<<u, v>> \o Tail(loops)) = Len(<<u, v>>) + Len(Tail(loops))
      BY <3>1, <3>2, ConcatProperties
    <3>4. Len(<<u, v>> \o Tail(loops)) # 0
      BY <3>1, <3>2, <3>3
    <3> QED BY <3>4
  <2> QED BY <2>2 DEF SplitLoop
<1>6. Sorting'
  BY <1>3, <1>5 DEF Sorting, LoopsOK
<1> QED BY <1>4, <1>6 DEF SortInv

-----------------------------------------------------------------------------
(* The pivot. *)

LEMMA Sort2Shuffles ==
  ASSUME NEW D, NEW m \in Arrays(D), NEW lo, NEW hi,
         NEW i \in D, NEW j \in D, i \in lo..(hi - 1), j \in lo..(hi - 1)
  PROVE  Shuffled(D, m, sort2(m, i, j), lo, hi)
<1>1. Shuffled(D, m, Swap(m, i, j), lo, hi)
  BY ShuffledSwap, Zenon
<1>2. Shuffled(D, m, m, lo, hi)
  BY ShuffledNot, Zenon
<1> QED BY <1>1, <1>2 DEF sort2

(* Places that may be equal. *)
LEMMA Sort3Shuffles ==
  ASSUME NEW D, NEW m \in Arrays(D), NEW lo, NEW hi,
         NEW i \in D, NEW j \in D, NEW k \in D,
         i \in lo..(hi - 1), j \in lo..(hi - 1), k \in lo..(hi - 1)
  PROVE  Shuffled(D, m, sort3(m, i, j, k), lo, hi)
<1> DEFINE s1 == sort2(m, i, j)
           s2 == sort2(s1, j, k)
           s3 == sort2(s2, i, j)
<1>1. Shuffled(D, m, s1, lo, hi)
  BY Sort2Shuffles, Zenon
<1>2. sort3(m, i, j, k) = s3
  BY DEF sort3, s1, s2, s3
<1> HIDE DEF s1
<1>3. s1 \in Arrays(D)
  BY <1>1 DEF Shuffled
<1>4. Shuffled(D, s1, s2, lo, hi)
  BY <1>3, Sort2Shuffles, Zenon
<1> HIDE DEF s2
<1>5. s2 \in Arrays(D)
  BY <1>4 DEF Shuffled
<1>6. Shuffled(D, s2, s3, lo, hi)
  BY <1>5, Sort2Shuffles, Zenon
<1> HIDE DEF s3
<1>7. Shuffled(D, m, s2, lo, hi)
  BY <1>1, <1>4, ShuffledTwice, Zenon
<1>8. Shuffled(D, m, s3, lo, hi)
  BY <1>6, <1>7, ShuffledTwice, Zenon
<1> QED BY <1>2, <1>8

(* Something behind it is not smaller. *)
LEMMA PivotChosenIs ==
  ASSUME SortInv, Sorting, loops # <<>>, size >= insertion_sort_threshold
  PROVE  /\ Shuffled(Places, a, PivotChosen, begin, end)
         /\ begin < end - 1
         /\ \E i \in (begin + 1)..(end - 1) : PivotChosen[begin] <= PivotChosen[i]
<1> DEFINE s2 == begin + size \div 2
           m1 == sort3(a, begin, s2, end - 1)
           m2 == sort3(m1, begin + 1, s2 - 1, end - 2)
           m3 == sort3(m2, begin + 2, s2 + 1, end - 3)
           m4 == sort3(m3, s2 - 1, s2, s2 + 1)
           m5 == Swap(m4, begin, s2)
           t == sort3(a, s2, begin, end - 1)
<1>1. /\ Places \in SUBSET Int /\ a \in Arrays(Places)
      /\ begin \in Int /\ end \in Int /\ begin >= 0 /\ size = end - begin
      /\ \A i \in begin..(end - 1) : i \in Places
  BY InnermostIs
<1>2. size >= 4 /\ end >= begin + 4
  BY <1>1, SortAssumption
<1>3. s2 \in Int /\ begin + 2 <= s2 /\ s2 <= end - 2
  BY <1>1, <1>2
<1>4. PivotChosen = IF size > ninther_threshold THEN m5 ELSE t
  BY DEF PivotChosen
<1> HIDE DEF s2
<1>5. \A i \in {begin, begin + 1, begin + 2, s2 - 1, s2, s2 + 1, end - 3, end - 2, end - 1} :
        i \in begin..(end - 1) /\ i \in Places
  BY <1>1, <1>2, <1>3
<1>6. CASE size > ninther_threshold
  <2>1. begin \in Places /\ s2 \in Places /\ end - 1 \in Places
        /\ begin \in begin..(end - 1) /\ s2 \in begin..(end - 1) /\ end - 1 \in begin..(end - 1)
    BY <1>5
  <2>2. Shuffled(Places, a, m1, begin, end)
    BY <1>1, <2>1, Sort3Shuffles, Zenon
  <2> HIDE DEF m1
  <2>3. m1 \in Arrays(Places)
    BY <2>2 DEF Shuffled
  <2>4. begin + 1 \in Places /\ s2 - 1 \in Places /\ end - 2 \in Places
        /\ begin + 1 \in begin..(end - 1) /\ s2 - 1 \in begin..(end - 1) /\ end - 2 \in begin..(end - 1)
    BY <1>5
  <2>5. Shuffled(Places, m1, m2, begin, end)
    BY <2>3, <2>4, Sort3Shuffles, Zenon
  <2> HIDE DEF m2
  <2>6. m2 \in Arrays(Places)
    BY <2>5 DEF Shuffled
  <2>7. begin + 2 \in Places /\ s2 + 1 \in Places /\ end - 3 \in Places
        /\ begin + 2 \in begin..(end - 1) /\ s2 + 1 \in begin..(end - 1) /\ end - 3 \in begin..(end - 1)
    BY <1>5
  <2>8. Shuffled(Places, m2, m3, begin, end)
    BY <2>6, <2>7, Sort3Shuffles, Zenon
  <2> HIDE DEF m3
  <2>9. m3 \in Arrays(Places)
    BY <2>8 DEF Shuffled
  <2>10. s2 - 1 # s2 /\ s2 # s2 + 1 /\ s2 - 1 # s2 + 1
    BY <1>3
  <2>11. Shuffled(Places, m3, m4, begin, end) /\ m4 \in Arrays(Places) /\ m4[s2] <= m4[s2 + 1]
    BY <2>1, <2>4, <2>7, <2>9, <2>10, Sort3Is, Zenon
  <2> HIDE DEF m4
  <2>12. Shuffled(Places, m4, m5, begin, end) /\ Swapped(Places, m4, begin, s2, m5)
    BY <2>1, <2>11, ShuffledSwap, SwapIs, Zenon
  <2> HIDE DEF m5
  <2>13. Shuffled(Places, a, m2, begin, end)
    BY <2>2, <2>5, ShuffledTwice, Zenon
  <2>14. Shuffled(Places, a, m3, begin, end)
    BY <2>8, <2>13, ShuffledTwice, Zenon
  <2>15. Shuffled(Places, a, m4, begin, end)
    BY <2>11, <2>14, ShuffledTwice, Zenon
  <2>16. Shuffled(Places, a, m5, begin, end)
    BY <2>12, <2>15, ShuffledTwice, Zenon
  <2>17. m5[begin] = m4[s2] /\ m5[s2 + 1] = m4[s2 + 1]
    <3>1. s2 + 1 # begin /\ s2 + 1 # s2
      BY <1>1, <1>3
    <3> QED BY <2>7, <2>12, <3>1 DEF Swapped
  <2>18. s2 + 1 \in (begin + 1)..(end - 1)
    BY <1>1, <1>3
  <2> QED BY <1>1, <1>2, <1>4, <1>6, <2>11, <2>16, <2>17, <2>18
<1>7. CASE ~ (size > ninther_threshold)
  <2>1. begin \in Places /\ s2 \in Places /\ end - 1 \in Places
        /\ begin \in begin..(end - 1) /\ s2 \in begin..(end - 1) /\ end - 1 \in begin..(end - 1)
        /\ s2 # begin /\ begin # end - 1 /\ s2 # end - 1
    BY <1>1, <1>2, <1>3, <1>5
  <2>2. Shuffled(Places, a, t, begin, end) /\ t[begin] <= t[end - 1]
    BY <1>1, <2>1, Sort3Is, Zenon
  <2>3. end - 1 \in (begin + 1)..(end - 1) /\ begin < end - 1
    BY <1>1, <1>2
  <2> QED BY <1>4, <1>7, <2>2, <2>3
<1> QED BY <1>6, <1>7

LEMMA ChoosePivotStep == ASSUME SortInv, ChoosePivot PROVE SortInv'
<1>1. /\ sort_pc = "loop" /\ size >= insertion_sort_threshold /\ sort_call' = sort_call
      /\ a' = PivotChosen /\ loops' = loops /\ first' = first /\ last' = last
      /\ sort_pc' = CASE Head(loops).leftmost -> "right"
                      [] ~ Head(loops).leftmost /\ begin = 0 -> "out"
                      [] OTHER -> IF a[begin - 1] < a'[begin] THEN "right" ELSE "left"
  BY DEF ChoosePivot
<1>2. Sorting /\ loops # <<>>
  BY <1>1 DEF SortInv, Sorting, Dividing
<1>3. /\ Shuffled(Places, a, a', begin, end) /\ begin < end - 1
      /\ \E i \in (begin + 1)..(end - 1) : a'[begin] <= a'[i]
  BY <1>1, <1>2, PivotChosenIs
<1>4. /\ SortTypeOK /\ Stacked /\ Settled /\ first \in Int /\ last \in Int
      /\ begin \in Int /\ end \in Int /\ begin >= 0 /\ begin <= end
      /\ \A i \in begin..(end - 1) : i \in Places
      /\ Places \in SUBSET Int /\ a \in Arrays(Places)
  BY <1>2, InnermostIs
<1>5. /\ SortTypeOK' /\ Shuffled(Places, Given, a, 0, Len(sort_call.s))'
      /\ Stacked' /\ Settled' /\ loops' # <<>>
      /\ begin' = begin /\ end' = end /\ pivot' = a'[begin] /\ Places' = Places
      /\ \A i \in Places : a'[i] \in Int
  BY <1>1, <1>2, <1>3, <1>4, StaysStep
<1>6. Stopped'
  BY <1>3, <1>5 DEF Stopped
<1>7. sort_pc' # "right" => sort_pc' = "left" /\ PivotLeast'
  <2> SUFFICES ASSUME sort_pc' # "right" PROVE sort_pc' = "left" /\ PivotLeast'
    OBVIOUS
  <2>1. ~ Head(loops).leftmost
    BY <1>1
  <2>2. begin > 0 /\ begin # 0
    BY <1>2, <1>4, <2>1, HeadIs
  <2>3. sort_pc' = "left" /\ ~ (a[begin - 1] < a'[begin])
    BY <1>1, <2>1, <2>2
  <2>4. \A j \in begin..(end - 1) : begin - 1 \in Places /\ a[begin - 1] <= a[j]
    BY <1>2, <1>4, <2>2, BeforeLeast
  <2>5. begin - 1 \in Places /\ begin \in Places
    BY <1>3, <1>4, <2>4
  <2>6. a'[begin] <= a[begin - 1]
    <3>1. a[begin - 1] \in Int /\ a'[begin] \in Int
      BY <1>4, <1>5, <2>5 DEF Arrays
    <3> QED BY <2>3, <3>1
  <2>7. Contained(Places, a, a', begin, end)
    BY <1>3, ShuffledPlaces, Zenon
  <2>8. ASSUME NEW i \in begin..(end - 1) PROVE a'[begin] <= a'[i]
    <3>1. PICK j \in Places : j \in begin..(end - 1) /\ a'[i] = a[j]
      BY <1>4, <2>7, <2>8 DEF Contained
    <3>2. a[begin - 1] <= a[j]
      BY <2>4, <3>1
    <3>3. a[begin - 1] \in Int /\ a[j] \in Int /\ a'[begin] \in Int
      BY <1>4, <1>5, <2>5 DEF Arrays
    <3> QED BY <2>6, <3>1, <3>2, <3>3
  <2>9. PivotLeast'
    BY <1>1, <1>5, <2>1, <2>8 DEF PivotLeast
  <2> QED BY <2>3, <2>9
<1>8. Sorting'
  BY <1>3, <1>5, <1>6, <1>7 DEF Sorting
<1> QED BY <1>5, <1>8 DEF SortInv

-----------------------------------------------------------------------------
(* partition_right. *)

LEMMA RightSearchStep == ASSUME SortInv, RightSearch PROVE SortInv'
<1> DEFINE up == Up(begin + 1, end, AtLeast(a))
           down == Down(end - 1, begin, Below(a))
<1>1. /\ sort_pc = "right" /\ UNCHANGED <<sort_call, a, loops>>
      /\ first' = up
      /\ last' = IF first' - 1 = begin THEN Max({first', down}) ELSE down
      /\ Found(first' < end /\ last' >= begin, "rightswap")
  BY DEF RightSearch
<1>2. Sorting /\ loops # <<>> /\ Stopped
  BY <1>1 DEF SortInv, Sorting, Dividing
<1>3. /\ Places \in SUBSET Int /\ a \in Arrays(Places) /\ DOMAIN a = Places
      /\ begin \in Int /\ end \in Int /\ begin >= 0 /\ begin <= end
      /\ \A i \in begin..(end - 1) : i \in Places /\ a[i] \in Int
      /\ begin < end => begin \in Places /\ pivot \in Int /\ pivot = a[begin]
  BY <1>2, InnermostIs
<1>4. PICK w \in (begin + 1)..(end - 1) : pivot <= a[w]
  BY <1>2 DEF Stopped
<1>5. begin < end /\ w \in begin..(end - 1) /\ w \in AtLeast(a) /\ pivot \in Int
      /\ \A i \in (begin + 1)..(end - 1) : i \in begin..(end - 1)
  BY <1>3, <1>4 DEF AtLeast
<1>6. /\ up \in Int /\ begin + 1 <= up /\ up <= w /\ up \in AtLeast(a)
      /\ \A i \in (begin + 1)..(end - 1) : i < up => i \notin AtLeast(a)
  BY <1>3, <1>4, <1>5, UpIs
<1>7. /\ down \in Int /\ down >= begin - 1 /\ down <= end - 1
      /\ down = begin - 1 \/ down \in Below(a)
      /\ \A i \in begin..(end - 1) : down < i => i \notin Below(a)
      /\ \A i \in begin..(end - 1) : i \in Below(a) => i <= down /\ down \in Below(a)
  BY <1>3, DownIs
<1> HIDE DEF up, down
<1>8. /\ \A i \in begin..(end - 1) : i \in AtLeast(a) <=> pivot <= a[i]
      /\ \A i \in begin..(end - 1) : i \in Below(a) <=> a[i] < pivot
      /\ \A i \in begin..(end - 1) : a[i] < pivot \/ pivot <= a[i]
      /\ \A i \in begin..(end - 1) : a[i] < pivot => ~ (pivot <= a[i])
  BY <1>3, <1>5 DEF AtLeast, Below
<1>9. up \in begin..(end - 1) /\ up < end
  BY <1>3, <1>4, <1>6
<1>10. /\ last' \in Int /\ last' >= begin /\ last' < end
       /\ \A i \in (last' + 1)..(end - 1) : pivot <= a[i]
       /\ up < last' => a[last'] < pivot
  <2>1. CASE up - 1 = begin
    <3> DEFINE T == {up, down}
    <3>1. T \in SUBSET Int /\ T # {} /\ end - 1 \in Int /\ \A t \in T : t <= end - 1
      BY <1>3, <1>6, <1>7, <1>9
    <3>3. last' = Max(T)
      BY <1>1, <2>1
    <3>a. up \in T /\ down \in T /\ \A t \in T : t = up \/ t = down
      OBVIOUS
    <3> HIDE DEF T
    <3>2. Max(T) \in T /\ \A t \in T : t <= Max(T)
      BY <3>1, MaxIs, Zenon
    <3>4. (last' = up \/ last' = down) /\ last' >= up /\ last' >= down
      BY <1>6, <1>7, <3>a, <3>2, <3>3
    <3>5. \A i \in (last' + 1)..(end - 1) : i \in begin..(end - 1) /\ down < i
      BY <1>3, <1>6, <1>7, <1>9, <3>4
    <3>6. up < last' => last' = down /\ down \in begin..(end - 1) /\ down \in Below(a)
      BY <1>3, <1>6, <1>7, <3>4
    <3> QED BY <1>3, <1>6, <1>7, <1>8, <1>9, <3>4, <3>5, <3>6
  <2>2. CASE up - 1 # begin
    <3>1. last' = down
      BY <1>1, <2>2
    <3>2. begin + 1 \in (begin + 1)..(end - 1) /\ begin + 1 < up /\ begin + 1 \in begin..(end - 1)
      BY <1>3, <1>6, <1>9, <2>2
    <3>3. begin + 1 \in Below(a)
      BY <1>6, <1>8, <3>2
    <3>4. begin + 1 <= down /\ down \in Below(a) /\ down \in begin..(end - 1)
      BY <1>3, <1>7, <3>2, <3>3
    <3>5. \A i \in (down + 1)..(end - 1) : i \in begin..(end - 1) /\ down < i
      BY <1>3, <1>7, <3>4
    <3> QED BY <1>3, <1>7, <1>8, <3>1, <3>4, <3>5
  <2> QED BY <2>1, <2>2
<1>11. sort_pc' = "rightswap"
  BY <1>1, <1>9, <1>10 DEF Found
<1>12. Shuffled(Places, a, a', begin, end)
  BY <1>1, <1>3, ShuffledNot
<1>13. /\ SortTypeOK' /\ Shuffled(Places, Given, a, 0, Len(sort_call.s))'
       /\ Stacked' /\ Settled' /\ loops' # <<>>
       /\ begin' = begin /\ end' = end /\ pivot' = a'[begin]
  BY <1>1, <1>2, <1>6, <1>10, <1>12, StaysStep
<1>14. \A i \in (begin + 1)..(up - 1) : a[i] < pivot
  <2>1. \A i \in (begin + 1)..(up - 1) : i \in (begin + 1)..(end - 1) /\ i < up /\ i \in begin..(end - 1)
    BY <1>3, <1>6, <1>9
  <2> QED BY <1>6, <1>8, <2>1
<1>15. RightReady'
  <2>1. a' = a /\ first' = up /\ pivot' = pivot
    BY <1>1, <1>3, <1>5, <1>13
  <2>2. begin < up /\ pivot <= a[up]
    BY <1>3, <1>6, <1>8, <1>9
  <2> QED BY <1>9, <1>10, <1>13, <1>14, <2>1, <2>2 DEF RightReady
<1>16. Sorting'
  BY <1>11, <1>13, <1>15 DEF Sorting
<1> QED BY <1>13, <1>16 DEF SortInv

LEMMA RightSwapStep == ASSUME SortInv, RightSwap PROVE SortInv'
<1> DEFINE up == Up(first + 1, end, AtLeast(a'))
           down == Down(last - 1, begin, Below(a'))
<1>1. /\ sort_pc = "rightswap" /\ first < last /\ UNCHANGED <<sort_call, loops>>
      /\ a' = Swap(a, first, last) /\ first' = up /\ last' = down
      /\ Found(first' < end /\ last' >= begin, "rightswap")
  BY DEF RightSwap
<1>2. Sorting /\ loops # <<>> /\ RightReady
  BY <1>1 DEF SortInv, Sorting, Dividing
<1>3. /\ Places \in SUBSET Int /\ a \in Arrays(Places)
      /\ begin \in Int /\ end \in Int /\ begin >= 0
      /\ first \in Int /\ last \in Int
      /\ \A i \in begin..(end - 1) : i \in Places /\ a[i] \in Int
      /\ begin < end => begin \in Places /\ pivot \in Int /\ pivot = a[begin]
  BY <1>2, InnermostIs
<1>4. /\ begin < first /\ first < end /\ last < end /\ begin < end
      /\ first \in begin..(end - 1) /\ last \in begin..(end - 1)
      /\ first \in Places /\ last \in Places /\ begin # first /\ begin # last /\ first # last
      /\ pivot <= a[first] /\ a[last] < pivot
  BY <1>1, <1>2, <1>3 DEF RightReady
<1>5. Swapped(Places, a, first, last, a') /\ Shuffled(Places, a, a', begin, end)
  <2>1. Swapped(Places, a, first, last, Swap(a, first, last))
    BY <1>3, <1>4, SwapIs, Zenon
  <2>2. Shuffled(Places, a, Swap(a, first, last), begin, end)
    BY <1>3, <1>4, ShuffledSwap, Zenon
  <2> QED BY <1>1, <2>1, <2>2
<1>6. /\ a'[first] = a[last] /\ a'[last] = a[first] /\ a'[begin] = pivot
      /\ \A i \in begin..(end - 1) : i # first /\ i # last => a'[i] = a[i]
      /\ DOMAIN a' = Places /\ \A i \in begin..(end - 1) : a'[i] \in Int
  <2>1. a' \in Arrays(Places)
    BY <1>5 DEF Swapped
  <2>2. DOMAIN a' = Places /\ \A i \in Places : a'[i] \in Int
    BY <2>1 DEF Arrays
  <2> QED BY <1>3, <1>4, <1>5, <2>2 DEF Swapped
<1>7. /\ \A i \in begin..(end - 1) : i \in AtLeast(a') <=> pivot <= a'[i]
      /\ \A i \in begin..(end - 1) : i \in Below(a') <=> a'[i] < pivot
      /\ \A i \in begin..(end - 1) : a'[i] < pivot \/ pivot <= a'[i]
      /\ \A i \in begin..(end - 1) : a'[i] < pivot => ~ (pivot <= a'[i])
  BY <1>3, <1>4, <1>6 DEF AtLeast, Below
<1>8. /\ up \in Int /\ first + 1 <= up /\ up <= last /\ up \in AtLeast(a')
      /\ \A i \in (first + 1)..(end - 1) : i < up => i \notin AtLeast(a')
  <2>1. last \in (first + 1)..(end - 1) /\ last \in AtLeast(a') /\ first + 1 \in Int /\ first + 1 <= end
    BY <1>1, <1>3, <1>4, <1>6, <1>7
  <2> QED BY <1>3, <2>1, UpIs
<1>9. /\ down \in Int /\ first <= down /\ down <= last - 1 /\ down \in Below(a')
      /\ \A i \in begin..(last - 1) : down < i => i \notin Below(a')
  <2>1. first \in begin..(last - 1) /\ first \in Below(a') /\ last - 1 \in Int /\ begin - 1 <= last - 1
    BY <1>1, <1>3, <1>4, <1>6, <1>7
  <2> QED BY <1>3, <2>1, DownIs
<1> HIDE DEF up, down
<1>10. up \in begin..(end - 1) /\ down \in begin..(end - 1)
  BY <1>3, <1>4, <1>8, <1>9
<1>11. sort_pc' = "rightswap"
  BY <1>1, <1>3, <1>4, <1>8, <1>9 DEF Found
<1>13. /\ SortTypeOK' /\ Shuffled(Places, Given, a, 0, Len(sort_call.s))'
       /\ Stacked' /\ Settled' /\ loops' # <<>>
       /\ begin' = begin /\ end' = end /\ pivot' = a'[begin]
  BY <1>1, <1>2, <1>5, <1>8, <1>9, StaysStep
<1>14. \A i \in (begin + 1)..(up - 1) : a'[i] < pivot
  <2> SUFFICES ASSUME NEW i \in (begin + 1)..(up - 1) PROVE a'[i] < pivot
    OBVIOUS
  <2>1. i \in begin..(end - 1) /\ i \in Int
    BY <1>3, <1>10
  <2>2. CASE i < first
    <3>1. i \in (begin + 1)..(first - 1) /\ i # first /\ i # last
      BY <1>1, <1>3, <2>1, <2>2
    <3> QED BY <1>2, <1>6, <2>1, <3>1 DEF RightReady
  <2>3. CASE i = first
    BY <1>4, <1>6, <2>3
  <2>4. CASE i > first
    <3>1. i \in (first + 1)..(end - 1) /\ i < up
      BY <1>3, <1>8, <2>1, <2>4
    <3> QED BY <1>7, <1>8, <2>1, <3>1
  <2> QED BY <1>3, <2>1, <2>2, <2>3, <2>4
<1>15. \A i \in (down + 1)..(end - 1) : pivot <= a'[i]
  <2> SUFFICES ASSUME NEW i \in (down + 1)..(end - 1) PROVE pivot <= a'[i]
    OBVIOUS
  <2>1. i \in begin..(end - 1) /\ i \in Int
    BY <1>3, <1>10
  <2>2. CASE i > last
    <3>1. i \in (last + 1)..(end - 1) /\ i # first /\ i # last
      BY <1>1, <1>3, <2>1, <2>2
    <3> QED BY <1>2, <1>6, <2>1, <3>1 DEF RightReady
  <2>3. CASE i = last
    BY <1>4, <1>6, <2>3
  <2>4. CASE i < last
    <3>1. i \in begin..(last - 1) /\ down < i
      BY <1>3, <1>9, <2>1, <2>4
    <3> QED BY <1>7, <1>9, <2>1, <3>1
  <2> QED BY <1>3, <2>1, <2>2, <2>3, <2>4
<1>16. RightReady'
  <2>1. begin < up /\ up < end /\ down < end /\ pivot <= a'[up] /\ a'[down] < pivot
    BY <1>3, <1>4, <1>7, <1>8, <1>9, <1>10
  <2> QED BY <1>1, <1>6, <1>13, <1>14, <1>15, <2>1 DEF RightReady
<1>17. Sorting'
  BY <1>11, <1>13, <1>16 DEF Sorting
<1> QED BY <1>13, <1>17 DEF SortInv

LEMMA RightPlaceStep == ASSUME SortInv, RightPlace PROVE SortInv'
<1>1. /\ sort_pc = "rightswap" /\ first >= last /\ UNCHANGED <<sort_call, loops, first, last>>
      /\ a' = Swap(a, begin, first - 1) /\ sort_pc' = "balance"
  BY DEF RightPlace
<1>2. Sorting /\ loops # <<>> /\ RightReady
  BY <1>1 DEF SortInv, Sorting, Dividing
<1>3. /\ Places \in SUBSET Int /\ a \in Arrays(Places)
      /\ begin \in Int /\ end \in Int /\ begin >= 0
      /\ first \in Int /\ last \in Int
      /\ \A i \in begin..(end - 1) : i \in Places /\ a[i] \in Int
      /\ begin < end => begin \in Places /\ pivot \in Int /\ pivot = a[begin]
  BY <1>2, InnermostIs
<1>4. /\ begin < first /\ first < end /\ last < end /\ begin < end
      /\ begin \in Places /\ first - 1 \in Places /\ first \in Places
      /\ begin \in begin..(end - 1) /\ first - 1 \in begin..(end - 1)
      /\ first \in begin..(end - 1)
      /\ pivot <= a[first]
  BY <1>2, <1>3 DEF RightReady
<1>5. Swapped(Places, a, begin, first - 1, a') /\ Shuffled(Places, a, a', begin, end)
  <2>1. Swapped(Places, a, begin, first - 1, Swap(a, begin, first - 1))
    BY <1>3, <1>4, SwapIs, Zenon
  <2>2. Shuffled(Places, a, Swap(a, begin, first - 1), begin, end)
    BY <1>3, <1>4, ShuffledSwap, Zenon
  <2> QED BY <1>1, <2>1, <2>2
<1>6. /\ a'[begin] = a[first - 1] /\ a'[first - 1] = pivot
      /\ \A i \in begin..(end - 1) : i # begin /\ i # first - 1 => a'[i] = a[i]
  BY <1>3, <1>4, <1>5 DEF Swapped
<1>7. Parted(a', begin, first - 1, end)
  <2>1. ASSUME NEW i \in begin..(first - 1 - 1) PROVE a'[i] <= a'[first - 1]
    <3>1. i \in begin..(end - 1) /\ i # first - 1 /\ first - 1 \in (begin + 1)..(first - 1)
      BY <1>3, <1>4
    <3>2. CASE i = begin
      <4>1. a[first - 1] < pivot
        BY <1>2, <3>1 DEF RightReady
      <4> QED BY <1>3, <1>4, <1>6, <3>2, <4>1
    <3>3. CASE i # begin
      <4>1. i \in (begin + 1)..(first - 1)
        BY <1>3, <3>3
      <4>2. a[i] < pivot
        BY <1>2, <4>1 DEF RightReady
      <4> QED BY <1>3, <1>4, <1>6, <3>1, <3>3, <4>2
    <3> QED BY <3>2, <3>3
  <2>2. ASSUME NEW j \in (first - 1 + 1)..(end - 1) PROVE a'[first - 1] <= a'[j]
    <3>1. j \in begin..(end - 1) /\ j # begin /\ j # first - 1 /\ j \in Int
      BY <1>3, <1>4
    <3>2. a'[j] = a[j]
      BY <1>6, <3>1
    <3>3. CASE j = first
      BY <1>4, <1>6, <3>2, <3>3
    <3>4. CASE j # first
      <4>1. j \in (last + 1)..(end - 1)
        BY <1>1, <1>3, <3>1, <3>4
      <4> QED BY <1>2, <1>6, <3>2, <4>1 DEF RightReady
    <3> QED BY <3>3, <3>4
  <2> QED BY <2>1, <2>2 DEF Parted
<1>8. /\ SortTypeOK' /\ Shuffled(Places, Given, a, 0, Len(sort_call.s))'
      /\ Stacked' /\ Settled' /\ loops' # <<>>
      /\ begin' = begin /\ end' = end
  BY <1>1, <1>2, <1>3, <1>5, StaysStep
<1>9. pivot_pos' = first - 1
  BY <1>1 DEF pivot_pos
<1>10. Sorting'
  BY <1>1, <1>4, <1>7, <1>8, <1>9 DEF Sorting
<1> QED BY <1>8, <1>10 DEF SortInv

-----------------------------------------------------------------------------
(* partition_left. *)

LEMMA LeftSearchStep == ASSUME SortInv, LeftSearch PROVE SortInv'
<1> DEFINE down == Down(end - 1, begin, AtMost(a))
           top == IF down + 1 = end THEN down ELSE end
           up == Up(begin + 1, top, Above(a))
<1>1. /\ sort_pc = "left" /\ UNCHANGED <<sort_call, a, loops>>
      /\ last' = down /\ first' = up
      /\ Found(last' >= begin /\ first' < end, "leftswap")
  <2>1. /\ sort_pc = "left" /\ UNCHANGED <<sort_call, a, loops>> /\ last' = down
        /\ first' = IF last' + 1 = end THEN Up(begin + 1, last', Above(a))
                                       ELSE Up(begin + 1, end, Above(a))
        /\ Found(last' >= begin /\ first' < end, "leftswap")
    BY DEF LeftSearch
  <2> HIDE DEF down
  <2> QED BY <2>1
<1>2. Sorting /\ loops # <<>> /\ PivotLeast /\ begin < end - 1
  BY <1>1 DEF SortInv, Sorting, Dividing
<1>3. /\ Places \in SUBSET Int /\ a \in Arrays(Places) /\ DOMAIN a = Places
      /\ begin \in Int /\ end \in Int /\ begin >= 0 /\ begin < end
      /\ \A i \in begin..(end - 1) : i \in Places /\ a[i] \in Int
      /\ pivot \in Int /\ pivot = a[begin]
  BY <1>2, InnermostIs
<1>4. /\ \A i \in begin..(end - 1) : i \in AtMost(a) <=> a[i] <= pivot
      /\ \A i \in begin..(end - 1) : i \in Above(a) <=> pivot < a[i]
      /\ \A i \in begin..(end - 1) : a[i] <= pivot \/ pivot < a[i]
      /\ begin \in begin..(end - 1) /\ begin \in AtMost(a)
  BY <1>3 DEF AtMost, Above
<1>5. /\ down \in Int /\ begin <= down /\ down <= end - 1 /\ down \in AtMost(a)
      /\ \A i \in begin..(end - 1) : down < i => i \notin AtMost(a)
  <2>1. end - 1 \in Int /\ begin - 1 <= end - 1
    BY <1>3
  <2> QED BY <1>3, <1>4, <2>1, DownIs
<1> HIDE DEF down
<1>6. down \in begin..(end - 1)
  BY <1>3, <1>5
<1>7. top \in Int /\ begin + 1 <= top /\ top <= end
  BY <1>2, <1>3, <1>5
<1>8. /\ up \in Int /\ begin + 1 <= up /\ up <= top
      /\ up = top \/ up \in Above(a)
      /\ \A i \in (begin + 1)..(top - 1) : i < up => i \notin Above(a)
      /\ \A i \in (begin + 1)..(top - 1) : i \in Above(a) => up <= i /\ up \in Above(a)
  BY <1>3, <1>7, UpIs
<1>9. up < end /\ (up < down => up \in Above(a))
  <2>1. CASE down + 1 = end
    BY <1>3, <1>5, <1>8, <2>1
  <2>2. CASE down + 1 # end
    <3>1. top = end
      BY <2>2
    <3> HIDE DEF top
    <3>2. down + 1 \in (begin + 1)..(end - 1) /\ down + 1 \in begin..(end - 1) /\ down < down + 1
      BY <1>3, <1>5, <2>2
    <3>3. down + 1 \in Above(a)
      BY <1>4, <1>5, <3>2
    <3>4. up <= down + 1 /\ up \in Above(a)
      BY <1>8, <3>1, <3>2, <3>3
    <3> HIDE DEF up
    <3> QED BY <1>3, <1>5, <1>8, <2>2, <3>4
  <2> QED BY <2>1, <2>2
<1> HIDE DEF up, top
<1>10. up \in begin..(end - 1)
  BY <1>3, <1>8, <1>9
<1>11. sort_pc' = "leftswap"
  BY <1>1, <1>5, <1>9 DEF Found
<1>12. Shuffled(Places, a, a', begin, end)
  BY <1>1, <1>3, ShuffledNot
<1>13. /\ SortTypeOK' /\ Shuffled(Places, Given, a, 0, Len(sort_call.s))'
       /\ Stacked' /\ Settled' /\ loops' # <<>>
       /\ begin' = begin /\ end' = end /\ pivot' = a'[begin]
  BY <1>1, <1>2, <1>5, <1>8, <1>12, StaysStep
<1>14. a' = a /\ first' = up /\ last' = down /\ pivot' = pivot /\ loops' = loops
  BY <1>1, <1>3, <1>13
<1>15. LeftReady'
  <2>1. \A i \in (begin + 1)..(up - 1) : a[i] <= pivot
    <3>1. \A i \in (begin + 1)..(up - 1) : i \in (begin + 1)..(top - 1) /\ i < up /\ i \in begin..(end - 1)
      BY <1>3, <1>7, <1>8
    <3> QED BY <1>4, <1>8, <3>1
  <2>2. \A i \in (down + 1)..(end - 1) : pivot < a[i]
    <3>1. \A i \in (down + 1)..(end - 1) : i \in begin..(end - 1) /\ down < i
      BY <1>3, <1>5
    <3> QED BY <1>4, <1>5, <3>1
  <2>3. /\ begin < up /\ up < end /\ begin <= down /\ down < end
        /\ a[down] <= pivot /\ (up < down => pivot < a[up])
    BY <1>3, <1>4, <1>5, <1>6, <1>8, <1>9, <1>10
  <2> QED BY <1>13, <1>14, <2>1, <2>2, <2>3 DEF LeftReady
<1>16. PivotLeast'
  BY <1>2, <1>13, <1>14 DEF PivotLeast
<1>17. Sorting'
  BY <1>11, <1>13, <1>15, <1>16 DEF Sorting
<1> QED BY <1>13, <1>17 DEF SortInv

LEMMA LeftSwapStep == ASSUME SortInv, LeftSwap PROVE SortInv'
<1> DEFINE down == Down(last - 1, begin, AtMost(a'))
           up == Up(first + 1, end, Above(a'))
<1>1. /\ sort_pc = "leftswap" /\ first < last /\ UNCHANGED <<sort_call, loops>>
      /\ a' = Swap(a, first, last) /\ first' = up /\ last' = down
      /\ Found(last' >= begin /\ first' < end, "leftswap")
  BY DEF LeftSwap
<1>2. Sorting /\ loops # <<>> /\ LeftReady /\ PivotLeast
  BY <1>1 DEF SortInv, Sorting, Dividing
<1>3. /\ Places \in SUBSET Int /\ a \in Arrays(Places)
      /\ begin \in Int /\ end \in Int /\ begin >= 0
      /\ first \in Int /\ last \in Int
      /\ \A i \in begin..(end - 1) : i \in Places /\ a[i] \in Int
      /\ begin < end => begin \in Places /\ pivot \in Int /\ pivot = a[begin]
  BY <1>2, InnermostIs
<1>4. /\ begin < first /\ first < end /\ last < end /\ begin < end
      /\ first \in begin..(end - 1) /\ last \in begin..(end - 1)
      /\ first \in Places /\ last \in Places /\ begin # first /\ begin # last /\ first # last
      /\ a[last] <= pivot /\ pivot < a[first]
  BY <1>1, <1>2, <1>3 DEF LeftReady
<1>5. Swapped(Places, a, first, last, a') /\ Shuffled(Places, a, a', begin, end)
  <2>1. Swapped(Places, a, first, last, Swap(a, first, last))
    BY <1>3, <1>4, SwapIs, Zenon
  <2>2. Shuffled(Places, a, Swap(a, first, last), begin, end)
    BY <1>3, <1>4, ShuffledSwap, Zenon
  <2> QED BY <1>1, <2>1, <2>2
<1>6. /\ a'[first] = a[last] /\ a'[last] = a[first] /\ a'[begin] = pivot
      /\ \A i \in begin..(end - 1) : i # first /\ i # last => a'[i] = a[i]
      /\ DOMAIN a' = Places /\ \A i \in begin..(end - 1) : a'[i] \in Int
  <2>1. a' \in Arrays(Places)
    BY <1>5 DEF Swapped
  <2>2. DOMAIN a' = Places /\ \A i \in Places : a'[i] \in Int
    BY <2>1 DEF Arrays
  <2> QED BY <1>3, <1>4, <1>5, <2>2 DEF Swapped
<1>7. /\ \A i \in begin..(end - 1) : i \in AtMost(a') <=> a'[i] <= pivot
      /\ \A i \in begin..(end - 1) : i \in Above(a') <=> pivot < a'[i]
      /\ \A i \in begin..(end - 1) : a'[i] <= pivot \/ pivot < a'[i]
  BY <1>3, <1>4, <1>6 DEF AtMost, Above
<1>8. /\ up \in Int /\ first + 1 <= up /\ up <= last /\ up \in Above(a')
      /\ \A i \in (first + 1)..(end - 1) : i < up => i \notin Above(a')
  <2>1. last \in (first + 1)..(end - 1) /\ last \in Above(a') /\ first + 1 \in Int /\ first + 1 <= end
    BY <1>1, <1>3, <1>4, <1>6, <1>7
  <2> QED BY <1>3, <2>1, UpIs
<1>9. /\ down \in Int /\ first <= down /\ down <= last - 1 /\ down \in AtMost(a')
      /\ \A i \in begin..(last - 1) : down < i => i \notin AtMost(a')
  <2>1. first \in begin..(last - 1) /\ first \in AtMost(a') /\ last - 1 \in Int /\ begin - 1 <= last - 1
    BY <1>1, <1>3, <1>4, <1>6, <1>7
  <2> QED BY <1>3, <2>1, DownIs
<1> HIDE DEF up, down
<1>10. up \in begin..(end - 1) /\ down \in begin..(end - 1)
  BY <1>3, <1>4, <1>8, <1>9
<1>11. sort_pc' = "leftswap"
  BY <1>1, <1>3, <1>4, <1>8, <1>9 DEF Found
<1>13. /\ SortTypeOK' /\ Shuffled(Places, Given, a, 0, Len(sort_call.s))'
       /\ Stacked' /\ Settled' /\ loops' # <<>>
       /\ begin' = begin /\ end' = end /\ pivot' = a'[begin]
  BY <1>1, <1>2, <1>5, <1>8, <1>9, StaysStep
<1>14. \A i \in (begin + 1)..(up - 1) : a'[i] <= pivot
  <2> SUFFICES ASSUME NEW i \in (begin + 1)..(up - 1) PROVE a'[i] <= pivot
    OBVIOUS
  <2>1. i \in begin..(end - 1) /\ i \in Int
    BY <1>3, <1>10
  <2>2. CASE i < first
    <3>1. i \in (begin + 1)..(first - 1) /\ i # first /\ i # last
      BY <1>1, <1>3, <2>1, <2>2
    <3> QED BY <1>2, <1>6, <2>1, <3>1 DEF LeftReady
  <2>3. CASE i = first
    BY <1>4, <1>6, <2>3
  <2>4. CASE i > first
    <3>1. i \in (first + 1)..(end - 1) /\ i < up
      BY <1>3, <1>8, <2>1, <2>4
    <3> QED BY <1>7, <1>8, <2>1, <3>1
  <2> QED BY <1>3, <2>1, <2>2, <2>3, <2>4
<1>15. \A i \in (down + 1)..(end - 1) : pivot < a'[i]
  <2> SUFFICES ASSUME NEW i \in (down + 1)..(end - 1) PROVE pivot < a'[i]
    OBVIOUS
  <2>1. i \in begin..(end - 1) /\ i \in Int
    BY <1>3, <1>10
  <2>2. CASE i > last
    <3>1. i \in (last + 1)..(end - 1) /\ i # first /\ i # last
      BY <1>1, <1>3, <2>1, <2>2
    <3> QED BY <1>2, <1>6, <2>1, <3>1 DEF LeftReady
  <2>3. CASE i = last
    BY <1>4, <1>6, <2>3
  <2>4. CASE i < last
    <3>1. i \in begin..(last - 1) /\ down < i
      BY <1>3, <1>9, <2>1, <2>4
    <3> QED BY <1>7, <1>9, <2>1, <3>1
  <2> QED BY <1>3, <2>1, <2>2, <2>3, <2>4
<1>16. LeftReady'
  <2>1. /\ begin < up /\ up < end /\ begin <= down /\ down < end
        /\ a'[down] <= pivot /\ pivot < a'[up]
    BY <1>3, <1>4, <1>7, <1>8, <1>9, <1>10
  <2> QED BY <1>1, <1>6, <1>13, <1>14, <1>15, <2>1 DEF LeftReady
<1>17. PivotLeast'
  <2>1. \A i \in begin..(end - 1) : pivot <= a'[i]
    <3>1. \A i \in begin..(end - 1) : pivot <= a[i]
      BY <1>2 DEF PivotLeast
    <3> QED BY <1>4, <1>6, <3>1
  <2> QED BY <1>1, <1>2, <1>6, <1>13, <2>1 DEF PivotLeast
<1>18. Sorting'
  BY <1>11, <1>13, <1>16, <1>17 DEF Sorting
<1> QED BY <1>13, <1>18 DEF SortInv

LEMMA LeftPlaceStep == ASSUME SortInv, LeftPlace PROVE SortInv'
<1>1. /\ sort_pc = "leftswap" /\ first >= last /\ sort_call' = sort_call
      /\ first' = first /\ last' = last
      /\ a' = Swap(a, begin, last) /\ sort_pc' = "loop"
      /\ loops' = [loops EXCEPT ![1].begin = last + 1]
  BY DEF LeftPlace
<1>2. Sorting /\ loops # <<>> /\ LeftReady /\ PivotLeast
  BY <1>1 DEF SortInv, Sorting, Dividing
<1>3. /\ SortTypeOK /\ Stacked /\ Settled
      /\ Places \in SUBSET Int /\ a \in Arrays(Places)
      /\ begin \in Int /\ end \in Int /\ begin >= 0
      /\ first \in Int /\ last \in Int
      /\ \A i \in begin..(end - 1) : i \in Places /\ a[i] \in Int
      /\ begin < end => begin \in Places /\ pivot \in Int /\ pivot = a[begin]
  BY <1>2, InnermostIs
<1>4. /\ begin < first /\ first < end /\ begin <= last /\ last < end /\ begin < end
      /\ begin \in Places /\ last \in Places
      /\ begin \in begin..(end - 1) /\ last \in begin..(end - 1)
      /\ a[last] <= pivot
  BY <1>2, <1>3 DEF LeftReady
<1>5. Swapped(Places, a, begin, last, a') /\ Shuffled(Places, a, a', begin, end)
  <2>1. Swapped(Places, a, begin, last, Swap(a, begin, last))
    BY <1>3, <1>4, SwapIs, Zenon
  <2>2. Shuffled(Places, a, Swap(a, begin, last), begin, end)
    BY <1>3, <1>4, ShuffledSwap, Zenon
  <2> QED BY <1>1, <2>1, <2>2
<1>6. /\ a'[begin] = a[last] /\ a'[last] = pivot
      /\ \A i \in begin..(end - 1) : i # begin /\ i # last => a'[i] = a[i]
  BY <1>3, <1>4, <1>5 DEF Swapped
<1>7. ASSUME NEW j \in begin..(end - 1) PROVE pivot <= a'[j] /\ a'[j] \in Int
  BY <1>2, <1>3, <1>4, <1>6 DEF PivotLeast
<1>8. ASSUME NEW i \in begin..last PROVE a'[i] <= pivot /\ a'[i] \in Int
  <2>1. i \in begin..(end - 1) /\ i \in Int
    BY <1>3, <1>4
  <2>2. CASE i # begin /\ i # last
    <3>1. i \in (begin + 1)..(first - 1)
      BY <1>1, <1>3, <2>1, <2>2
    <3> QED BY <1>2, <1>3, <1>6, <2>1, <2>2, <3>1 DEF LeftReady
  <2> QED BY <1>3, <1>4, <1>6, <2>1, <2>2
<1>9. \A i \in begin..last : \A j \in begin..(end - 1) : a'[i] <= a'[j]
  BY <1>3, <1>4, <1>7, <1>8
<1>10. LoopsOK' /\ loops' # <<>>
  BY <1>1, <1>2, <1>3, <1>4, <1>5, <1>9, LoopShrinks, Zenon
<1>11. SortTypeOK' /\ Shuffled(Places, Given, a, 0, Len(sort_call.s))'
  <2>1. first' \in Int /\ last' \in Int /\ \E bads : loops' \in Seq(Loop(bads))
    BY <1>1, <1>3, <1>10 DEF LoopsOK
  <2> QED BY <1>1, <1>2, <1>3, <1>5, <2>1, ElementsKept, Zenon
<1>12. Sorting'
  BY <1>1, <1>10 DEF Sorting, LoopsOK
<1> QED BY <1>11, <1>12 DEF SortInv

-----------------------------------------------------------------------------
(* The heap sort, and the parts. *)

LEMMA HeapSortStep == ASSUME SortInv, HeapSort PROVE SortInv'
<1>1. /\ sort_pc = "balance" /\ sort_call' = sort_call /\ a' = Ordered(begin, end) /\ Return
      /\ UNCHANGED <<first, last>>
  BY DEF HeapSort
<1>2. Sorting /\ loops # <<>>
  BY <1>1 DEF SortInv, Sorting, Dividing
<1>3. /\ Places \in SUBSET Int /\ a \in Arrays(Places) /\ begin \in Int /\ end \in Int /\ begin <= end
      /\ \A i \in begin..(end - 1) : i \in Places
  BY <1>2, InnermostIs
<1>4. OrderedBy(Places, begin, end, a')
  BY <1>1, <1>3, OrderedIs, Zenon
<1>5. Shuffled(Places, a, a', begin, end) /\ Rising(a', begin, end)
  BY <1>4 DEF OrderedBy
<1> QED BY <1>1, <1>2, <1>5, ReturnStep

(* The parts are shuffled each for itself. *)
LEMMA PartsShuffled ==
  ASSUME NEW D \in SUBSET Int, NEW m \in Arrays(D), NEW m1, NEW m2,
         NEW lo \in Int, NEW p \in Int, NEW hi \in Int, lo <= p, p < hi,
         \A i \in lo..(hi - 1) : i \in D,
         Shuffled(D, m, m1, lo, p), Shuffled(D, m1, m2, p + 1, hi),
         Parted(m, lo, p, hi)
  PROVE  Shuffled(D, m, m2, lo, hi) /\ Parted(m2, lo, p, hi)
<1>1. Shuffled(D, m, m2, lo, hi)
  <2>1. p + 1 \in Int /\ lo <= p + 1 /\ lo <= lo /\ p <= hi /\ hi <= hi
    OBVIOUS
  <2>2. Shuffled(D, m, m1, lo, hi)
    BY <2>1, ShuffledWithin, Zenon
  <2>3. Shuffled(D, m1, m2, lo, hi)
    BY <2>1, ShuffledWithin, Zenon
  <2> QED BY <2>2, <2>3, ShuffledTwice, Zenon
<1>2. Contained(D, m, m1, lo, p) /\ Contained(D, m1, m2, p + 1, hi)
  BY ShuffledPlaces, Zenon
<1>3. p \in D /\ p \notin lo..(p - 1) /\ p \notin (p + 1)..(hi - 1)
  <2>1. p \in lo..(hi - 1)
    OBVIOUS
  <2> QED BY <2>1
<1>4. m2[p] = m[p]
  BY <1>2, <1>3 DEF Contained
<1>5. ASSUME NEW i \in lo..(p - 1) PROVE m2[i] <= m2[p]
  <2>1. i \in D /\ i \notin (p + 1)..(hi - 1)
    <3>1. i \in lo..(hi - 1) /\ i \notin (p + 1)..(hi - 1)
      OBVIOUS
    <3> QED BY <3>1
  <2>2. m2[i] = m1[i]
    BY <1>2, <2>1 DEF Contained
  <2>3. PICK j \in D : j \in lo..(p - 1) /\ m1[i] = m[j]
    BY <1>2, <2>1 DEF Contained
  <2> QED BY <1>4, <2>2, <2>3 DEF Parted
<1>6. ASSUME NEW i \in (p + 1)..(hi - 1) PROVE m2[p] <= m2[i]
  <2>1. i \in D
    <3>1. i \in lo..(hi - 1)
      OBVIOUS
    <3> QED BY <3>1
  <2>2. PICK j \in D : j \in (p + 1)..(hi - 1) /\ m2[i] = m1[j]
    BY <1>2, <2>1 DEF Contained
  <2>3. j \notin lo..(p - 1)
    BY <2>2
  <2>4. m1[j] = m[j]
    BY <1>2, <2>2, <2>3 DEF Contained
  <2> QED BY <1>4, <2>2, <2>4 DEF Parted
<1>7. Parted(m2, lo, p, hi)
  BY <1>5, <1>6 DEF Parted
<1> QED BY <1>1, <1>7

(* One exchange more. *)
Within(D, lo, hi) == {i \in D : i \in lo..(hi - 1)}

LEMMA ShuffledMore ==
  ASSUME NEW D, NEW lo, NEW hi, NEW m, NEW m1, Shuffled(D, m, m1, lo, hi),
         NEW i \in Within(D, lo, hi), NEW j \in Within(D, lo, hi)
  PROVE  Shuffled(D, m, Swap(m1, i, j), lo, hi)
<1>1. m1 \in Arrays(D) /\ i \in D /\ j \in D /\ i \in lo..(hi - 1) /\ j \in lo..(hi - 1)
  BY DEF Shuffled, Within
<1>2. Shuffled(D, m1, Swap(m1, i, j), lo, hi)
  BY <1>1, ShuffledSwap, Zenon
<1> QED BY <1>2, ShuffledTwice, Zenon

LEMMA ShuffleLeftIs ==
  ASSUME NEW D, NEW m \in Arrays(D), begin \in Int, end \in Int, pivot_pos \in Int,
         \A i \in begin..(pivot_pos - 1) : i \in D
  PROVE  Shuffled(D, m, ShuffleLeft(m), begin, pivot_pos)
<1> DEFINE quarter == l_size \div 4
           g1 == Swap(m, begin, begin + quarter)
           g2 == Swap(g1, pivot_pos - 1, pivot_pos - quarter)
           g3 == Swap(g2, begin + 1, begin + quarter + 1)
           g4 == Swap(g3, begin + 2, begin + quarter + 2)
           g5 == Swap(g4, pivot_pos - 2, pivot_pos - (quarter + 1))
           g6 == Swap(g5, pivot_pos - 3, pivot_pos - (quarter + 2))
           S == Within(D, begin, pivot_pos)
<1>1. ShuffleLeft(m) = m \/ (l_size >= insertion_sort_threshold
                             /\ (ShuffleLeft(m) = g2 \/ ShuffleLeft(m) = g6))
  <2>1. l_size \in Int /\ insertion_sort_threshold \in Int
    BY SortAssumption DEF l_size
  <2>2. ShuffleLeft(m) = IF l_size < insertion_sort_threshold THEN m
                         ELSE IF l_size > ninther_threshold THEN g6 ELSE g2
    BY DEF ShuffleLeft
  <2> HIDE DEF g2, g6
  <2> QED BY <2>1, <2>2
<1>2. CASE ShuffleLeft(m) = m
  BY <1>2, ShuffledNot, Zenon
<1>3. CASE l_size >= insertion_sort_threshold
  <2>1. l_size = pivot_pos - begin /\ l_size \in Int /\ l_size >= 4
    BY <1>3, SortAssumption DEF l_size
  <2>2. quarter \in Int /\ 4 * quarter <= l_size /\ 1 <= quarter
    BY <2>1
  <2> HIDE DEF quarter
  <2>3. \A i : i \in begin..(pivot_pos - 1) => i \in S
    BY DEF Within
  <2>4. /\ begin \in S /\ begin + quarter \in S /\ pivot_pos - 1 \in S /\ pivot_pos - quarter \in S
        /\ begin + 1 \in S /\ begin + quarter + 1 \in S /\ begin + 2 \in S /\ begin + quarter + 2 \in S
        /\ pivot_pos - 2 \in S /\ pivot_pos - (quarter + 1) \in S
        /\ pivot_pos - 3 \in S /\ pivot_pos - (quarter + 2) \in S
    <3> HIDE DEF S
    <3> QED BY <2>1, <2>2, <2>3
  <2>5. Shuffled(D, m, m, begin, pivot_pos)
    BY ShuffledNot, Zenon
  <2>6. Shuffled(D, m, g1, begin, pivot_pos)
    BY <2>4, <2>5, ShuffledMore, Zenon
  <2> HIDE DEF g1
  <2>7. Shuffled(D, m, g2, begin, pivot_pos)
    BY <2>4, <2>6, ShuffledMore, Zenon
  <2> HIDE DEF g2
  <2>8. Shuffled(D, m, g3, begin, pivot_pos)
    BY <2>4, <2>7, ShuffledMore, Zenon
  <2> HIDE DEF g3
  <2>9. Shuffled(D, m, g4, begin, pivot_pos)
    BY <2>4, <2>8, ShuffledMore, Zenon
  <2> HIDE DEF g4
  <2>10. Shuffled(D, m, g5, begin, pivot_pos)
    BY <2>4, <2>9, ShuffledMore, Zenon
  <2> HIDE DEF g5
  <2>11. Shuffled(D, m, g6, begin, pivot_pos)
    BY <2>4, <2>10, ShuffledMore, Zenon
  <2> HIDE DEF g6
  <2> QED BY <1>1, <1>2, <2>7, <2>11, Zenon
<1> HIDE DEF g2, g6
<1> QED BY <1>1, <1>2, <1>3, Zenon

LEMMA ShuffleRightIs ==
  ASSUME NEW D, NEW m \in Arrays(D), end \in Int, pivot_pos \in Int,
         \A i \in (pivot_pos + 1)..(end - 1) : i \in D
  PROVE  Shuffled(D, m, ShuffleRight(m), pivot_pos + 1, end)
<1> DEFINE quarter == r_size \div 4
           g1 == Swap(m, pivot_pos + 1, pivot_pos + 1 + quarter)
           g2 == Swap(g1, end - 1, end - quarter)
           g3 == Swap(g2, pivot_pos + 2, pivot_pos + 2 + quarter)
           g4 == Swap(g3, pivot_pos + 3, pivot_pos + 3 + quarter)
           g5 == Swap(g4, end - 2, end - (1 + quarter))
           g6 == Swap(g5, end - 3, end - (2 + quarter))
           S == Within(D, pivot_pos + 1, end)
<1>1. ShuffleRight(m) = m \/ (r_size >= insertion_sort_threshold
                              /\ (ShuffleRight(m) = g2 \/ ShuffleRight(m) = g6))
  <2>1. r_size \in Int /\ insertion_sort_threshold \in Int
    BY SortAssumption DEF r_size
  <2>2. ShuffleRight(m) = IF r_size < insertion_sort_threshold THEN m
                         ELSE IF r_size > ninther_threshold THEN g6 ELSE g2
    BY DEF ShuffleRight
  <2> HIDE DEF g2, g6
  <2> QED BY <2>1, <2>2
<1>2. CASE ShuffleRight(m) = m
  BY <1>2, ShuffledNot, Zenon
<1>3. CASE r_size >= insertion_sort_threshold
  <2>1. r_size = end - (pivot_pos + 1) /\ r_size \in Int /\ r_size >= 4
    BY <1>3, SortAssumption DEF r_size
  <2>2. quarter \in Int /\ 4 * quarter <= r_size /\ 1 <= quarter
    BY <2>1
  <2> HIDE DEF quarter
  <2>3. \A i : i \in (pivot_pos + 1)..(end - 1) => i \in S
    BY DEF Within
  <2>4. /\ pivot_pos + 1 \in S /\ pivot_pos + 1 + quarter \in S /\ end - 1 \in S /\ end - quarter \in S
        /\ pivot_pos + 2 \in S /\ pivot_pos + 2 + quarter \in S
        /\ pivot_pos + 3 \in S /\ pivot_pos + 3 + quarter \in S
        /\ end - 2 \in S /\ end - (1 + quarter) \in S
        /\ end - 3 \in S /\ end - (2 + quarter) \in S
    <3> HIDE DEF S
    <3> QED BY <2>1, <2>2, <2>3
  <2>5. Shuffled(D, m, m, pivot_pos + 1, end)
    BY ShuffledNot, Zenon
  <2>6. Shuffled(D, m, g1, pivot_pos + 1, end)
    BY <2>4, <2>5, ShuffledMore, Zenon
  <2> HIDE DEF g1
  <2>7. Shuffled(D, m, g2, pivot_pos + 1, end)
    BY <2>4, <2>6, ShuffledMore, Zenon
  <2> HIDE DEF g2
  <2>8. Shuffled(D, m, g3, pivot_pos + 1, end)
    BY <2>4, <2>7, ShuffledMore, Zenon
  <2> HIDE DEF g3
  <2>9. Shuffled(D, m, g4, pivot_pos + 1, end)
    BY <2>4, <2>8, ShuffledMore, Zenon
  <2> HIDE DEF g4
  <2>10. Shuffled(D, m, g5, pivot_pos + 1, end)
    BY <2>4, <2>9, ShuffledMore, Zenon
  <2> HIDE DEF g5
  <2>11. Shuffled(D, m, g6, pivot_pos + 1, end)
    BY <2>4, <2>10, ShuffledMore, Zenon
  <2> HIDE DEF g6
  <2> QED BY <1>1, <1>2, <2>7, <2>11, Zenon
<1> HIDE DEF g2, g6
<1> QED BY <1>1, <1>2, <1>3, Zenon

(* Where the parts are. *)
LEMMA PartsAre ==
  ASSUME SortInv, Sorting, loops # <<>>, sort_pc = "balance"
  PROVE  /\ Places \in SUBSET Int /\ a \in Arrays(Places)
         /\ begin \in Int /\ end \in Int /\ pivot_pos \in Int /\ begin < first /\ first < end
         /\ begin <= pivot_pos /\ pivot_pos < end /\ pivot_pos + 1 <= end
         /\ pivot_pos + 1 \in Int
         /\ Parted(a, begin, pivot_pos, end)
         /\ \A i \in begin..(end - 1) : i \in Places
         /\ \A i \in begin..(pivot_pos - 1) : i \in Places
         /\ \A i \in (pivot_pos + 1)..(end - 1) : i \in Places
<1>1. /\ Places \in SUBSET Int /\ a \in Arrays(Places)
      /\ begin \in Int /\ end \in Int /\ first \in Int
      /\ \A i \in begin..(end - 1) : i \in Places
  BY InnermostIs
<1>2. begin < first /\ first < end /\ Parted(a, begin, pivot_pos, end)
  BY DEF Sorting
<1>3. pivot_pos \in Int /\ begin <= pivot_pos /\ pivot_pos < end
  BY <1>1, <1>2 DEF pivot_pos
<1>4. \A i \in begin..(pivot_pos - 1) : i \in begin..(end - 1)
  BY <1>1, <1>3
<1>5. \A i \in (pivot_pos + 1)..(end - 1) : i \in begin..(end - 1)
  BY <1>1, <1>3
<1> QED BY <1>1, <1>2, <1>3, <1>4, <1>5

LEMMA ShuffleStep == ASSUME SortInv, Shuffle PROVE SortInv'
<1>1. /\ sort_pc = "balance" /\ sort_call' = sort_call
      /\ a' = ShuffleRight(ShuffleLeft(a)) /\ SplitLoop(Head(loops).bad - 1)
      /\ UNCHANGED <<first, last>>
  BY DEF Shuffle
<1>2. Sorting /\ loops # <<>>
  BY <1>1 DEF SortInv, Sorting, Dividing
<1>3. /\ Places \in SUBSET Int /\ a \in Arrays(Places)
      /\ begin \in Int /\ end \in Int /\ pivot_pos \in Int /\ begin < first /\ first < end
      /\ begin <= pivot_pos /\ pivot_pos < end
      /\ Parted(a, begin, pivot_pos, end)
      /\ \A i \in begin..(end - 1) : i \in Places
      /\ \A i \in begin..(pivot_pos - 1) : i \in Places
      /\ \A i \in (pivot_pos + 1)..(end - 1) : i \in Places
  BY <1>1, <1>2, PartsAre
<1>4. Shuffled(Places, a, ShuffleLeft(a), begin, pivot_pos)
  BY <1>3, ShuffleLeftIs, Zenon
<1>5. ShuffleLeft(a) \in Arrays(Places)
  BY <1>4 DEF Shuffled
<1>6. Shuffled(Places, ShuffleLeft(a), a', pivot_pos + 1, end)
  BY <1>1, <1>3, <1>5, ShuffleRightIs, Zenon
<1>7. Shuffled(Places, a, a', begin, end) /\ Parted(a', begin, pivot_pos, end)
  BY <1>3, <1>4, <1>6, PartsShuffled, Zenon
<1> QED BY <1>1, <1>2, <1>3, <1>7, SplitStep

LEMMA SplitPartsStep == ASSUME SortInv, SplitParts PROVE SortInv'
<1>1. /\ sort_pc = "balance" /\ UNCHANGED <<sort_call, a, first, last>>
      /\ SplitLoop(Head(loops).bad)
  BY DEF SplitParts
<1>2. Sorting /\ loops # <<>>
  BY <1>1 DEF SortInv, Sorting, Dividing
<1>3. /\ a \in Arrays(Places) /\ begin < first /\ first < end
      /\ Parted(a, begin, pivot_pos, end)
  BY <1>1, <1>2, PartsAre
<1>4. Shuffled(Places, a, a', begin, end) /\ Parted(a', begin, pivot_pos, end)
  BY <1>1, <1>3, ShuffledNot
<1> QED BY <1>1, <1>2, <1>3, <1>4, SplitStep

(* Parts in order around a pivot. *)
LEMMA PartsRising ==
  ASSUME NEW m, NEW lo \in Int, NEW p \in Int, NEW hi \in Int, lo <= p, p < hi,
         \A i \in lo..(hi - 1) : m[i] \in Int,
         Rising(m, lo, p), Rising(m, p + 1, hi), Parted(m, lo, p, hi)
  PROVE  Rising(m, lo, hi)
<1> SUFFICES ASSUME NEW i \in lo..(hi - 1), NEW j \in lo..(hi - 1), i < j
             PROVE  m[i] <= m[j]
  BY DEF Rising
<1>1. CASE j < p
  <2>1. i \in lo..(p - 1) /\ j \in lo..(p - 1)
    BY <1>1
  <2> QED BY <2>1 DEF Rising
<1>2. CASE i > p
  <2>1. i \in (p + 1)..(hi - 1) /\ j \in (p + 1)..(hi - 1)
    BY <1>2
  <2> QED BY <2>1 DEF Rising
<1>3. CASE i <= p /\ p <= j
  <2>1. i = p \/ i \in lo..(p - 1)
    BY <1>3
  <2>2. j = p \/ j \in (p + 1)..(hi - 1)
    BY <1>3
  <2>3. m[i] \in Int /\ m[j] \in Int /\ m[p] \in Int
    OBVIOUS
  <2>4. m[i] <= m[p]
    BY <2>1, <2>3 DEF Parted
  <2>5. m[p] <= m[j]
    BY <2>2, <2>3 DEF Parted
  <2> QED BY <2>3, <2>4, <2>5
<1> QED BY <1>1, <1>2, <1>3

LEMMA InsertPartsStep == ASSUME SortInv, InsertParts PROVE SortInv'
<1> DEFINE l == partial_insertion_sort(a, begin, pivot_pos)
           r == partial_insertion_sort(l.mem, pivot_pos + 1, end)
<1>1. /\ sort_pc = "balance" /\ UNCHANGED <<sort_call, first, last>>
      /\ IF l.sorted THEN /\ a' = r.mem
                          /\ IF r.sorted THEN Return ELSE SplitLoop(Head(loops).bad)
         ELSE a' = l.mem /\ SplitLoop(Head(loops).bad)
  BY DEF InsertParts
<1>2. Sorting /\ loops # <<>>
  BY <1>1 DEF SortInv, Sorting, Dividing
<1>3. /\ Places \in SUBSET Int /\ a \in Arrays(Places)
      /\ begin \in Int /\ end \in Int /\ pivot_pos \in Int /\ begin < first /\ first < end
      /\ begin <= pivot_pos /\ pivot_pos < end /\ pivot_pos + 1 <= end /\ pivot_pos + 1 \in Int
      /\ Parted(a, begin, pivot_pos, end)
      /\ \A i \in begin..(end - 1) : i \in Places
      /\ \A i \in begin..(pivot_pos - 1) : i \in Places
      /\ \A i \in (pivot_pos + 1)..(end - 1) : i \in Places
  BY <1>1, <1>2, PartsAre
<1>4. PartiallySorted(Places, a, begin, pivot_pos, l)
  BY <1>3, PartialIs, Zenon
<1> HIDE DEF l
<1>5. /\ l.mem \in Arrays(Places) /\ Shuffled(Places, a, l.mem, begin, pivot_pos)
      /\ l.sorted => Rising(l.mem, begin, pivot_pos)
      /\ l.sorted \in BOOLEAN
  BY <1>4 DEF PartiallySorted, Partials
<1>6. PartiallySorted(Places, l.mem, pivot_pos + 1, end, r)
  BY <1>3, <1>5, PartialIs, Zenon
<1> HIDE DEF r
<1>7. /\ r.mem \in Arrays(Places) /\ Shuffled(Places, l.mem, r.mem, pivot_pos + 1, end)
      /\ r.sorted => Rising(r.mem, pivot_pos + 1, end)
      /\ r.sorted \in BOOLEAN
  BY <1>6 DEF PartiallySorted, Partials
<1>8. Shuffled(Places, a, r.mem, begin, end) /\ Parted(r.mem, begin, pivot_pos, end)
  BY <1>3, <1>5, <1>7, PartsShuffled, Zenon
<1>9. Shuffled(Places, a, l.mem, begin, end) /\ Parted(l.mem, begin, pivot_pos, end)
  <2>1. Shuffled(Places, l.mem, l.mem, pivot_pos + 1, end)
    BY <1>5, ShuffledNot, Zenon
  <2> QED BY <1>3, <1>5, <2>1, PartsShuffled, Zenon
<1>10. CASE l.sorted /\ r.sorted
  <2>1. a' = r.mem /\ Return
    BY <1>1, <1>10
  <2>2. Rising(r.mem, begin, pivot_pos)
    <3>1. Contained(Places, l.mem, r.mem, pivot_pos + 1, end)
      BY <1>7, ShuffledPlaces, Zenon
    <3>2. \A i \in begin..(pivot_pos - 1) : i \in Places /\ i \notin (pivot_pos + 1)..(end - 1)
      BY <1>3
    <3>3. \A i \in begin..(pivot_pos - 1) : r.mem[i] = l.mem[i]
      BY <3>1, <3>2 DEF Contained
    <3> QED BY <1>5, <1>10, <3>3 DEF Rising
  <2>3. Rising(r.mem, begin, end)
    <3>1. Rising(r.mem, pivot_pos + 1, end)
      BY <1>7, <1>10
    <3>2. \A i \in begin..(end - 1) : r.mem[i] \in Int
      BY <1>3, <1>7 DEF Arrays
    <3> QED BY <1>3, <1>8, <2>2, <3>1, <3>2, PartsRising, Zenon
  <2> QED BY <1>1, <1>2, <1>8, <2>1, <2>3, ReturnStep
<1>11. CASE ~ (l.sorted /\ r.sorted)
  <2>1. SplitLoop(Head(loops).bad) /\ (a' = l.mem \/ a' = r.mem)
    BY <1>1, <1>5, <1>7, <1>11
  <2>2. Shuffled(Places, a, a', begin, end) /\ Parted(a', begin, pivot_pos, end)
    BY <1>8, <1>9, <2>1
  <2> QED BY <1>1, <1>2, <1>3, <2>1, <2>2, SplitStep
<1> QED BY <1>10, <1>11

-----------------------------------------------------------------------------
(* divide_sort. *)

LEMMA DividingIs ==
  ASSUME SortInv, Dividing
  PROVE  /\ SortTypeOK /\ Places \in SUBSET Int /\ a \in Arrays(Places) /\ DOMAIN a = Places
         /\ first \in Int /\ last \in Int
         /\ begin = 0 /\ size \in Int /\ size >= 9 /\ size = Len(sort_call.s) /\ end = size
         /\ \A i : i \in Places <=> i \in 0..(size - 1)
         /\ \A i \in 0..(size - 1) : a[i] \in Int
         /\ pivot = a[0] /\ a[0] \in Int
<1>1. SortTypeOK /\ first \in Int /\ last \in Int
  BY DEF SortInv, SortTypeOK
<1>2. Places \in SUBSET Int /\ a \in Arrays(Places) /\ DOMAIN a = Places
      /\ \A i \in Places : a[i] \in Int
  BY <1>1 DEF SortTypeOK, Arrays, Places
<1>3. Len(sort_call.s) >= 9 /\ Len(sort_call.s) \in Nat
  BY <1>1, SortAssumption DEF SortTypeOK, Dividing
<1>4. begin = 0 /\ end = Len(sort_call.s)
  BY DEF Dividing
<1>5. size = Len(sort_call.s)
  BY <1>3, <1>4 DEF size
<1>6. \A i : i \in Places <=> i \in 0..(size - 1)
  BY <1>5 DEF Places
<1>7. 0 \in 0..(size - 1)
  BY <1>3, <1>5
<1> QED BY <1>1, <1>2, <1>3, <1>4, <1>5, <1>6, <1>7 DEF pivot

LEMMA DivideStays ==
  ASSUME SortInv, Dividing, sort_call' = sort_call, loops' = loops,
         Shuffled(Places, a, a', 0, size), first' \in Int, last' \in Int
  PROVE  /\ SortTypeOK' /\ Shuffled(Places, Given, a, 0, Len(sort_call.s))'
         /\ sort_call'.kernel = "divide" /\ loops' # <<>>
         /\ begin' = 0 /\ end' = Len(sort_call'.s) /\ size' = size
         /\ a' \in Arrays(Places) /\ DOMAIN a' = Places
         /\ \A i \in 0..(size - 1) : a'[i] \in Int
<1>1. SortTypeOK /\ begin = 0 /\ size = Len(sort_call.s)
      /\ \A i : i \in Places <=> i \in 0..(size - 1)
  BY DividingIs
<1>2. Places' = Places /\ Given' = Given
  BY DEF Places, Given
<1>3. a' \in Arrays(Places)
  BY DEF Shuffled
<1>4. SortTypeOK'
  BY <1>1, <1>2, <1>3 DEF SortTypeOK
<1>5. Shuffled(Places, Given, a, 0, size)
  BY <1>1 DEF SortInv
<1>6. Shuffled(Places, Given, a', 0, size)
  BY <1>5, ShuffledTwice, Zenon
<1>7. begin' = begin /\ end' = end /\ size' = size
  BY DEF begin, end, size
<1>8. DOMAIN a' = Places /\ \A i \in 0..(size - 1) : a'[i] \in Int
  BY <1>1, <1>3 DEF Arrays
<1> QED BY <1>1, <1>2, <1>3, <1>4, <1>6, <1>7, <1>8 DEF Dividing

Between(lo, r, hi) == \/ a[lo] <= a[r] /\ a[r] <= a[hi]
                      \/ a[hi] <= a[r] /\ a[r] <= a[lo]
Median(i, j, k, r) == \/ r = i /\ Between(j, r, k)
                      \/ r = j /\ Between(i, r, k)
                      \/ r = k /\ Between(i, r, j)

LEMMA MedianIs ==
  ASSUME NEW i, NEW j, NEW k, a[i] \in Int, a[j] \in Int, a[k] \in Int
  PROVE  Median(i, j, k, mid3(i, j, k))
BY DEF Median, Between, mid3

(* The median of nine has one that is not smaller and not the last, and one that
   is not greater and not the first, apart from itself. *)
LEMMA MiddleIs ==
  ASSUME SortInv, Dividing
  PROVE  /\ mid9 \in 1..(size - 1)
         /\ \E i \in 1..(size - 2) : i # mid9 /\ a[mid9] <= a[i]
         /\ \E i \in 2..(size - 1) : i # mid9 /\ a[i] <= a[mid9]
<1> DEFINE c == size \div 8
           p1 == mid3(1, c, 2 * c)
           p2 == mid3(3 * c, 4 * c, 5 * c)
           p3 == mid3(6 * c, 7 * c, size - 1)
           m == mid3(p1, p2, p3)
<1>1. size \in Int /\ size >= 9 /\ \A i \in 0..(size - 1) : a[i] \in Int
  BY DividingIs
<1>2. c \in Int /\ 1 <= c /\ 7 * c <= size - 2
  BY <1>1
<1>3. mid9 = m
  BY DEF mid9
<1> HIDE DEF c
<1>4. \A i \in {1, c, 2 * c, 3 * c, 4 * c, 5 * c, 6 * c, 7 * c, size - 1} :
        i \in 1..(size - 1) /\ a[i] \in Int
  BY <1>1, <1>2
<1>5. Median(1, c, 2 * c, p1) /\ Median(3 * c, 4 * c, 5 * c, p2)
      /\ Median(6 * c, 7 * c, size - 1, p3)
  <2>1. a[1] \in Int /\ a[c] \in Int /\ a[2 * c] \in Int
        /\ a[3 * c] \in Int /\ a[4 * c] \in Int /\ a[5 * c] \in Int
        /\ a[6 * c] \in Int /\ a[7 * c] \in Int /\ a[size - 1] \in Int
    BY <1>4
  <2> QED BY <2>1, MedianIs, Zenon
<1> HIDE DEF p1, p2, p3
<1>6. /\ p1 \in {1, c, 2 * c} /\ p2 \in {3 * c, 4 * c, 5 * c}
      /\ p3 \in {6 * c, 7 * c, size - 1}
  BY <1>5 DEF Median
<1>7. /\ p1 \in 1..(2 * c) /\ p2 \in (3 * c)..(5 * c) /\ p3 \in (6 * c)..(size - 1)
      /\ a[p1] \in Int /\ a[p2] \in Int /\ a[p3] \in Int
  BY <1>1, <1>2, <1>4, <1>6
<1>8. Median(p1, p2, p3, m)
  BY <1>7, MedianIs, Zenon
<1> HIDE DEF m
<1>9. m \in 1..(size - 1) /\ a[m] \in Int /\ m \in {p1, p2, p3}
  BY <1>1, <1>2, <1>7, <1>8 DEF Median
<1>10. p1 # p2 /\ p2 # p3 /\ p1 # p3
  BY <1>2, <1>7
<1>11. \E i \in 1..(size - 2) : i # m /\ a[m] <= a[i]
  <2>1. PICK u \in {p1, p2, p3} : u # m /\ a[m] <= a[u]
    BY <1>8, <1>10 DEF Median, Between
  <2>2. CASE u # size - 1
    <3>1. u \in 1..(size - 2)
      BY <1>1, <1>2, <1>7, <2>2
    <3> QED BY <2>1, <3>1
  <2>3. CASE u = size - 1
    <3>1. u = p3 /\ m < 6 * c /\ u # 6 * c /\ u # 7 * c
      BY <1>1, <1>2, <1>7, <1>9, <2>1, <2>3
    <3>2. Between(6 * c, u, 7 * c)
      BY <1>5, <3>1 DEF Median
    <3>3. PICK v \in {6 * c, 7 * c} : a[u] <= a[v]
      BY <3>2 DEF Between
    <3>4. v \in 1..(size - 2) /\ v # m
      BY <1>1, <1>2, <1>9, <3>1
    <3>5. a[v] \in Int /\ a[u] \in Int
      BY <1>4, <1>7, <2>1
    <3>6. a[m] <= a[v]
      BY <1>9, <2>1, <3>3, <3>5
    <3> QED BY <3>4, <3>6
  <2> QED BY <2>2, <2>3
<1>12. \E i \in 2..(size - 1) : i # m /\ a[i] <= a[m]
  <2>1. CASE m = p1
    <3>1. PICK u \in {p2, p3} : a[u] <= a[m]
      BY <1>8, <1>10, <2>1 DEF Median, Between
    <3>2. u \in 2..(size - 1) /\ u # m
      BY <1>1, <1>2, <1>7, <1>10, <2>1
    <3> QED BY <3>1, <3>2
  <2>2. CASE m = p2
    <3>1. 3 * c # 4 * c /\ 4 * c # 5 * c /\ 3 * c # 5 * c
      BY <1>2
    <3>2. PICK u \in {3 * c, 4 * c, 5 * c} : u # m /\ a[u] <= a[m]
      BY <1>5, <2>2, <3>1 DEF Median, Between
    <3>3. u \in 2..(size - 1)
      BY <1>1, <1>2
    <3> QED BY <3>2, <3>3
  <2>3. CASE m = p3
    <3>1. 6 * c # 7 * c /\ 7 * c # size - 1 /\ 6 * c # size - 1
      BY <1>1, <1>2
    <3>2. PICK u \in {6 * c, 7 * c, size - 1} : u # m /\ a[u] <= a[m]
      BY <1>5, <2>3, <3>1 DEF Median, Between
    <3>3. u \in 2..(size - 1)
      BY <1>1, <1>2
    <3> QED BY <3>2, <3>3
  <2> QED BY <1>9, <2>1, <2>2, <2>3
<1> QED BY <1>3, <1>9, <1>11, <1>12

LEMMA Pivot9Step == ASSUME SortInv, pivot9 PROVE SortInv'
<1>1. /\ sort_pc = "pivot9" /\ a' = Swap(a, 0, mid9) /\ sort_pc' = "divide"
      /\ UNCHANGED <<sort_call, loops, first, last>>
  BY DEF pivot9
<1>2. Dividing
  BY <1>1 DEF SortInv, Sorting, Dividing
<1>3. /\ a \in Arrays(Places) /\ first \in Int /\ last \in Int /\ size \in Int /\ size >= 9
      /\ \A i : i \in Places <=> i \in 0..(size - 1)
  BY <1>2, DividingIs
<1>4. /\ mid9 \in 1..(size - 1)
      /\ \E i \in 1..(size - 2) : i # mid9 /\ a[mid9] <= a[i]
      /\ \E i \in 2..(size - 1) : i # mid9 /\ a[i] <= a[mid9]
  BY <1>2, MiddleIs
<1>5. 0 \in Places /\ mid9 \in Places /\ 0 \in 0..(size - 1) /\ mid9 \in 0..(size - 1)
  BY <1>3, <1>4
<1>6. Swapped(Places, a, 0, mid9, a') /\ Shuffled(Places, a, a', 0, size)
  <2>1. Swapped(Places, a, 0, mid9, Swap(a, 0, mid9))
    BY <1>3, <1>5, SwapIs, Zenon
  <2>2. Shuffled(Places, a, Swap(a, 0, mid9), 0, size)
    BY <1>3, <1>5, ShuffledSwap, Zenon
  <2> QED BY <1>1, <2>1, <2>2
<1>7. a'[0] = a[mid9] /\ \A i \in 1..(size - 1) : i # mid9 => a'[i] = a[i]
  BY <1>3, <1>6 DEF Swapped
<1>8. /\ SortTypeOK' /\ Shuffled(Places, Given, a, 0, Len(sort_call.s))'
      /\ sort_call'.kernel = "divide" /\ loops' # <<>>
      /\ begin' = 0 /\ end' = Len(sort_call'.s) /\ size' = size
  BY <1>1, <1>2, <1>3, <1>6, DivideStays
<1>9. Divisible'
  <2>1. \E i \in 1..(size - 2) : a'[0] <= a'[i]
    <3>1. PICK i \in 1..(size - 2) : i # mid9 /\ a[mid9] <= a[i]
      BY <1>4
    <3>2. i \in 1..(size - 1)
      BY <1>3
    <3> QED BY <1>7, <3>1, <3>2
  <2>2. \E i \in 2..(size - 1) : a'[i] <= a'[0]
    <3>1. PICK i \in 2..(size - 1) : i # mid9 /\ a[i] <= a[mid9]
      BY <1>4
    <3>2. i \in 1..(size - 1)
      BY <1>3
    <3> QED BY <1>7, <3>1, <3>2
  <2> QED BY <1>8, <2>1, <2>2 DEF Divisible
<1>10. Dividing'
  BY <1>1, <1>8, <1>9 DEF Dividing
<1> QED BY <1>8, <1>10 DEF SortInv

LEMMA DivideSearchStep == ASSUME SortInv, DivideSearch PROVE SortInv'
<1> DEFINE up == Up(1, size, AtLeast(a))
           down == Down(size - 1, 0, AtMost(a))
<1>1. /\ sort_pc = "divide" /\ UNCHANGED <<sort_call, a, loops>>
      /\ first' = up /\ last' = down
      /\ Found(first' < size /\ last' >= 0, "divideswap")
  BY DEF DivideSearch
<1>2. Dividing /\ Divisible
  BY <1>1 DEF SortInv, Sorting, Dividing
<1>3. /\ a \in Arrays(Places) /\ DOMAIN a = Places /\ size \in Int /\ size >= 9
      /\ \A i : i \in Places <=> i \in 0..(size - 1)
      /\ \A i \in 0..(size - 1) : a[i] \in Int
      /\ pivot = a[0] /\ a[0] \in Int
  BY <1>2, DividingIs
<1>4. PICK w \in 1..(size - 2) : a[0] <= a[w]
  BY <1>2 DEF Divisible
<1>5. PICK v \in 2..(size - 1) : a[v] <= a[0]
  BY <1>2 DEF Divisible
<1>6. /\ \A i \in 0..(size - 1) : i \in AtLeast(a) <=> a[0] <= a[i]
      /\ \A i \in 0..(size - 1) : i \in AtMost(a) <=> a[i] <= a[0]
  BY <1>3 DEF AtLeast, AtMost
<1>7. /\ up \in Int /\ 1 <= up /\ up <= w /\ up \in AtLeast(a)
      /\ \A i \in 1..(size - 1) : i < up => i \notin AtLeast(a)
  <2>1. w \in 1..(size - 1) /\ w \in AtLeast(a) /\ 1 \in Int /\ 1 <= size
    BY <1>3, <1>4, <1>6
  <2> QED BY <1>3, <2>1, UpIs
<1>8. /\ down \in Int /\ v <= down /\ down <= size - 1 /\ down \in AtMost(a)
      /\ \A i \in 0..(size - 1) : down < i => i \notin AtMost(a)
  <2>1. v \in 0..(size - 1) /\ v \in AtMost(a) /\ size - 1 \in Int /\ 0 \in Int /\ 0 - 1 <= size - 1
    BY <1>3, <1>5, <1>6
  <2> QED BY <1>3, <2>1, DownIs
<1> HIDE DEF up, down
<1>9. up \in 1..(size - 2) /\ down \in 2..(size - 1)
  BY <1>3, <1>4, <1>5, <1>7, <1>8
<1>10. sort_pc' = "divideswap"
  BY <1>1, <1>3, <1>9 DEF Found
<1>11. Shuffled(Places, a, a', 0, size)
  BY <1>1, <1>3, ShuffledNot
<1>12. /\ SortTypeOK' /\ Shuffled(Places, Given, a, 0, Len(sort_call.s))'
       /\ sort_call'.kernel = "divide" /\ loops' # <<>>
       /\ begin' = 0 /\ end' = Len(sort_call'.s) /\ size' = size
  BY <1>1, <1>2, <1>7, <1>8, <1>11, DivideStays
<1>13. \A i \in 1..(up - 1) : a[i] < a[0]
  <2>1. \A i \in 1..(up - 1) : i \in 1..(size - 1) /\ i < up /\ i \in 0..(size - 1)
    BY <1>3, <1>9
  <2> QED BY <1>3, <1>6, <1>7, <2>1
<1>14. \A i \in (down + 1)..(size - 1) : a[0] < a[i]
  <2>1. \A i \in (down + 1)..(size - 1) : i \in 0..(size - 1) /\ down < i
    BY <1>3, <1>9
  <2> QED BY <1>3, <1>6, <1>8, <2>1
<1>15. up > down => up - down = 1
  <2> SUFFICES ASSUME up > down + 1 PROVE FALSE
    BY <1>7, <1>8
  <2>1. down + 1 \in 1..(up - 1) /\ down + 1 \in (down + 1)..(size - 1) /\ down + 1 \in 0..(size - 1)
    BY <1>3, <1>9
  <2>2. a[down + 1] < a[0] /\ a[0] < a[down + 1] /\ a[down + 1] \in Int
    BY <1>3, <1>13, <1>14, <2>1
  <2> QED BY <1>3, <2>2
<1>16. DivideReady'
  <2>1. up \in 0..(size - 1) /\ down \in 0..(size - 1)
    BY <1>3, <1>9
  <2>2. a[0] <= a[up] /\ a[down] <= a[0]
    BY <1>6, <1>7, <1>8, <2>1
  <2>3. \A i \in 1..(up - 1) : a[i] <= a[0]
    <3>1. \A i \in 1..(up - 1) : i \in 0..(size - 1)
      BY <1>3, <1>9
    <3> QED BY <1>3, <1>13, <3>1
  <2>4. \A i \in (down + 1)..(size - 1) : a[0] <= a[i]
    <3>1. \A i \in (down + 1)..(size - 1) : i \in 0..(size - 1)
      BY <1>3, <1>9
    <3> QED BY <1>3, <1>14, <3>1
  <2>5. up = down => 1 < up /\ down < size - 1
    BY <1>3, <1>9
  <2>6. up > down => up - down \in {1, 2} /\ \A i \in (down + 1)..(up - 1) : a[i] = a[0]
    BY <1>9, <1>15
  <2>7. 1 <= up /\ up < size /\ 1 <= down /\ down < size
    BY <1>3, <1>9
  <2>8. a' = a /\ first' = up /\ last' = down
    BY <1>1
  <2> QED BY <1>12, <2>2, <2>3, <2>4, <2>5, <2>6, <2>7, <2>8 DEF DivideReady
<1>17. Dividing'
  BY <1>10, <1>12, <1>16 DEF Dividing
<1> QED BY <1>12, <1>17 DEF SortInv

LEMMA DivideSwapStep == ASSUME SortInv, DivideSwap PROVE SortInv'
<1> DEFINE up == Up(first + 1, size, AtLeast(a'))
           down == Down(last - 1, 0, AtMost(a'))
<1>1. /\ sort_pc = "divideswap" /\ first <= last /\ UNCHANGED <<sort_call, loops>>
      /\ a' = Swap(a, first, last) /\ first' = up /\ last' = down
      /\ Found(first' < size /\ last' >= 0, "divideswap")
  BY DEF DivideSwap
<1>2. Dividing /\ DivideReady
  BY <1>1 DEF SortInv, Sorting, Dividing
<1>3. /\ a \in Arrays(Places) /\ size \in Int /\ size >= 9
      /\ first \in Int /\ last \in Int
      /\ \A i : i \in Places <=> i \in 0..(size - 1)
      /\ \A i \in 0..(size - 1) : a[i] \in Int
      /\ pivot = a[0] /\ a[0] \in Int
  BY <1>2, DividingIs
<1>4. /\ 1 <= first /\ first < size /\ 1 <= last /\ last < size
      /\ a[0] <= a[first] /\ a[last] <= a[0]
      /\ first = last => 1 < first /\ last < size - 1
  BY <1>2 DEF DivideReady
<1>5. first \in 0..(size - 1) /\ last \in 0..(size - 1) /\ first \in Places /\ last \in Places
  BY <1>3, <1>4
<1>6. Swapped(Places, a, first, last, a') /\ Shuffled(Places, a, a', 0, size)
  <2>1. Swapped(Places, a, first, last, Swap(a, first, last))
    BY <1>3, <1>5, SwapIs, Zenon
  <2>2. Shuffled(Places, a, Swap(a, first, last), 0, size)
    BY <1>3, <1>5, ShuffledSwap, Zenon
  <2> QED BY <1>1, <2>1, <2>2
<1>7. /\ a'[first] = a[last] /\ a'[last] = a[first] /\ a'[0] = a[0]
      /\ \A i \in 0..(size - 1) : i # first /\ i # last => a'[i] = a[i]
      /\ DOMAIN a' = Places /\ \A i \in 0..(size - 1) : a'[i] \in Int
  <2>1. a' \in Arrays(Places)
    BY <1>6 DEF Swapped
  <2>2. DOMAIN a' = Places /\ \A i \in Places : a'[i] \in Int
    BY <2>1 DEF Arrays
  <2>3. 0 \in Places /\ 0 # first /\ 0 # last
    BY <1>3, <1>4
  <2> QED BY <1>3, <1>6, <2>2, <2>3 DEF Swapped
<1>8. /\ \A i \in 0..(size - 1) : i \in AtLeast(a') <=> a[0] <= a'[i]
      /\ \A i \in 0..(size - 1) : i \in AtMost(a') <=> a'[i] <= a[0]
  BY <1>3, <1>7 DEF AtLeast, AtMost
(* What stops the searches: the pair, or its neighbours when it is one place. *)
<1> DEFINE w == IF first < last THEN last ELSE last + 1
           v == IF first < last THEN first ELSE first - 1
<1>9. /\ w \in (first + 1)..(size - 1) /\ w \in AtLeast(a')
      /\ v \in 1..(last - 1) /\ v \in AtMost(a')
  <2>1. CASE first < last
    <3>1. last \in AtLeast(a') /\ first \in AtMost(a')
      BY <1>4, <1>5, <1>7, <1>8
    <3> QED BY <1>3, <1>4, <2>1, <3>1
  <2>2. CASE first = last
    <3>1. /\ last + 1 \in (first + 1)..(size - 1) /\ last + 1 \in (last + 1)..(size - 1)
          /\ last + 1 \in 0..(size - 1) /\ last + 1 # first /\ last + 1 # last
          /\ first - 1 \in 1..(last - 1) /\ first - 1 \in 1..(first - 1)
          /\ first - 1 \in 0..(size - 1) /\ first - 1 # first /\ first - 1 # last
      BY <1>3, <1>4, <2>2
    <3>2. a[0] <= a[last + 1] /\ a[first - 1] <= a[0]
      BY <1>2, <3>1 DEF DivideReady
    <3>3. last + 1 \in AtLeast(a') /\ first - 1 \in AtMost(a')
      BY <1>7, <1>8, <3>1, <3>2
    <3> QED BY <1>3, <2>2, <3>1, <3>3
  <2> QED BY <1>1, <1>3, <2>1, <2>2
<1>a. /\ w \in Int /\ v \in Int /\ w >= last /\ v <= first
      /\ (first < last => w = last /\ v = first)
      /\ (first = last => w = last + 1 /\ v = first - 1)
  BY <1>1, <1>3
<1> HIDE DEF w, v
<1>10. /\ up \in Int /\ first + 1 <= up /\ up <= w /\ up \in AtLeast(a')
       /\ \A i \in (first + 1)..(size - 1) : i < up => i \notin AtLeast(a')
  <2>1. first + 1 \in Int /\ first + 1 <= size
    BY <1>3, <1>4
  <2> QED BY <1>3, <1>9, <2>1, UpIs
<1>11. /\ down \in Int /\ v <= down /\ down <= last - 1 /\ down \in AtMost(a')
       /\ \A i \in 0..(last - 1) : down < i => i \notin AtMost(a')
  <2>1. v \in 0..(last - 1) /\ last - 1 \in Int /\ 0 \in Int /\ 0 - 1 <= last - 1
    BY <1>3, <1>4, <1>9
  <2> QED BY <1>3, <1>9, <2>1, DownIs
<1> HIDE DEF up, down
<1>12. up \in 2..(size - 1) /\ down \in 1..(size - 2)
  BY <1>3, <1>4, <1>9, <1>10, <1>11
<1>13. sort_pc' = "divideswap"
  BY <1>1, <1>3, <1>12 DEF Found
<1>14. /\ SortTypeOK' /\ Shuffled(Places, Given, a, 0, Len(sort_call.s))'
       /\ sort_call'.kernel = "divide" /\ loops' # <<>>
       /\ begin' = 0 /\ end' = Len(sort_call'.s) /\ size' = size
  BY <1>1, <1>2, <1>6, <1>10, <1>11, DivideStays
<1>15. ASSUME NEW i \in (first + 1)..(size - 1), i < up PROVE a'[i] < a[0]
  <2>1. i \in 0..(size - 1)
    BY <1>3, <1>4
  <2> QED BY <1>3, <1>7, <1>8, <1>10, <1>15, <2>1
<1>16. ASSUME NEW i \in 0..(last - 1), i > down PROVE a[0] < a'[i]
  <2>1. i \in 0..(size - 1) /\ down < i
    BY <1>3, <1>4, <1>11, <1>16
  <2> QED BY <1>3, <1>7, <1>8, <1>11, <2>1
<1>17. \A i \in 1..(up - 1) : a'[i] <= a[0]
  <2> SUFFICES ASSUME NEW i \in 1..(up - 1) PROVE a'[i] <= a[0]
    OBVIOUS
  <2>1. i \in 0..(size - 1) /\ i \in Int /\ i < up
    BY <1>3, <1>12
  <2>2. CASE i < first
    <3>1. i \in 1..(first - 1) /\ i # first /\ i # last
      BY <1>1, <1>3, <2>1, <2>2
    <3> QED BY <1>2, <1>7, <2>1, <3>1 DEF DivideReady
  <2>3. CASE i = first
    BY <1>4, <1>7, <2>3
  <2>4. CASE i > first
    <3>1. i \in (first + 1)..(size - 1)
      BY <1>3, <2>1, <2>4
    <3> QED BY <1>3, <1>7, <1>15, <2>1, <3>1
  <2> QED BY <1>3, <2>1, <2>2, <2>3, <2>4
<1>18. \A i \in (down + 1)..(size - 1) : a[0] <= a'[i]
  <2> SUFFICES ASSUME NEW i \in (down + 1)..(size - 1) PROVE a[0] <= a'[i]
    OBVIOUS
  <2>1. i \in 0..(size - 1) /\ i \in Int /\ i > down
    BY <1>3, <1>12
  <2>2. CASE i > last
    <3>1. i \in (last + 1)..(size - 1) /\ i # first /\ i # last
      BY <1>1, <1>3, <2>1, <2>2
    <3> QED BY <1>2, <1>7, <2>1, <3>1 DEF DivideReady
  <2>3. CASE i = last
    BY <1>4, <1>7, <2>3
  <2>4. CASE i < last
    <3>1. i \in 0..(last - 1)
      BY <1>3, <2>1, <2>4
    <3> QED BY <1>3, <1>7, <1>16, <2>1, <3>1
  <2> QED BY <1>3, <2>1, <2>2, <2>3, <2>4
<1>19. up > down => up - down \in {1, 2} /\ \A i \in (down + 1)..(up - 1) : a'[i] = a[0]
  <2>1. CASE first = last
    <3>1. up = first + 1 /\ down = first - 1
      BY <1>3, <1>a, <1>10, <1>11, <2>1
    <3>2. \A i \in (down + 1)..(up - 1) : i = first
      BY <1>3, <3>1
    <3>3. a'[first] = a[0]
      BY <1>3, <1>4, <1>5, <1>7, <2>1
    <3> QED BY <1>3, <3>1, <3>2, <3>3
  <2>2. CASE first < last
    <3> SUFFICES ASSUME up > down + 1 PROVE FALSE
      BY <1>10, <1>11
    <3>1. /\ down + 1 \in (first + 1)..(size - 1) /\ down + 1 < up
          /\ down + 1 \in 0..(last - 1) /\ down + 1 > down /\ down + 1 \in 0..(size - 1)
      BY <1>3, <1>4, <1>a, <1>10, <1>11, <1>12, <2>2
    <3>2. a'[down + 1] < a[0] /\ a[0] < a'[down + 1] /\ a'[down + 1] \in Int
      BY <1>7, <1>15, <1>16, <3>1
    <3> QED BY <1>3, <3>2
  <2> QED BY <1>1, <1>3, <2>1, <2>2
<1>20. up = down => 1 < up /\ down < size - 1
  BY <1>3, <1>12
<1>21. DivideReady'
  <2>1. up \in 0..(size - 1) /\ down \in 0..(size - 1)
    BY <1>3, <1>12
  <2>2. a[0] <= a'[up] /\ a'[down] <= a[0]
    BY <1>8, <1>10, <1>11, <2>1
  <2>3. 1 <= up /\ up < size /\ 1 <= down /\ down < size
    BY <1>3, <1>12
  <2> QED BY <1>1, <1>7, <1>14, <1>17, <1>18, <1>19, <1>20, <2>2, <2>3 DEF DivideReady
<1>22. Dividing'
  BY <1>13, <1>14, <1>21 DEF Dividing
<1> QED BY <1>14, <1>22 DEF SortInv

LEMMA DividePlaceStep == ASSUME SortInv, DividePlace PROVE SortInv'
<1>1. /\ sort_pc = "divideswap" /\ first > last /\ UNCHANGED <<sort_call, loops, first, last>>
      /\ a' = Swap(a, 0, last) /\ sort_pc' = "divided"
  BY DEF DividePlace
<1>2. Dividing /\ DivideReady
  BY <1>1 DEF SortInv, Sorting, Dividing
<1>3. /\ a \in Arrays(Places) /\ size \in Int /\ size >= 9 /\ size = Len(sort_call.s)
      /\ first \in Int /\ last \in Int
      /\ \A i : i \in Places <=> i \in 0..(size - 1)
      /\ \A i \in 0..(size - 1) : a[i] \in Int
      /\ a[0] \in Int
  BY <1>2, DividingIs
<1>4. /\ 1 <= first /\ first < size /\ 1 <= last /\ last < size /\ a[last] <= a[0]
      /\ first - last \in {1, 2}
      /\ \A i \in (last + 1)..(first - 1) : a[i] = a[0]
      /\ \A i \in 1..(first - 1) : a[i] <= a[0]
      /\ \A i \in (last + 1)..(size - 1) : a[0] <= a[i]
  BY <1>1, <1>2 DEF DivideReady
<1>5. 0 \in Places /\ last \in Places /\ 0 \in 0..(size - 1) /\ last \in 0..(size - 1)
  BY <1>3, <1>4
<1>6. Swapped(Places, a, 0, last, a') /\ Shuffled(Places, a, a', 0, size)
  <2>1. Swapped(Places, a, 0, last, Swap(a, 0, last))
    BY <1>3, <1>5, SwapIs, Zenon
  <2>2. Shuffled(Places, a, Swap(a, 0, last), 0, size)
    BY <1>3, <1>5, ShuffledSwap, Zenon
  <2> QED BY <1>1, <2>1, <2>2
<1>7. /\ a'[0] = a[last] /\ a'[last] = a[0]
      /\ \A i \in 1..(size - 1) : i # last => a'[i] = a[i]
  <2>1. \A i \in 1..(size - 1) : i \in Places /\ i # 0
    BY <1>3
  <2> QED BY <1>6, <2>1 DEF Swapped
<1>8. /\ SortTypeOK' /\ Shuffled(Places, Given, a, 0, Len(sort_call.s))'
      /\ sort_call'.kernel = "divide" /\ loops' # <<>>
      /\ begin' = 0 /\ end' = Len(sort_call'.s)
  BY <1>1, <1>2, <1>3, <1>6, DivideStays
<1>9. \A i \in 0..(last - 1) : a'[i] <= a'[last]
  <2> SUFFICES ASSUME NEW i \in 0..(last - 1) PROVE a'[i] <= a'[last]
    OBVIOUS
  <2>1. CASE i = 0
    BY <1>4, <1>7, <2>1
  <2>2. CASE i # 0
    <3>1. i \in 1..(first - 1) /\ i \in 1..(size - 1) /\ i # last
      BY <1>1, <1>3, <1>4, <2>2
    <3> QED BY <1>4, <1>7, <3>1
  <2> QED BY <2>1, <2>2
<1>10. \A i \in (last + 1)..(size - 1) : a'[i] = a[i]
  <2>1. \A i \in (last + 1)..(size - 1) : i \in 1..(size - 1) /\ i # last
    BY <1>3, <1>4
  <2> QED BY <1>7, <2>1
<1>11. \A i \in last..(first - 1) : a'[i] = a'[last]
  <2> SUFFICES ASSUME NEW i \in last..(first - 1), i # last PROVE a'[i] = a'[last]
    OBVIOUS
  <2>1. i \in (last + 1)..(first - 1) /\ i \in (last + 1)..(size - 1)
    BY <1>3, <1>4
  <2> QED BY <1>4, <1>7, <1>10, <2>1
<1>12. \A i \in first..(size - 1) : a'[i] >= a'[last]
  <2> SUFFICES ASSUME NEW i \in first..(size - 1) PROVE a'[i] >= a'[last]
    OBVIOUS
  <2>1. i \in (last + 1)..(size - 1) /\ i \in 0..(size - 1)
    BY <1>1, <1>3, <1>4
  <2>2. a[0] <= a[i] /\ a[i] \in Int
    BY <1>3, <1>4, <2>1
  <2> QED BY <1>3, <1>7, <1>10, <2>1, <2>2
<1>13. Divided'
  <2>1. 0 < last
    BY <1>3, <1>4
  <2> QED BY <1>1, <1>3, <1>4, <1>9, <1>11, <1>12, <2>1 DEF Divided
<1>14. Dividing'
  BY <1>1, <1>8, <1>13 DEF Dividing
<1> QED BY <1>8, <1>14 DEF SortInv

-----------------------------------------------------------------------------
(* The invariant, and what it gives. *)

LEMMA SortInvInit == SInit => SortInv
<1> SUFFICES ASSUME SInit PROVE SortInv
  OBVIOUS
<1> DEFINE n == Len(sort_call.s)
           whole == [begin |-> 0, end |-> n, bad |-> ILog2(n), leftmost |-> TRUE]
<1>1. /\ sort_call \in SortCalls /\ a = [i \in 0..(n - 1) |-> sort_call.s[i + 1]]
      /\ loops = <<whole>> /\ first = 0 /\ last = 0
      /\ sort_pc = IF sort_call.kernel = "pdqsort" THEN "loop" ELSE "pivot9"
  BY DEF SInit
<1>2. /\ sort_call.s \in Seq(Int) /\ n \in Nat /\ sort_call.kernel \in {"pdqsort", "divide"}
  BY <1>1, SortAssumption
<1>3. a = Given /\ a \in Arrays(Places)
  <2>1. \A i \in Places : sort_call.s[i + 1] \in Int
    <3>1. \A i \in Places : i + 1 \in 1..n
      BY <1>2 DEF Places
    <3> QED BY <1>2, <3>1
  <2> QED BY <1>1, <2>1 DEF Given, Places, Arrays
<1>4. whole \in Loop({ILog2(n)}) /\ whole.begin = 0 /\ whole.end = n /\ whole.leftmost
  BY <1>2 DEF Loop
<1> HIDE DEF whole
<1>5. loops \in Seq(Loop({ILog2(n)})) /\ Len(loops) = 1 /\ loops[1] = whole /\ Head(loops) = whole
      /\ loops # <<>>
  BY <1>1, <1>4
<1>6. SortTypeOK
  BY <1>1, <1>3, <1>5 DEF SortTypeOK
<1>7. Stacked
  <2>1. \A k \in 1..Len(loops) : k = 1
    BY <1>5
  <2> QED BY <1>2, <1>4, <1>5, <2>1 DEF Stacked
<1>8. Settled
  <2> SUFFICES ASSUME NEW i \in Places, NEW j \in Places
               PROVE  \E k \in 1..Len(loops) : InLoop(k, i, j)
    BY DEF Settled
  <2>1. InLoop(1, i, j)
    BY <1>2, <1>4, <1>5 DEF InLoop, Places
  <2> QED BY <1>5, <2>1
<1>9. Shuffled(Places, Given, a, 0, n)
  BY <1>3, ShuffledNot
<1>10. Sorting \/ Dividing
  <2>1. CASE sort_call.kernel = "pdqsort"
    BY <1>1, <1>5, <1>7, <1>8, <2>1 DEF Sorting
  <2>2. CASE sort_call.kernel = "divide"
    <3>1. begin = 0 /\ end = n
      BY <1>4, <1>5 DEF begin, end
    <3> QED BY <1>1, <1>5, <2>2, <3>1 DEF Dividing
  <2> QED BY <1>2, <2>1, <2>2
<1> QED BY <1>6, <1>9, <1>10 DEF SortInv

LEMMA SortStutters == ASSUME SortInv, UNCHANGED sortVars PROVE SortInv'
<1>1. /\ sort_call' = sort_call /\ a' = a /\ loops' = loops /\ sort_pc' = sort_pc
      /\ first' = first /\ last' = last
  BY DEF sortVars
<1>2. Places' = Places /\ Given' = Given /\ begin' = begin /\ end' = end
      /\ size' = size /\ pivot' = pivot /\ pivot_pos' = pivot_pos
  BY <1>1 DEF Places, Given, begin, end, size, pivot, pivot_pos
<1>3. SortTypeOK'
  BY <1>1, <1>2 DEF SortInv, SortTypeOK
<1>4. Shuffled(Places, Given, a, 0, Len(sort_call.s))'
  BY <1>1, <1>2 DEF SortInv
<1>5. Sorting => Sorting'
  BY <1>1, <1>2 DEF Sorting, Stacked, Settled, InLoop, Stopped, RightReady, LeftReady, PivotLeast
<1>6. Dividing => Dividing'
  BY <1>1, <1>2 DEF Dividing, Divisible, DivideReady, Divided
<1> QED BY <1>3, <1>4, <1>5, <1>6 DEF SortInv

LEMMA SortInvStep == SortInv /\ [SNext]_sortVars => SortInv'
<1> SUFFICES ASSUME SortInv, [SNext]_sortVars PROVE SortInv'
  OBVIOUS
<1>1. CASE InsertionSort
  BY <1>1, InsertionSortStep
<1>2. CASE UnguardedInsertionSort
  BY <1>2, UnguardedInsertionSortStep
<1>3. CASE ChoosePivot
  BY <1>3, ChoosePivotStep
<1>4. CASE LeftSearch
  BY <1>4, LeftSearchStep
<1>5. CASE LeftSwap
  BY <1>5, LeftSwapStep
<1>6. CASE LeftPlace
  BY <1>6, LeftPlaceStep
<1>7. CASE RightSearch
  BY <1>7, RightSearchStep
<1>8. CASE RightSwap
  BY <1>8, RightSwapStep
<1>9. CASE RightPlace
  BY <1>9, RightPlaceStep
<1>10. CASE HeapSort
  BY <1>10, HeapSortStep
<1>11. CASE Shuffle
  BY <1>11, ShuffleStep
<1>12. CASE InsertParts
  BY <1>12, InsertPartsStep
<1>13. CASE SplitParts
  BY <1>13, SplitPartsStep
<1>14. CASE pivot9
  BY <1>14, Pivot9Step
<1>15. CASE DivideSearch
  BY <1>15, DivideSearchStep
<1>16. CASE DivideSwap
  BY <1>16, DivideSwapStep
<1>17. CASE DividePlace
  BY <1>17, DividePlaceStep
<1>18. CASE STerminated \/ UNCHANGED sortVars
  BY <1>18, SortStutters DEF STerminated
<1> QED BY <1>1, <1>2, <1>3, <1>4, <1>5, <1>6, <1>7, <1>8, <1>9, <1>10, <1>11, <1>12, <1>13,
           <1>14, <1>15, <1>16, <1>17, <1>18 DEF SNext

THEOREM SortInvariance == SSpec => []SortInv
<1>1. SInit => SortInv
  BY SortInvInit
<1>2. SortInv /\ [SNext]_sortVars => SortInv'
  BY SortInvStep
<1> QED BY <1>1, <1>2, PTL DEF SSpec

THEOREM SearchesStayInside == SSpec => []InBounds
<1>1. SortInv => InBounds
  BY DEF SortInv, Sorting, Dividing, InBounds
<1> QED BY <1>1, SortInvariance, PTL

(* Each key is there as often as it was. *)
LEMMA CountsKept ==
  ASSUME SortInv, NEW key
  PROVE  Cardinality({i \in DOMAIN a : a[i] = key})
           = Cardinality({i \in DOMAIN sort_call.s : sort_call.s[i] = key})
<1> DEFINE n == Len(sort_call.s)
           S == {i \in DOMAIN a : a[i] = key}
           T == {i \in DOMAIN sort_call.s : sort_call.s[i] = key}
<1>1. SortTypeOK /\ Shuffled(Places, Given, a, 0, n)
  BY DEF SortInv
<1>2. sort_call.s \in Seq(Int) /\ n \in Nat /\ DOMAIN sort_call.s = 1..n
  BY <1>1, SortAssumption DEF SortTypeOK
<1>3. PICK p \in [Places -> Places] : Moves(Places, p, 0, n) /\ \A i \in Places : a[i] = Given[p[i]]
  BY <1>1 DEF Shuffled
<1>4. DOMAIN a = Places /\ Places = 0..(n - 1)
  BY <1>1 DEF SortTypeOK, Arrays, Places
<1>5. \A i \in Places : p[i] \in Places /\ a[i] = sort_call.s[p[i] + 1] /\ p[i] + 1 \in 1..n
  <2>1. \A i \in Places : Given[i] = sort_call.s[i + 1] /\ i + 1 \in 1..n
    BY <1>2, <1>4 DEF Given
  <2> QED BY <1>3, <2>1
<1>6. /\ \A i, j \in Places : p[i] = p[j] => i = j
      /\ \A j \in Places : \E i \in Places : p[i] = j
  BY <1>3 DEF Moves
<1> DEFINE f == [i \in S |-> p[i] + 1]
<1>7. f \in [S -> T]
  <2>1. \A i \in S : i \in Places /\ a[i] = key
    BY <1>4
  <2>2. \A i \in S : p[i] + 1 \in T
    BY <1>2, <1>5, <2>1
  <2> HIDE DEF S, T
  <2> QED BY <2>2
<1>8. \A i \in S : i \in Places /\ f[i] = p[i] + 1
  BY <1>4
<1>9. \A t \in T : \E i \in S : f[i] = t
  <2> SUFFICES ASSUME NEW t \in T PROVE \E i \in S : f[i] = t
    OBVIOUS
  <2>1. t \in 1..n /\ sort_call.s[t] = key
    BY <1>2
  <2>2. t - 1 \in Places
    BY <1>2, <1>4, <2>1
  <2>3. PICK i \in Places : p[i] = t - 1
    BY <1>6, <2>2
  <2>4. p[i] + 1 = t
    BY <2>1, <2>3
  <2>5. i \in S
    BY <1>4, <1>5, <2>1, <2>4
  <2> HIDE DEF S, T, f
  <2> QED BY <1>8, <2>4, <2>5
<1> HIDE DEF S, T, f
<1>10. \A i, j \in S : f[i] = f[j] => i = j
  <2>1. \A i \in Places : p[i] \in Int
    BY <1>4, <1>5
  <2>2. ASSUME NEW i \in S, NEW j \in S, f[i] = f[j] PROVE i = j
    <3>1. p[i] + 1 = p[j] + 1 /\ p[i] \in Int /\ p[j] \in Int
      BY <1>8, <2>1, <2>2
    <3>2. p[i] = p[j]
      BY <3>1
    <3> QED BY <1>6, <1>8, <3>2
  <2> QED BY <2>2
<1>11. ExistsBijection(S, T)
  <2>1. f \in Injection(S, T)
    BY <1>7, <1>10 DEF Injection, IsInjective
  <2>2. f \in Surjection(S, T)
    BY <1>7, <1>9 DEF Surjection
  <2> QED BY <2>1, <2>2 DEF ExistsBijection, Bijection
<1>12. IsFiniteSet(S)
  <2>1. IsFiniteSet(0..(n - 1))
    <3>1. n - 1 \in Int /\ 0 \in Int
      BY <1>2
    <3> QED BY <3>1, FS_Interval
  <2>2. S \in SUBSET (0..(n - 1))
    BY <1>4 DEF S
  <2> QED BY <2>1, <2>2, FS_Subset
<1>13. Cardinality(S) = Cardinality(T)
  BY <1>11, <1>12, FS_Bijection
<1> QED BY <1>13 DEF S, T

THEOREM SortsRight == SSpec => []SortRight
<1>1. ASSUME SortInv PROVE SortRight
  <2> DEFINE n == Len(sort_call.s)
  <2>1. \A i \in DOMAIN sort_call.s :
          Cardinality({j \in DOMAIN a : a[j] = sort_call.s[i]})
            = Cardinality({j \in DOMAIN sort_call.s : sort_call.s[j] = sort_call.s[i]})
    BY <1>1, CountsKept
  <2>2. ASSUME sort_pc = "done", NEW i \in 1..(n - 1) PROVE a[i - 1] <= a[i]
    <3>1. loops = <<>> /\ Settled
      BY <1>1, <2>2 DEF SortInv, Sorting, Dividing
    <3>2. n \in Nat
      BY <1>1, SortAssumption DEF SortInv, SortTypeOK
    <3>3. i - 1 \in Places /\ i \in Places /\ i - 1 < i
      BY <2>2, <3>2 DEF Places
    <3>4. 1..Len(loops) = {}
      BY <3>1
    <3> QED BY <3>1, <3>3, <3>4 DEF Settled
  <2>3. sort_pc = "divided" => Divided
    BY <1>1 DEF SortInv, Sorting, Dividing
  <2> QED BY <2>1, <2>2, <2>3 DEF SortRight, Divided
<1> QED BY <1>1, SortInvariance, PTL

=============================================================================

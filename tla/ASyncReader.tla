---------------------------- MODULE ASyncReader ----------------------------
(***************************************************************************)
(* src/readers/ASyncReader.cpp: a reader with two windows.  While the      *)
(* consumer uses one, the kernel fills the other (Linux aio).  The first   *)
(* call of next() reads its window itself, with pread, and submits the     *)
(* read of the second; every later call waits for the read in flight,      *)
(* makes its buffer the window, and submits the next.                      *)
(*                                                                         *)
(* A shared buffer is the caller's, as large as the segment, and is filled *)
(* from left to right.  Otherwise the constructor allocates one buffer and *)
(* the first call the other, and the two change places.                    *)
(*                                                                         *)
(* A byte is its position in the file.  The results of io_submit and       *)
(* io_getevents are not looked at: a read that fails leaves what was in    *)
(* the buffer.                                                             *)
(***************************************************************************)
EXTENDS Integers

CONSTANTS
  From, Ends,  (* the segments of the file that are read                   *)
  FileSize,
  ChunkSize,   (* the argument chunk_size, which the constructor uses as
                  it is; the member of that name is its own if it is 0     *)
  MaxErrors,   (* bound on the reads that fail                             *)
  Word,        (* the number of values of a uint64_t                       *)
  Stale        (* a byte of memory nobody has written                      *)

ASSUME ASyncAssumption ==
  /\ From \in Nat /\ FileSize \in Nat /\ Ends \subseteq From..FileSize
  /\ ChunkSize \in Nat /\ MaxErrors \in Nat
  /\ Word \in Nat /\ Word > 4 * (FileSize + ChunkSize + 1)
  /\ Stale \notin Int

VARIABLES
  shared_buffer, (* which constructor was called                           *)
  to,            (* FileReader::to                                         *)
  from,          (* FileReader::from                                       *)
  buffer,        (* FileReader::buffer: a block of memory and an offset    *)
  async_buffer,  (* likewise, or Null                                      *)
  memory,        (* the bytes of every block                               *)
  handle,        (* async_handle: where to, from where and how much        *)
  flight,        (* the read in flight: "running" or "ended", and how much
                    of it is done; "none" if there is none                 *)
  pc,            (* "idle", "reading" (in blocking_next), "ended" or
                    "destroyed"                                            *)
  bytes_read,    (* blocking_next's local variable                         *)
  read_amt,      (* blocking_next's local variable                         *)
  window,        (* the pointer the last call returned                     *)
  sz,            (* the consumer's variable that next() sets               *)
  delivered,     (* history: how many bytes of the segment it was given    *)
  errors,        (* how many reads have failed                             *)
  broken         (* history: a read has failed, or ended early             *)

vars == <<shared_buffer, to, from, buffer, async_buffer, memory, handle, flight,
          pc, bytes_read, read_amt, window, sz, delivered, errors, broken>>

-----------------------------------------------------------------------------

(* The constructor of FileReader. *)
chunk_size == IF ChunkSize = 0 THEN to - From ELSE ChunkSize

(* The blocks of memory: the caller's, or the one the constructor allocates
   and the one the first call does. *)
Size == IF shared_buffer THEN [caller |-> to - From]
        ELSE [first |-> ChunkSize, second |-> chunk_size]

Null == [block |-> "null", at |-> 0]
Plus(p, n) == [p EXCEPT !.at = (@ + n) % Word]

(* No read has been submitted, or its completion has been collected. *)
None == [state |-> "none", done |-> 0]

InMemory(p) == p.at < Size[p.block]

(* The n bytes from address p on. *)
BytesAt(p, n) ==
  [i \in 1..n |-> LET q == Plus(p, i - 1)
                  IN IF InMemory(q) THEN memory[q.block][q.at] ELSE Stale]

(* n bytes of the file, from position on, are put at address p; what falls
   outside the block is lost to the reader. *)
Store(p, n, position) ==
  memory' = [memory EXCEPT ![p.block] =
               [i \in DOMAIN @ |->
                  LET offset == (i - p.at) % Word
                  IN IF offset < n THEN position + offset ELSE @[i]]]

(* io_submit, which refuses a negative offset. *)
Submit ==
  flight' = IF handle'.offset < Word \div 2
            THEN [state |-> "running", done |-> 0] ELSE None

Return(p, n) ==
  /\ window' = p
  /\ sz' = n
  /\ delivered' = IF broken THEN delivered ELSE delivered + n

-----------------------------------------------------------------------------
(* next() *)

AtEnd ==
  /\ pc = "idle" /\ from = to
  /\ pc' = "ended"
  /\ UNCHANGED <<shared_buffer, to, from, buffer, async_buffer, memory, handle,
                 flight, bytes_read, read_amt, window, sz, delivered, errors,
                 broken>>

(* The first call reaches blocking_next. *)
CallFirst ==
  /\ pc = "idle" /\ from # to /\ async_buffer = Null
  /\ async_buffer' = IF shared_buffer THEN Plus(buffer, chunk_size)
                     ELSE [block |-> "second", at |-> 0]
  /\ pc' = "reading"
  /\ bytes_read' = 0
  /\ read_amt' = IF to - from < chunk_size THEN to - from ELSE chunk_size
  /\ UNCHANGED <<shared_buffer, to, from, buffer, memory, handle, flight, window,
                 sz, delivered, errors, broken>>

Reading == pc = "reading" /\ bytes_read < read_amt

FilePos == (from + bytes_read) % Word

Pread(n) ==
  /\ Reading
  /\ n \in 1..(read_amt - bytes_read) /\ FilePos + n <= FileSize
  /\ Store(Plus(buffer, bytes_read), n, FilePos)
  /\ bytes_read' = bytes_read + n
  /\ UNCHANGED <<shared_buffer, to, from, buffer, async_buffer, handle, flight,
                 pc, read_amt, window, sz, delivered, errors, broken>>

(* Its -1 is added to an unsigned counter: with nothing read yet, the loop
   ends. *)
PreadFails ==
  /\ Reading
  /\ errors < MaxErrors /\ errors' = errors + 1
  /\ bytes_read' = (bytes_read - 1) % Word
  /\ broken' = (broken \/ bytes_read = 0)
  /\ UNCHANGED <<shared_buffer, to, from, buffer, async_buffer, memory, handle,
                 flight, pc, read_amt, window, sz, delivered>>

(* blocking_next returns, and the first read is submitted: what it asks for
   was fixed by the constructor, apart from the address. *)
FirstReturns ==
  /\ pc = "reading" /\ ~Reading
  /\ from' = (from + bytes_read) % Word
  /\ handle' = [handle EXCEPT !.buf = async_buffer]
  /\ Submit
  /\ Return(buffer, read_amt)
  /\ pc' = "idle"
  /\ UNCHANGED <<shared_buffer, to, buffer, async_buffer, memory, bytes_read,
                 read_amt, errors, broken>>

(* The two buffers after a call (before that: if only one pointer moves, or
   the shared ones move one byte short). *)
SwapOne == buffer' = async_buffer /\ UNCHANGED async_buffer

SwapShort ==
  /\ buffer' = Plus(buffer, chunk_size)
  /\ async_buffer' = Plus(async_buffer, chunk_size - 1)

Swap ==
  IF shared_buffer
  THEN /\ buffer' = Plus(buffer, chunk_size)
       /\ async_buffer' = Plus(async_buffer, chunk_size)
  ELSE buffer' = async_buffer /\ async_buffer' = buffer

(* from after a call. *)
NextFrom == (from + chunk_size) % Word

(* Whether the call returns before it submits another read (and if it never
   does). *)
NeverLast == FALSE

Last == NextFrom = to

(* io_getevents returns (and a call that does not wait for it). *)
NotAwaited == flight.state # "none"

Completed == flight.state = "ended"

(* Every later call: it returns from io_getevents, and the window that was
   read last becomes the consumer's.  The last one leaves *sz as it is. *)
CallAgain ==
  /\ pc = "idle" /\ from # to /\ async_buffer # Null
  /\ Completed
  /\ Swap
  /\ from' = NextFrom
  /\ IF Last
     THEN /\ flight' = None
          /\ Return(buffer', sz)
          /\ UNCHANGED handle
     ELSE /\ handle' = [buf |-> async_buffer', offset |-> NextFrom,
                        nbytes |-> chunk_size]
          /\ Submit
          /\ Return(buffer', chunk_size)
  /\ UNCHANGED <<shared_buffer, to, memory, pc, bytes_read, read_amt, errors,
                 broken>>

(* Nothing was submitted, and io_getevents never returns: a step that changes
   nothing. *)
WaitForever ==
  /\ pc = "idle" /\ from # to /\ async_buffer # Null
  /\ flight.state = "none"
  /\ UNCHANGED vars

(* The destructor: it does not wait for a read in flight. *)
Destroy ==
  /\ pc = "ended"
  /\ pc' = "destroyed"
  /\ UNCHANGED <<shared_buffer, to, from, buffer, async_buffer, memory, handle,
                 flight, bytes_read, read_amt, window, sz, delivered, errors,
                 broken>>

-----------------------------------------------------------------------------
(* The kernel, at any time. *)

Transfer(n) ==
  /\ flight.state = "running"
  /\ flight.done + n <= handle.nbytes
  /\ handle.offset + flight.done + n <= FileSize
  /\ Store(Plus(handle.buf, flight.done), n, handle.offset + flight.done)
  /\ flight' = [flight EXCEPT !.done = @ + n]
  /\ UNCHANGED <<shared_buffer, to, from, buffer, async_buffer, handle, pc,
                 bytes_read, read_amt, window, sz, delivered, errors, broken>>

(* A read that ends at the end of the file, or before it has read anything,
   is like any other to the reader. *)
Complete ==
  /\ flight.state = "running"
  /\ \/ flight.done = handle.nbytes /\ UNCHANGED <<errors, broken>>
     \/ /\ handle.offset + flight.done >= FileSize
        /\ flight.done < handle.nbytes
        /\ broken' = TRUE /\ UNCHANGED errors
     \/ /\ flight.done < handle.nbytes
        /\ errors < MaxErrors /\ errors' = errors + 1
        /\ broken' = TRUE
  /\ flight' = [flight EXCEPT !.state = "ended"]
  /\ UNCHANGED <<shared_buffer, to, from, buffer, async_buffer, memory, handle,
                 pc, bytes_read, read_amt, window, sz, delivered>>

Init ==
  /\ shared_buffer \in BOOLEAN
  /\ to \in Ends
  /\ from = From
  /\ buffer = [block |-> IF shared_buffer THEN "caller" ELSE "first", at |-> 0]
  /\ async_buffer = Null
  /\ memory = [b \in DOMAIN Size |-> [i \in 0..(Size[b] - 1) |-> Stale]]
  /\ handle = [buf |-> Null, offset |-> From + ChunkSize, nbytes |-> ChunkSize]
  /\ flight = None
  /\ pc = "idle"
  /\ bytes_read = 0
  /\ read_amt = 0
  /\ window = Null
  /\ sz = 0
  /\ delivered = 0
  /\ errors = 0
  /\ broken = FALSE

Reader ==
  \/ AtEnd \/ CallFirst \/ PreadFails \/ FirstReturns \/ CallAgain
  \/ WaitForever \/ Destroy
  \/ \E n \in 1..chunk_size : Pread(n)

Kernel == Complete \/ \E n \in 1..chunk_size : Transfer(n)

Terminated == pc = "destroyed" /\ UNCHANGED vars

Next == Reader \/ Kernel \/ Terminated

Spec == Init /\ [][Next]_vars

(* The consumer calls next() until it returns a null pointer, and the kernel
   goes on with a read until it has ended. *)
FairSpec == Spec /\ WF_vars(Reader) /\ WF_vars(Kernel)

-----------------------------------------------------------------------------
(* Properties. *)

(* The kernel never writes to the window the consumer is using: the bytes of
   the read in flight and the bytes that next() has returned last lie apart,
   after every number of calls and also after a failure. *)
KernelApart ==
  flight.state = "running" /\ sz > 0 =>
    \/ handle.buf.block # window.block
    \/ handle.buf.at + handle.nbytes <= window.at
    \/ window.at + sz <= handle.buf.at

(* When the destructor has freed the buffers, the kernel is not writing to
   them: the last call submits nothing, and every call before it waits for
   what was submitted.  Only if the first window is the whole segment does the
   first call submit a read that nobody waits for. *)
NothingInFlight ==
  pc = "destroyed" /\ to - From > chunk_size => flight.state # "running"

(* from has passed to without being equal to it, as it does if the segment is
   no multiple of the chunk: the reader reads on. *)
Passed == delivered > to - From

(* A shared buffer still holds everything it was given, in its place, for
   whoever reads it after the segment has been loaded. *)
Retained ==
  shared_buffer /\ ~broken /\ ~Passed =>
    \A k \in 0..(delivered - 1) : memory["caller"][k] = From + k

(* The reader delivers the segment in windows of one chunk, exactly and in
   order, until a read fails or the end is passed, and else comes to an end;
   and a window stays as it is while the kernel fills the other. *)
Stream == INSTANCE ChunkStream
  WITH first <- From, last <- to, chunk <- chunk_size,
       position <- From + delivered, window <- BytesAt(window, sz),
       finished <- pc \in {"ended", "destroyed"}, broken <- broken \/ Passed

ImplementsStream == Stream!SSpec

(* "If CHUNK_SIZE is 0, the whole thread segment will be read"
   (utilities/Constants.cpp:25): what the consumer is given is the segment. *)
WholeSegmentRead ==
  ChunkSize = 0 /\ ~broken /\ delivered > 0 =>
    BytesAt(window, sz) = [i \in 1..(to - From) |-> From + i - 1]

=============================================================================

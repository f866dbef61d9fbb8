----------------------------- MODULE ReadReader -----------------------------
(***************************************************************************)
(* The blocking readers: src/readers/ReadReader.cpp, and                   *)
(* src/readers/HybridReadReader.cpp, whose first window is already in the  *)
(* buffer.  A consumer calls next() until it returns a null pointer.       *)
(*                                                                         *)
(* A reader of mode "own" has a buffer of its own, used again by every     *)
(* call.  One of mode "append" has a buffer for the whole segment, filled  *)
(* from left to right (ColumnStoreTask).  One of mode "hybrid" has a       *)
(* buffer of one chunk that the caller has filled with the bytes that come *)
(* before from.                                                            *)
(*                                                                         *)
(* A byte is its position in the stream.  pread may return less than asked *)
(* for, and may fail; next() adds its result, -1 included, to an unsigned  *)
(* counter: from, bytes_read and the buffer pointer are modulo Word.       *)
(***************************************************************************)
EXTENDS Integers

CONSTANTS
  Readers,     (* the readers: their mode and their constructor's arguments
                  from, to and chunk_size (0 means the whole segment)      *)
  FileSize,
  MaxErrors,   (* bound on the pread calls that fail                       *)
  Word,        (* the number of values of a uint64_t                       *)
  Stale        (* a byte of memory nobody has written                      *)

(* The callers compute the segment from the size of the file; a hybrid
   reader's buffer is one chunk. *)
ASSUME ReaderAssumption ==
  /\ FileSize \in Nat /\ MaxErrors \in Nat /\ Word \in Nat
  /\ Readers \subseteq [mode : {"own", "append", "hybrid"},
                        from : 0..FileSize, to : 0..FileSize, chunk_size : Nat]
  /\ \A r \in Readers :
       /\ r.from <= r.to
       /\ r.mode = "hybrid" => r.chunk_size > 0
       /\ Word > 4 * (FileSize + r.chunk_size + 1)
  /\ Stale \notin Int

VARIABLES
  reader,     (* the reader of this behaviour                              *)
  from,       (* FileReader::from                                          *)
  buffer,     (* FileReader::buffer, as an index of memory                 *)
  memory,     (* the bytes of the buffer                                   *)
  first_run,  (* HybridReadReader::first_run                               *)
  bytes_read, (* next's local variable                                     *)
  read_amt,   (* next's local variable                                     *)
  pc,         (* "idle", "reading" (in next's loop) or "ended"             *)
  window,     (* what the last call returned: the first *sz bytes there    *)
  delivered,  (* history: how many bytes of the stream have been returned  *)
  errors,     (* how many pread calls have failed                          *)
  dropped,    (* history: whether one failed with nothing read yet  *)
  overrun     (* history: whether a byte was put outside the buffer        *)

vars == <<reader, from, buffer, memory, first_run, bytes_read, read_amt, pc,
          window, delivered, errors, dropped, overrun>>

-----------------------------------------------------------------------------

Mode == reader.mode
From == reader.from
To == reader.to

(* The constructor of FileReader. *)
chunk_size == IF reader.chunk_size = 0 THEN To - From ELSE reader.chunk_size

MemorySize == IF Mode = "append" THEN To - From ELSE chunk_size

(* The stream starts with what the caller put into a hybrid reader's buffer. *)
Start == IF Mode = "hybrid" THEN From - chunk_size ELSE From

Returns(size) ==
  window' = [i \in 1..size |->
               LET at == (buffer + i - 1) % Word
               IN IF at \in DOMAIN memory THEN memory[at] ELSE Stale]

(* HybridReadReader::next, the first time (and one that never notes it). *)
FirstNextAgain ==
  /\ pc = "idle" /\ first_run
  /\ Returns(chunk_size)
  /\ delivered' = delivered + chunk_size
  /\ UNCHANGED <<reader, from, buffer, memory, first_run, bytes_read,
                 read_amt, pc, errors, dropped, overrun>>

FirstNext ==
  /\ pc = "idle" /\ first_run
  /\ first_run' = FALSE
  /\ Returns(chunk_size)
  /\ delivered' = delivered + chunk_size
  /\ UNCHANGED <<reader, from, buffer, memory, bytes_read, read_amt, pc,
                 errors, dropped, overrun>>

Left == (To - from) % Word

(* The size of the next window. *)
Amount == IF Left < chunk_size THEN Left ELSE chunk_size

(* ReadReader::next is called, and reaches its loop. *)
CallNext ==
  /\ pc = "idle" /\ ~first_run
  /\ pc' = "reading"
  /\ bytes_read' = 0
  /\ read_amt' = Amount
  /\ UNCHANGED <<reader, from, buffer, memory, first_run, window, delivered,
                 errors, dropped, overrun>>

Reading == pc = "reading" /\ bytes_read < read_amt

(* Where pread reads, and where it puts what it reads (and the place it puts
   everything if the buffer pointer does not advance within a call). *)
FilePos == (from + bytes_read) % Word

AtBuffer == buffer

IntoBuffer == (buffer + bytes_read) % Word

(* pread reads n bytes. *)
Pread(n) ==
  /\ Reading
  /\ n <= read_amt - bytes_read
  /\ FilePos + n <= FileSize /\ n > 0
  /\ memory' = [i \in DOMAIN memory |->
                  LET offset == (i - IntoBuffer) % Word
                  IN IF offset < n THEN FilePos + offset ELSE memory[i]]
  /\ overrun' = (overrun \/ IntoBuffer + n > MemorySize)
  /\ bytes_read' = bytes_read + n
  /\ UNCHANGED <<reader, from, buffer, first_run, read_amt, pc, window,
                 delivered, errors, dropped>>

(* pread returns -1; it always does where the offset is negative as an off_t. *)
PreadFails ==
  /\ Reading
  /\ IF FilePos >= Word \div 2 THEN UNCHANGED errors
     ELSE errors < MaxErrors /\ errors' = errors + 1
  /\ dropped' = (dropped \/ bytes_read = 0)
  /\ bytes_read' = (bytes_read - 1) % Word
  /\ UNCHANGED <<reader, from, buffer, memory, first_run, read_amt, pc,
                 window, delivered, overrun>>

(* Past the end of the file pread returns 0, and the loop goes on for ever: a
   step that changes nothing. *)
PreadEOF ==
  /\ Reading
  /\ FileSize <= FilePos /\ FilePos < Word \div 2
  /\ UNCHANGED vars

(* The buffer pointer after a call (and one that an append reader forgets to
   move, and one that every reader moves). *)
NotMoved == buffer

AlwaysMoved == (buffer + bytes_read) % Word

NextBuffer ==
  IF Mode = "append" THEN (buffer + bytes_read) % Word ELSE buffer

NextFrom == (from + bytes_read) % Word

NextReturns ==
  /\ pc = "reading" /\ ~Reading
  /\ from' = NextFrom
  /\ buffer' = NextBuffer
  /\ IF read_amt = 0
     THEN pc' = "ended" /\ UNCHANGED <<reader, window, delivered>>
     ELSE /\ pc' = "idle"
          /\ Returns(read_amt)
          /\ delivered' = IF dropped THEN delivered ELSE delivered + read_amt
  /\ UNCHANGED <<reader, memory, first_run, bytes_read, read_amt, errors,
                 dropped, overrun>>

Terminated == pc = "ended" /\ UNCHANGED vars

Init ==
  /\ reader \in Readers
  /\ from = From
  /\ buffer = 0
  /\ memory = [i \in 0..(MemorySize - 1) |->
                 IF Mode = "hybrid" THEN Start + i ELSE Stale]
  /\ first_run = (Mode = "hybrid")
  /\ bytes_read = 0
  /\ read_amt = 0
  /\ pc = "idle"
  /\ window = <<>>
  /\ delivered = 0
  /\ errors = 0
  /\ dropped = FALSE
  /\ overrun = FALSE

Reader ==
  \/ FirstNext \/ CallNext \/ NextReturns \/ PreadFails \/ PreadEOF
  \/ \E n \in 1..chunk_size : Pread(n)

Next == Reader \/ Terminated

Spec == Init /\ [][Next]_vars

(* The thread that reads goes on, and calls next() again until it returns a
   null pointer. *)
FairSpec == Spec /\ WF_vars(Reader)

-----------------------------------------------------------------------------
(* Properties. *)

(* A byte of the stream, of the file, or of fresh memory. *)
Byte == Start..(FileSize - 1) \cup 0..(FileSize - 1) \cup {Stale}

(* As long as no pread failed with nothing read in its call, no byte is put
   outside the buffer: neither by a short read that is continued, nor by a
   failure in the middle of a call, nor by the calls that fill a shared
   buffer. *)
WithinBuffer == ~dropped => ~overrun

(* An append reader keeps every byte it has returned where its consumer saw
   it: ReadSortedRAMTask and PrepMergeBufferTask read the whole chunk long
   after the ColumnStoreTask that loaded it. *)
Retained ==
  Mode = "append" /\ ~dropped =>
    \A k \in 0..(delivered - 1) : memory[k] = From + k

(* The reader delivers the stream in windows of one chunk, exactly and in
   order, until a pread fails with nothing read; and it comes to an end. *)
Stream == INSTANCE ChunkStream
  WITH first <- Start, last <- To, chunk <- chunk_size,
       position <- Start + delivered, window <- window,
       finished <- pc = "ended", broken <- dropped

ImplementsStream == Stream!SSpec

=============================================================================

-------------------------- MODULE BufferringWriter --------------------------
(***************************************************************************)
(* The buffered writer of src/writers/BufferringWriter.cpp: write() copies *)
(* into a buffer of Capacity bytes, a full buffer is flushed with pwrite   *)
(* at the writer's offset, the destructor flushes what is left.            *)
(*                                                                         *)
(* A byte is identified by its position in the stream of bytes handed to   *)
(* write(): byte k is the k-th, and belongs at position Base + k of the    *)
(* file.  pwrite may write less than it was asked to, and may fail; flush  *)
(* adds its result, -1 included, to an unsigned counter, so arithmetic on  *)
(* that counter is modulo Word.                                            *)
(***************************************************************************)
EXTENDS Integers

CONSTANTS
  Capacity,  (* the size of the buffer                                     *)
  Base,      (* the offset the writer starts at                            *)
  Sizes,     (* the sizes write() is called with                           *)
  Limit,     (* bound on the bytes handed to write()                       *)
  MaxErrors, (* bound on the pwrite calls that fail                        *)
  Word,      (* the number of values of a uint64_t                         *)
  Hole,      (* a byte of the file nobody has written                      *)
  Stale      (* a byte of the buffer nobody has written                    *)

(* "Size should always be <= capacity" (BufferringWriter.h:24); an unsigned
   integer counts every byte a writer is given. *)
ASSUME WriterAssumption ==
  /\ Capacity \in Nat /\ Base \in Nat /\ Limit \in Nat /\ MaxErrors \in Nat
  /\ Sizes \subseteq 1..Capacity
  /\ Word \in Nat /\ Word > Base + Limit + Capacity
  /\ Hole \notin Int /\ Stale \notin Int

VARIABLES
  disk,          (* the file, from position 0 to Base + Limit - 1          *)
  buffer,        (* the bytes of the malloc'ed buffer                      *)
  offset,        (* where the buffer's first byte belongs in the file      *)
  current_size,  (* the bytes of the buffer in use                         *)
  bytes_written, (* flush's local variable                                 *)
  pending,       (* the size of the write() that called flush; 0 from the
                    destructor                                             *)
  pc,            (* "idle", "flush" (in flush's loop) or "destroyed"       *)
  handed,        (* history: how many bytes write() was handed             *)
  errors,        (* how many pwrite calls have failed                      *)
  dropped        (* history: how many of them failed on an unstarted flush *)

vars == <<disk, buffer, offset, current_size, bytes_written, pending, pc,
          handed, errors, dropped>>

-----------------------------------------------------------------------------

(* memcpy(buffer + at, buf, size), buf holding the next bytes of the stream. *)
Copied(at, size) ==
  [i \in DOMAIN buffer |->
     IF i \in at..(at + size - 1) THEN handed + (i - at) ELSE buffer[i]]

Copy(at, size) ==
  /\ buffer' = Copied(at, size)
  /\ current_size' = at + size
  /\ handed' = handed + size

(* The test that keeps the buffer within its capacity (and one that lets it
   fill up too late). *)
FitsFull(size) == current_size <= Capacity

Fits(size) == current_size + size <= Capacity

WriteFits(size) ==
  /\ pc = "idle"
  /\ handed + size <= Limit
  /\ Fits(size)
  /\ Copy(current_size, size)
  /\ UNCHANGED <<disk, offset, bytes_written, pending, pc, errors, dropped>>

(* write() or the destructor enters flush. *)
EnterFlush(size) ==
  /\ pc' = "flush"
  /\ bytes_written' = 0
  /\ pending' = size
  /\ UNCHANGED <<disk, buffer, offset, current_size, handed, errors, dropped>>

WriteFull(size) ==
  /\ pc = "idle"
  /\ handed + size <= Limit
  /\ ~Fits(size)
  /\ EnterFlush(size)

(* The destructor (and one that only frees the buffer). *)
DestroyUnflushed ==
  /\ pc = "idle"
  /\ pc' = "destroyed"
  /\ UNCHANGED <<disk, buffer, offset, current_size, bytes_written, pending,
                 handed, errors, dropped>>

Destroy == pc = "idle" /\ EnterFlush(0)

(* The condition of flush's loop (and one pwrite instead of a loop). *)
FlushingOnce == pc = "flush" /\ bytes_written = 0 /\ current_size > 0

Flushing == pc = "flush" /\ bytes_written < current_size

(* Which byte of the buffer the i-th byte of a pwrite comes from (and from
   the start of the buffer), and where in the file it goes. *)
FromStart(i) == i

FromBuffer(i) == bytes_written + i

ToFile(i) == offset + bytes_written + i

(* The new value of bytes_written (and one that forgets the last pwrite). *)
NotAdvanced(n) == bytes_written

Advanced(n) == (bytes_written + n) % Word

(* pwrite writes n bytes. *)
Pwrite(n) ==
  /\ Flushing
  /\ n \in 1..(current_size - bytes_written)
  /\ disk' = [p \in DOMAIN disk |->
                IF p \in ToFile(0)..ToFile(n - 1)
                THEN buffer[FromBuffer(p - ToFile(0))]
                ELSE disk[p]]
  /\ bytes_written' = Advanced(n)
  /\ UNCHANGED <<buffer, offset, current_size, pending, pc, handed, errors,
                 dropped>>

(* pwrite returns -1. *)
PwriteFails ==
  /\ Flushing
  /\ errors < MaxErrors
  /\ errors' = errors + 1
  /\ dropped' = IF bytes_written = 0 THEN dropped + 1 ELSE dropped
  /\ bytes_written' = Advanced(-1)
  /\ UNCHANGED <<disk, buffer, offset, current_size, pending, pc, handed>>

(* Where the next buffer belongs (and the place of the one just flushed). *)
SameOffset == offset

NextOffset == offset + current_size

(* The loop is over: flush returns to its caller, which goes on. *)
FlushReturns ==
  /\ pc = "flush" /\ ~Flushing
  /\ offset' = NextOffset
  /\ bytes_written' = 0
  /\ pending' = 0
  /\ IF pending = 0
     THEN /\ current_size' = 0
          /\ pc' = "destroyed"
          /\ UNCHANGED <<buffer, handed>>
     ELSE /\ Copy(0, pending)
          /\ pc' = "idle"
  /\ UNCHANGED <<disk, errors, dropped>>

Terminated == pc = "destroyed" /\ UNCHANGED vars

Init ==
  /\ disk = [p \in 0..(Base + Limit - 1) |-> Hole]
  /\ buffer = [i \in 0..(Capacity - 1) |-> Stale]
  /\ offset = Base
  /\ current_size = 0
  /\ bytes_written = 0
  /\ pending = 0
  /\ pc = "idle"
  /\ handed = 0
  /\ errors = 0
  /\ dropped = 0

Write == \E size \in Sizes : WriteFits(size) \/ WriteFull(size)

FlushStep ==
  \/ \E n \in 1..Capacity : Pwrite(n)
  \/ PwriteFails
  \/ FlushReturns

Next == Write \/ Destroy \/ FlushStep \/ Terminated

Spec == Init /\ [][Next]_vars

(* A thread in flush runs on; the owner of the writer need not write, and
   destroys it in the end. *)
FairSpec == Spec /\ WF_vars(FlushStep) /\ WF_vars(Destroy)

-----------------------------------------------------------------------------
(* Properties. *)

(* Every variable has its type; the buffer never overflows. *)
TypeOK ==
  /\ disk \in [0..(Base + Limit - 1) -> 0..(Limit - 1) \cup {Hole}]
  /\ buffer \in [0..(Capacity - 1) -> 0..(Limit - 1) \cup {Stale}]
  /\ offset \in Base..(Base + Limit)
  /\ current_size \in 0..Capacity
  /\ bytes_written \in 0..(Word - 1)
  /\ pending \in Sizes \cup {0}
  /\ pc \in {"idle", "flush", "destroyed"}
  /\ handed \in 0..Limit
  /\ errors \in 0..MaxErrors
  /\ dropped \in 0..errors

(* Whatever pwrite does, also when it fails, a byte is only ever written at
   its own place in the file, and nothing below the writer's first offset is
   touched: two writers with disjoint ranges cannot disturb each other. *)
InPlace ==
  \A p \in DOMAIN disk :
    disk[p] = Hole \/ (p >= Base /\ p < Base + handed /\ disk[p] = p - Base)

(* Every byte handed over is in the file or still in the buffer. *)
InFileOrBuffer ==
  \A k \in 0..(handed - 1) :
    IF Base + k < offset THEN disk[Base + k] = k
                         ELSE buffer[Base + k - offset] = k

AllInFile == \A k \in 0..(handed - 1) : disk[Base + k] = k

(* Unless the first pwrite of some flush failed, no byte is lost, by a short
   write or by a failure in the middle of a flush, and when the destructor is
   done all of them are in the file. *)
Conserved ==
  dropped = 0 => InFileOrBuffer /\ (pc = "destroyed" => AllInFile)

(* A byte that reached the file is never changed again. *)
Durable == [][\A p \in DOMAIN disk : disk[p] # Hole => disk'[p] = disk[p]]_vars

(* Short writes and retries come to an end: the destructor returns. *)
DestructorReturns == <>(pc = "destroyed")

=============================================================================

------------------------- MODULE ASyncReaderProofs -------------------------
(***************************************************************************)
(* The reader with two windows never lets the kernel write to the window   *)
(* in use, keeps in a shared buffer what it returned, leaves no read in    *)
(* flight behind and delivers the segment in order, for any segment, any   *)
(* size of the chunk and any pattern of short reads and failures.          *)
(*                                                                         *)
(* The argument: as long as a read may still be collected its offset is    *)
(* from (or the reader is at its first window), and its address is one     *)
(* chunk behind the window, or in the other block; that offset is below    *)
(* half of the word, as the kernel refuses others, so that neither from    *)
(* nor an address has wrapped.  Without a failure from is what has been    *)
(* delivered, and the bytes the kernel has put are those of the file.      *)
(***************************************************************************)
EXTENDS ASyncReader, TLAPS

(* How much the first call asks for. *)
Ask == IF to - From < chunk_size THEN to - From ELSE chunk_size

Blocks == {"caller", "first", "second", "null"}
Addresses == [block : Blocks, at : 0..(Word - 1)]

Typing ==
  /\ shared_buffer \in BOOLEAN
  /\ to \in Ends
  /\ from \in 0..(Word - 1)
  /\ buffer \in Addresses /\ async_buffer \in Addresses
  /\ memory = [b \in DOMAIN Size |-> memory[b]]
  /\ \A b \in DOMAIN Size : DOMAIN memory[b] = 0..(Size[b] - 1)
  /\ handle \in [buf : Addresses, offset : Nat, nbytes : Nat]
  /\ flight \in [state : {"none", "running", "ended"}, done : Nat]
  /\ pc \in {"idle", "reading", "ended", "destroyed"}
  /\ bytes_read \in Nat /\ read_amt \in Nat
  /\ sz \in Nat /\ delivered \in Nat /\ errors \in Nat
  /\ broken \in BOOLEAN

(* What was read to address p, n bytes from position on, is there, as far as
   it lies inside the block. *)
Filled(p, n, position) ==
  \A j \in 0..(n - 1) :
    p.at + j < Size[p.block] => memory[p.block][p.at + j] = position + j

OwnBlock == IF shared_buffer THEN "caller" ELSE "first"

(* Before the first call returns. *)
Untouched ==
  /\ from = From
  /\ buffer = [block |-> OwnBlock, at |-> 0]
  /\ handle.offset = From + ChunkSize /\ handle.nbytes = ChunkSize
  /\ flight = None
  /\ sz = 0 /\ delivered = 0

Fresh ==
  async_buffer = Null =>
    /\ Untouched
    /\ ~broken
    /\ pc \in {"ended", "destroyed"} => from = to

InFirst ==
  pc = "reading" =>
    /\ Untouched
    /\ async_buffer # Null
    /\ shared_buffer => async_buffer = [block |-> "caller", at |-> chunk_size]
    /\ ~shared_buffer => async_buffer = [block |-> "second", at |-> 0]
    /\ From < to
    /\ read_amt = Ask
    /\ IF broken THEN bytes_read = Word - 1 ELSE bytes_read <= read_amt
    /\ ~broken => Filled(buffer, bytes_read, From)

(* After it has. *)
Called == async_buffer # Null /\ pc # "reading"

(* Where the windows lie. *)
Windows ==
  Called =>
    /\ window = buffer /\ sz <= chunk_size
    /\ shared_buffer =>
         /\ buffer.block = "caller"
         /\ async_buffer = Plus(buffer, chunk_size)
    /\ ~shared_buffer =>
         /\ buffer.at = 0 /\ async_buffer.at = 0
         /\ \/ buffer.block = "first" /\ async_buffer.block = "second"
            \/ buffer.block = "second" /\ async_buffer.block = "first"

(* How far from is when the window is at address at of a shared buffer: a
   chunk further, or one byte less than its start if the first call failed, or
   at the end if the segment has only one window. *)
Before == IF From = 0 THEN Word - 1 ELSE From - 1

Ordinary == from = From + chunk_size + buffer.at
Failed == from = From + buffer.at - 1 \/ (buffer.at = 0 /\ from = Before)
OneWindow == buffer.at = 0 /\ from = to /\ from = From + Ask

InStep ==
  Called =>
    /\ From < to
    /\ shared_buffer => Ordinary \/ (broken /\ Failed) \/ OneWindow
    /\ ~broken => from = From + delivered /\ (from # to => sz = chunk_size)
    /\ pc \in {"ended", "destroyed"} => from = to
    /\ from = to /\ to - From > chunk_size => flight.state = "none"

(* The read in flight. *)
InFlight ==
  Called /\ flight.state # "none" =>
    /\ handle.buf = async_buffer
    /\ handle.nbytes <= chunk_size
    /\ handle.offset < Word \div 2
    /\ flight.done <= handle.nbytes
    /\ \/ handle.offset = from
       \/ buffer.at = 0 /\ from = From + Ask
       \/ broken /\ buffer.at = 0 /\ from = Before
    /\ ~broken /\ from # to =>
         /\ handle.offset = from /\ handle.nbytes = chunk_size
         /\ Filled(handle.buf, flight.done, handle.offset)
         /\ flight.state = "ended" => flight.done = handle.nbytes

(* A shared buffer holds what was delivered, as far as it goes. *)
Kept ==
  shared_buffer /\ ~broken =>
    \A k \in 0..(delivered - 1) : k < to - From => memory["caller"][k] = From + k

IInv ==
  /\ Typing
  /\ Fresh
  /\ InFirst
  /\ Windows
  /\ InStep
  /\ InFlight
  /\ Kept

-----------------------------------------------------------------------------

(* Arithmetic of the unsigned counters and addresses. *)
LEMMA Unsigned ==
  ASSUME NEW w \in Nat, w > 0, NEW a \in Int, -w <= a, a < 2 * w
  PROVE  a % w = IF a < 0 THEN a + w ELSE IF a < w THEN a ELSE a - w
OBVIOUS

Half == Word \div 2

(* The sizes of a reader: nothing of a segment is near the end of the word. *)
LEMMA Sizes ==
  ASSUME to \in Ends
  PROVE  /\ From \in Nat /\ to \in Nat /\ From <= to /\ to <= FileSize
         /\ FileSize \in Nat /\ ChunkSize \in Nat /\ chunk_size \in Nat
         /\ From < to => chunk_size > 0
         /\ Ask \in Nat /\ Ask <= chunk_size /\ From + Ask <= to
         /\ Ask = to - From \/ Ask = chunk_size
         /\ ChunkSize <= chunk_size
         /\ Word \in Nat /\ Half \in Nat /\ 2 * Half <= Word /\ Word <= 2 * Half + 1
         /\ 4 * (chunk_size + 1) < Word /\ 4 * (FileSize + 1) < Word
         /\ 4 * (From + chunk_size + 1) < Word
         /\ Before \in 0..(Word - 1)
         /\ chunk_size = IF ChunkSize = 0 THEN to - From ELSE ChunkSize
<1>1. /\ From \in Nat /\ FileSize \in Nat /\ ChunkSize \in Nat /\ Word \in Nat
      /\ Word > 4 * (FileSize + ChunkSize + 1)
      /\ to \in From..FileSize
  BY ASyncAssumption
<1>2. chunk_size = IF ChunkSize = 0 THEN to - From ELSE ChunkSize
  BY DEF chunk_size
<1>3. Ask = IF to - From < chunk_size THEN to - From ELSE chunk_size
  BY DEF Ask
<1>4. Half \in Nat /\ 2 * Half <= Word /\ Word <= 2 * Half + 1
  BY <1>1 DEF Half
<1>5. Before \in 0..(Word - 1)
  BY <1>1 DEF Before
<1> QED BY <1>1, <1>2, <1>3, <1>4, <1>5

(* The blocks of memory. *)
LEMMA BlockSizes ==
  ASSUME Typing
  PROVE  /\ shared_buffer => DOMAIN Size = {"caller"} /\ Size["caller"] = to - From
         /\ ~shared_buffer => /\ DOMAIN Size = {"first", "second"}
                              /\ Size["first"] = ChunkSize
                              /\ Size["second"] = chunk_size
         /\ \A b \in DOMAIN Size : Size[b] \in Nat /\ Size[b] < Word
<1>1. to \in Ends /\ shared_buffer \in BOOLEAN
  BY DEF Typing
<1>2. /\ From \in Nat /\ to \in Nat /\ From <= to /\ to < Word
      /\ ChunkSize \in Nat /\ chunk_size \in Nat
      /\ ChunkSize < Word /\ chunk_size < Word
  BY <1>1, Sizes
<1>3. CASE shared_buffer
  <2>1. Size = [caller |-> to - From]
    BY <1>3 DEF Size
  <2>2. DOMAIN Size = {"caller"} /\ Size["caller"] = to - From
    BY <2>1
  <2>3. Word \in Nat
    BY <1>1, Sizes
  <2>4. to - From \in Nat /\ to - From < Word
    BY <1>2, <2>3
  <2> QED BY <1>3, <2>2, <2>4
<1>4. CASE ~shared_buffer
  <2>1. Size = [first |-> ChunkSize, second |-> chunk_size]
    BY <1>4 DEF Size
  <2>2. /\ DOMAIN Size = {"first", "second"}
        /\ Size["first"] = ChunkSize /\ Size["second"] = chunk_size
    BY <2>1
  <2> QED BY <1>2, <1>4, <2>2
<1> QED BY <1>3, <1>4

(* A read of n bytes to address p changes those n bytes and no other. *)
LEMMA Stored ==
  ASSUME Typing, NEW p \in Addresses, NEW n \in Nat, NEW position \in Nat,
         p.at + n < Word, Store(p, n, position)
  PROVE  /\ memory' = [b \in DOMAIN Size |-> memory'[b]]
         /\ \A b \in DOMAIN Size :
              /\ DOMAIN memory'[b] = DOMAIN memory[b]
              /\ \A i \in 0..(Size[b] - 1) :
                   memory'[b][i] = IF b = p.block /\ p.at <= i /\ i < p.at + n
                                   THEN position + (i - p.at) ELSE memory[b][i]
<1>1. /\ memory = [b \in DOMAIN Size |-> memory[b]] /\ DOMAIN memory = DOMAIN Size
      /\ \A b \in DOMAIN Size : DOMAIN memory[b] = 0..(Size[b] - 1)
  BY DEF Typing
<1> DEFINE New(b) == [i \in DOMAIN memory[b] |->
                        IF (i - p.at) % Word < n THEN position + ((i - p.at) % Word)
                        ELSE memory[b][i]]
<1>2. memory' = [memory EXCEPT ![p.block] = New(p.block)]
  BY DEF Store
<1>3. Word \in Nat /\ Word > 0 /\ p.at \in 0..(Word - 1)
  <2>1. to \in Ends
    BY DEF Typing
  <2>2. Word \in Nat /\ 0 <= FileSize /\ 4 * (FileSize + 1) < Word
    BY <2>1, Sizes
  <2>3. p.at \in 0..(Word - 1)
    BY DEF Addresses
  <2> QED BY <2>2, <2>3
<1>4. ASSUME NEW b \in DOMAIN Size, b = p.block, NEW i \in 0..(Size[b] - 1)
      PROVE  memory'[b][i] = IF p.at <= i /\ i < p.at + n
                             THEN position + (i - p.at) ELSE memory[b][i]
  <2>1. i \in Nat /\ i < Word
    <3>1. Size[b] \in Nat /\ Size[b] < Word
      BY BlockSizes
    <3> QED BY <1>3, <1>4, <3>1
  <2>2. (i - p.at) % Word = IF i < p.at THEN i - p.at + Word ELSE i - p.at
    <3>1. i - p.at \in Int /\ -Word <= i - p.at /\ i - p.at < 2 * Word
          /\ i - p.at < Word
      BY <1>3, <2>1
    <3> QED BY <1>3, <2>1, <3>1, Unsigned
  <2>3. memory'[b] = New(b) /\ i \in DOMAIN memory[b]
    BY <1>1, <1>2, <1>4
  <2>4. memory'[b][i] = IF (i - p.at) % Word < n THEN position + ((i - p.at) % Word)
                        ELSE memory[b][i]
    BY <2>3
  <2> QED BY <1>3, <2>1, <2>2, <2>4
<1>5. memory' = [b \in DOMAIN Size |-> memory'[b]]
  BY <1>1, <1>2
<1>6. ASSUME NEW b \in DOMAIN Size
      PROVE  /\ DOMAIN memory'[b] = DOMAIN memory[b]
             /\ b # p.block => memory'[b] = memory[b]
  BY <1>1, <1>2
<1> QED BY <1>4, <1>5, <1>6

(* Moving a pointer. *)
LEMMA Moved ==
  ASSUME NEW p \in Addresses, NEW n \in Nat, Word \in Nat, p.at + n < Word
  PROVE  /\ Plus(p, n) \in Addresses
         /\ Plus(p, n).block = p.block /\ Plus(p, n).at = p.at + n
<1>1. p.at \in 0..(Word - 1) /\ p.block \in Blocks
  BY DEF Addresses
<1>2. (p.at + n) % Word = p.at + n
  BY <1>1, Unsigned
<1> QED BY <1>1, <1>2 DEF Plus, Addresses

(* What the constructor fixes. *)
LEMMA Fixed ==
  ASSUME to' = to, shared_buffer' = shared_buffer
  PROVE  /\ chunk_size' = chunk_size /\ Size' = Size /\ Ask' = Ask
         /\ OwnBlock' = OwnBlock
BY DEF chunk_size, Size, Ask, OwnBlock

LEMMA InitIInv == Init => IInv
<1> SUFFICES ASSUME Init PROVE IInv
  OBVIOUS
<1>1. /\ to \in Ends /\ shared_buffer \in BOOLEAN /\ from = From
      /\ buffer = [block |-> OwnBlock, at |-> 0]
      /\ async_buffer = [block |-> "null", at |-> 0]
      /\ handle = [buf |-> async_buffer, offset |-> From + ChunkSize,
                   nbytes |-> ChunkSize]
      /\ flight = [state |-> "none", done |-> 0]
      /\ pc = "idle" /\ bytes_read = 0 /\ read_amt = 0 /\ sz = 0 /\ delivered = 0
      /\ errors = 0 /\ broken = FALSE
  BY DEF Init, OwnBlock, Null, None
<1>2. /\ From \in Nat /\ ChunkSize \in Nat /\ Word \in Nat /\ From < Word
  BY <1>1, Sizes
<1>3. Typing
  <2>1. /\ memory = [b \in DOMAIN Size |-> memory[b]]
        /\ \A b \in DOMAIN Size : DOMAIN memory[b] = 0..(Size[b] - 1)
    BY DEF Init
  <2>2. buffer \in Addresses /\ async_buffer \in Addresses
    BY <1>1, <1>2 DEF Addresses, Blocks, OwnBlock
  <2>3. from \in 0..(Word - 1)
    BY <1>1, <1>2
  <2>4. handle \in [buf : Addresses, offset : Nat, nbytes : Nat]
    BY <1>1, <1>2, <2>2
  <2> QED BY <1>1, <2>1, <2>2, <2>3, <2>4 DEF Typing
<1>4. Fresh /\ InFirst
  BY <1>1 DEF Fresh, InFirst, Untouched, None
<1>5. ~Called
  BY <1>1 DEF Called, Null
<1>6. Kept
  BY <1>1 DEF Kept
<1> QED BY <1>3, <1>4, <1>5, <1>6 DEF IInv, Windows, InStep, InFlight

(* The calls and returns that leave memory and the read in flight alone. *)
LEMMA AtEndStep == IInv /\ (AtEnd \/ Destroy) => IInv'
<1> SUFFICES ASSUME IInv, AtEnd \/ Destroy PROVE IInv'
  OBVIOUS
<1>1. /\ UNCHANGED <<shared_buffer, to, from, buffer, async_buffer, memory, handle,
                     flight, bytes_read, read_amt, window, sz, delivered, errors,
                     broken>>
      /\ pc' \in {"ended", "destroyed"}
      /\ pc # "reading"
      /\ pc = "ended" \/ from = to
  BY DEF AtEnd, Destroy
<1>2. /\ chunk_size' = chunk_size /\ Size' = Size /\ Ask' = Ask
      /\ OwnBlock' = OwnBlock
  BY <1>1, Fixed
<1>3. Typing'
  BY <1>1, <1>2 DEF IInv, Typing
<1>4. Fresh' /\ InFirst'
  BY <1>1, <1>2 DEF IInv, Fresh, InFirst, Untouched
<1>5. Called' = Called
  BY <1>1 DEF Called
<1>6. Windows' /\ InFlight' /\ Kept'
  BY <1>1, <1>2, <1>5 DEF IInv, Windows, InFlight, Kept, Filled
<1>7. InStep'
  BY <1>1, <1>2, <1>5 DEF IInv, InStep, Ordinary, Failed, OneWindow
<1> QED BY <1>3, <1>4, <1>6, <1>7 DEF IInv

(* The first call enters blocking_next. *)
LEMMA CallFirstStep == IInv /\ CallFirst => IInv'
<1> SUFFICES ASSUME IInv, CallFirst PROVE IInv'
  OBVIOUS
<1>1. /\ UNCHANGED <<shared_buffer, to, from, buffer, memory, handle, flight,
                     window, sz, delivered, errors, broken>>
      /\ pc = "idle" /\ from # to /\ async_buffer = Null
      /\ pc' = "reading" /\ bytes_read' = 0
      /\ read_amt' = IF to - from < chunk_size THEN to - from ELSE chunk_size
      /\ async_buffer' = IF shared_buffer THEN Plus(buffer, chunk_size)
                         ELSE [block |-> "second", at |-> 0]
  BY DEF CallFirst
<1>2. /\ chunk_size' = chunk_size /\ Size' = Size /\ Ask' = Ask
      /\ OwnBlock' = OwnBlock
  BY <1>1, Fixed
<1>3. Typing /\ Untouched /\ ~broken /\ to \in Ends
  BY <1>1 DEF IInv, Fresh, Typing
<1>4. /\ From \in Nat /\ to \in Nat /\ From <= to /\ chunk_size \in Nat
      /\ Word \in Nat /\ chunk_size < Word /\ Ask \in Nat
  BY <1>3, Sizes
<1>5. read_amt' = Ask /\ From < to
  BY <1>1, <1>3, <1>4 DEF Untouched, Ask
<1>6. buffer \in Addresses /\ buffer.at = 0 /\ buffer.block = OwnBlock
  BY <1>3 DEF Typing, Untouched
<1>7. /\ async_buffer' \in Addresses
      /\ shared_buffer => async_buffer' = [block |-> "caller", at |-> chunk_size]
      /\ ~shared_buffer => async_buffer' = [block |-> "second", at |-> 0]
  <2>1. CASE shared_buffer
    <3>1. Plus(buffer, chunk_size) \in Addresses
          /\ Plus(buffer, chunk_size).block = "caller"
          /\ Plus(buffer, chunk_size).at = chunk_size
      BY <1>4, <1>6, <2>1, Moved DEF OwnBlock
    <3> QED BY <1>1, <2>1, <3>1 DEF Addresses
  <2>2. CASE ~shared_buffer
    BY <1>1, <1>4, <2>2 DEF Addresses, Blocks
  <2> QED BY <2>1, <2>2
<1>8. async_buffer' # Null
  BY <1>7 DEF Null
<1>9. Typing'
  BY <1>1, <1>2, <1>3, <1>4, <1>5, <1>7 DEF Typing
<1>10. InFirst'
  <2>1. Untouched'
    BY <1>1, <1>2, <1>3 DEF Untouched
  <2>2. Filled(buffer, bytes_read, From)'
    BY <1>1 DEF Filled
  <2> QED BY <1>1, <1>2, <1>3, <1>4, <1>5, <1>7, <1>8, <2>1, <2>2 DEF InFirst
<1>11. Fresh' /\ ~Called'
  BY <1>1, <1>8 DEF Fresh, Called
<1>12. Kept'
  BY <1>1, <1>2, <1>3 DEF Kept, Untouched
<1> QED BY <1>9, <1>10, <1>11, <1>12 DEF IInv, Windows, InStep, InFlight

(* In the first call. *)
LEMMA WhileReading ==
  ASSUME IInv, pc = "reading"
  PROVE  /\ Untouched /\ From < to /\ read_amt = Ask /\ ~Called /\ async_buffer # Null
         /\ to \in Ends /\ shared_buffer \in BOOLEAN /\ broken \in BOOLEAN
         /\ bytes_read \in Nat /\ errors \in Nat
         /\ IF broken THEN bytes_read = Word - 1 ELSE bytes_read <= Ask
         /\ ~broken => Filled(buffer, bytes_read, From)
         /\ shared_buffer => async_buffer = [block |-> "caller", at |-> chunk_size]
         /\ ~shared_buffer => async_buffer = [block |-> "second", at |-> 0]
         /\ buffer \in Addresses /\ buffer.at = 0 /\ buffer.block = OwnBlock
         /\ OwnBlock \in DOMAIN Size
<1>1. Typing /\ InFirst
  BY DEF IInv
<1>2. buffer.at = 0 /\ buffer.block = OwnBlock
  BY <1>1 DEF InFirst, Untouched
<1>3. OwnBlock \in DOMAIN Size
  BY <1>1, BlockSizes DEF OwnBlock
<1> QED BY <1>1, <1>2, <1>3 DEF InFirst, Called, Typing

(* A pread continues where the one before ended. *)
LEMMA PreadStep ==
  ASSUME IInv, NEW n \in 1..chunk_size, Pread(n)
  PROVE  IInv'
<1>1. /\ UNCHANGED <<shared_buffer, to, from, buffer, async_buffer, handle, flight,
                     pc, read_amt, window, sz, delivered, errors, broken>>
      /\ pc = "reading" /\ bytes_read < read_amt
      /\ n \in 1..(read_amt - bytes_read)
      /\ Store(Plus(buffer, bytes_read), n, FilePos)
      /\ bytes_read' = bytes_read + n
  BY DEF Pread, Reading
<1>2. /\ chunk_size' = chunk_size /\ Size' = Size /\ Ask' = Ask
      /\ OwnBlock' = OwnBlock
  BY <1>1, Fixed
<1>3. /\ Typing /\ Untouched /\ From < to /\ read_amt = Ask /\ to \in Ends
      /\ IF broken THEN bytes_read = Word - 1 ELSE bytes_read <= Ask
      /\ bytes_read \in Nat
      /\ ~broken => Filled(buffer, bytes_read, From)
      /\ buffer \in Addresses /\ buffer.at = 0
      /\ buffer.block \in DOMAIN Size
  BY <1>1, WhileReading DEF IInv
<1>4. /\ From \in Nat /\ to \in Nat /\ Word \in Nat /\ chunk_size \in Nat
      /\ Ask \in Nat /\ Ask <= chunk_size /\ 4 * (From + chunk_size + 1) < Word
  BY <1>3, Sizes
<1>5. /\ ~broken /\ n \in Nat /\ bytes_read + n \in Nat /\ bytes_read + n <= Ask
      /\ bytes_read + n < Word /\ bytes_read < Word /\ from = From
      /\ From + bytes_read < Word /\ From + bytes_read \in Nat
  BY <1>1, <1>3, <1>4 DEF Untouched
<1>6. FilePos = From + bytes_read
  BY <1>4, <1>5, Unsigned DEF FilePos
<1> DEFINE p == Plus(buffer, bytes_read)
<1>7. p \in Addresses /\ p.block = buffer.block /\ p.at = bytes_read
  BY <1>3, <1>4, <1>5, Moved
<1> HIDE DEF p
<1>8. /\ memory' = [b \in DOMAIN Size |-> memory'[b]]
      /\ \A b \in DOMAIN Size :
           /\ DOMAIN memory'[b] = DOMAIN memory[b]
           /\ \A i \in 0..(Size[b] - 1) :
                memory'[b][i] = IF b = p.block /\ p.at <= i /\ i < p.at + n
                                THEN From + bytes_read + (i - p.at) ELSE memory[b][i]
  <2>1. Store(p, n, From + bytes_read)
    BY <1>1, <1>6 DEF p
  <2> QED BY <1>3, <1>5, <1>7, <2>1, Stored
<1>9. Filled(buffer, bytes_read, From)'
  <2> SUFFICES ASSUME NEW j \in 0..(bytes_read + n - 1), j < Size[buffer.block]
               PROVE  memory'[buffer.block][j] = From + j
    BY <1>1, <1>2, <1>3 DEF Filled
  <2>1. j \in 0..(Size[buffer.block] - 1)
    BY <1>3, <1>5, BlockSizes
  <2>2. j < bytes_read => memory[buffer.block][j] = From + j
    BY <1>3, <1>5, <2>1 DEF Filled
  <2> QED BY <1>3, <1>4, <1>5, <1>7, <1>8, <2>1, <2>2
<1>10. Typing'
  BY <1>1, <1>2, <1>3, <1>5, <1>8 DEF Typing
<1>11. InFirst'
  <2>1. Untouched'
    BY <1>1, <1>2, <1>3 DEF Untouched
  <2> QED BY <1>1, <1>2, <1>5, <1>9, <2>1 DEF IInv, InFirst
<1>12. Fresh' /\ ~Called'
  BY <1>1, WhileReading DEF Fresh, Called
<1>13. Kept'
  BY <1>1, <1>3 DEF Kept, Untouched
<1> QED BY <1>10, <1>11, <1>12, <1>13 DEF IInv, Windows, InStep, InFlight

(* A pread that fails takes one byte back, or ends the call. *)
LEMMA PreadFailsStep == IInv /\ PreadFails => IInv'
<1> SUFFICES ASSUME IInv, PreadFails PROVE IInv'
  OBVIOUS
<1>1. /\ UNCHANGED <<shared_buffer, to, from, buffer, async_buffer, memory, handle,
                     flight, pc, read_amt, window, sz, delivered>>
      /\ pc = "reading" /\ bytes_read < read_amt
      /\ errors' = errors + 1
      /\ bytes_read' = (bytes_read - 1) % Word
      /\ broken' = (broken \/ bytes_read = 0)
  BY DEF PreadFails, Reading
<1>2. /\ chunk_size' = chunk_size /\ Size' = Size /\ Ask' = Ask
      /\ OwnBlock' = OwnBlock
  BY <1>1, Fixed
<1>3. /\ Typing /\ Untouched /\ From < to /\ read_amt = Ask /\ to \in Ends
      /\ IF broken THEN bytes_read = Word - 1 ELSE bytes_read <= Ask
      /\ bytes_read \in Nat /\ errors \in Nat /\ broken \in BOOLEAN
      /\ ~broken => Filled(buffer, bytes_read, From)
  BY <1>1, WhileReading DEF IInv
<1>4. Word \in Nat /\ Ask \in Nat /\ chunk_size \in Nat
      /\ Ask <= chunk_size /\ 4 * (chunk_size + 1) < Word
  BY <1>3, Sizes
<1>5. ~broken /\ bytes_read < Word
  BY <1>1, <1>3, <1>4
<1>6. bytes_read' = IF bytes_read = 0 THEN Word - 1 ELSE bytes_read - 1
  BY <1>1, <1>3, <1>4, <1>5, Unsigned
<1>7. Typing'
  <2>1. bytes_read' \in Nat /\ errors' \in Nat /\ broken' \in BOOLEAN
    BY <1>1, <1>3, <1>4, <1>6
  <2> QED BY <1>1, <1>2, <1>3, <2>1 DEF Typing
<1>8. InFirst'
  <2>1. Untouched'
    BY <1>1, <1>2, <1>3 DEF Untouched
  <2>2. CASE bytes_read = 0
    BY <1>1, <1>2, <1>6, <2>1, <2>2 DEF IInv, InFirst
  <2>3. CASE bytes_read # 0
    <3>1. bytes_read' \in Nat /\ bytes_read' < bytes_read /\ broken' = FALSE
      BY <1>1, <1>3, <1>5, <1>6, <2>3
    <3>2. Filled(buffer, bytes_read, From)'
      BY <1>1, <1>2, <1>3, <1>5, <3>1 DEF Filled
    <3> QED BY <1>1, <1>2, <1>3, <1>4, <1>5, <2>1, <3>1, <3>2 DEF IInv, InFirst
  <2> QED BY <2>2, <2>3
<1>9. Fresh' /\ ~Called'
  BY <1>1, WhileReading DEF Fresh, Called
<1>10. Kept'
  BY <1>1, <1>3 DEF Kept, Untouched
<1> QED BY <1>7, <1>8, <1>9, <1>10 DEF IInv, Windows, InStep, InFlight

(* Submitting a read. *)
LEMMA Submitted ==
  ASSUME Submit
  PROVE  /\ flight' \in [state : {"none", "running", "ended"}, done : Nat]
         /\ flight'.done = 0 /\ flight'.state # "ended"
         /\ flight'.state # "none" => handle'.offset < Half
BY DEF Submit, None, Half

(* The first call returns, and the first read is submitted. *)
LEMMA FirstReturnsStep == IInv /\ FirstReturns => IInv'
<1> SUFFICES ASSUME IInv, FirstReturns PROVE IInv'
  OBVIOUS
<1>1. /\ UNCHANGED <<shared_buffer, to, buffer, async_buffer, memory, bytes_read,
                     read_amt, errors, broken>>
      /\ pc = "reading" /\ ~(bytes_read < read_amt) /\ pc' = "idle"
      /\ from' = (from + bytes_read) % Word
      /\ handle' = [handle EXCEPT !.buf = async_buffer]
      /\ Submit
      /\ window' = buffer /\ sz' = read_amt
      /\ delivered' = IF broken THEN delivered ELSE delivered + read_amt
  BY DEF FirstReturns, Reading, Return
<1>2. /\ chunk_size' = chunk_size /\ Size' = Size /\ Ask' = Ask
      /\ OwnBlock' = OwnBlock
  BY <1>1, Fixed
<1>3. /\ Typing /\ Untouched /\ From < to /\ read_amt = Ask /\ to \in Ends
      /\ IF broken THEN bytes_read = Word - 1 ELSE bytes_read <= Ask
      /\ bytes_read \in Nat /\ broken \in BOOLEAN /\ shared_buffer \in BOOLEAN
      /\ ~broken => Filled(buffer, bytes_read, From)
      /\ shared_buffer => async_buffer = [block |-> "caller", at |-> chunk_size]
      /\ ~shared_buffer => async_buffer = [block |-> "second", at |-> 0]
      /\ buffer \in Addresses /\ buffer.at = 0 /\ buffer.block = OwnBlock
      /\ async_buffer # Null
  BY <1>1, WhileReading DEF IInv
<1>4. /\ From \in Nat /\ to \in Nat /\ Word \in Nat /\ chunk_size \in Nat
      /\ ChunkSize \in Nat /\ ChunkSize <= chunk_size
      /\ chunk_size = IF ChunkSize = 0 THEN to - From ELSE ChunkSize
      /\ Ask \in Nat /\ Ask <= chunk_size /\ From + Ask <= to
      /\ Ask = to - From \/ Ask = chunk_size
      /\ to <= FileSize /\ FileSize \in Nat /\ 4 * (FileSize + 1) < Word
      /\ 4 * (From + chunk_size + 1) < Word /\ Half \in Nat /\ Word <= 2 * Half + 1
  BY <1>3, Sizes
<1>5. /\ handle'.buf = async_buffer
      /\ handle'.offset = From + ChunkSize /\ handle'.nbytes = ChunkSize
      /\ handle' \in [buf : Addresses, offset : Nat, nbytes : Nat]
  BY <1>1, <1>3 DEF Typing, Untouched
<1>6. /\ flight' \in [state : {"none", "running", "ended"}, done : Nat]
      /\ flight'.done = 0 /\ flight'.state # "ended"
      /\ flight'.state # "none" => handle'.offset < Half
  BY <1>1, Submitted
<1>7. from' = IF broken THEN Before ELSE From + Ask
  <2>1. CASE broken
    <3>1. From + (Word - 1) \in Int /\ From + (Word - 1) < 2 * Word
          /\ -Word <= From + (Word - 1) /\ Word > 0
      BY <1>4
    <3>2. (From + (Word - 1)) % Word = IF From = 0 THEN Word - 1 ELSE From - 1
      BY <1>4, <3>1, Unsigned
    <3> QED BY <1>1, <1>3, <2>1, <3>2 DEF Untouched, Before
  <2>2. CASE ~broken
    <3>1. bytes_read = Ask
      BY <1>1, <1>3, <1>4, <2>2
    <3>2. (From + Ask) % Word = From + Ask
      BY <1>4, Unsigned
    <3> QED BY <1>1, <1>3, <2>2, <3>1, <3>2 DEF Untouched
  <2> QED BY <2>1, <2>2
<1>8. Before \in 0..(Word - 1) /\ Before # to /\ ~(From <= Before /\ Before <= to)
  BY <1>3, <1>4 DEF Before
<1>9. Called' /\ ~Called /\ async_buffer' # Null
  BY <1>1, <1>3 DEF Called, Null
<1>10. Typing'
  <2>1. from' \in 0..(Word - 1)
    BY <1>4, <1>7, <1>8
  <2>2. sz' \in Nat /\ delivered' \in Nat
    BY <1>1, <1>3, <1>4 DEF Untouched
  <2> QED BY <1>1, <1>2, <1>3, <1>5, <1>6, <2>1, <2>2 DEF Typing
<1>11. Fresh' /\ InFirst'
  BY <1>1, <1>9 DEF Fresh, InFirst
<1>12. Windows'
  <2>1. shared_buffer => async_buffer = Plus(buffer, chunk_size)
    <3> SUFFICES ASSUME shared_buffer PROVE async_buffer = Plus(buffer, chunk_size)
      OBVIOUS
    <3>1. /\ Plus(buffer, chunk_size).block = "caller"
          /\ Plus(buffer, chunk_size).at = chunk_size
          /\ Plus(buffer, chunk_size) \in Addresses
      BY <1>3, <1>4, Moved DEF OwnBlock
    <3>2. async_buffer = [block |-> "caller", at |-> chunk_size]
      BY <1>3
    <3> QED BY <3>1, <3>2 DEF Addresses
  <2>2. shared_buffer => Plus(buffer, chunk_size)' = Plus(buffer, chunk_size)
    BY <1>1, <1>2 DEF Plus
  <2> QED BY <1>1, <1>2, <1>3, <1>4, <2>1, <2>2 DEF Windows, OwnBlock
<1>13. InStep'
  <2>1. shared_buffer => (Ordinary \/ (broken /\ Failed) \/ OneWindow)'
    BY <1>1, <1>2, <1>3, <1>4, <1>7 DEF Ordinary, Failed, OneWindow, Before
  <2>2. ~broken => from' = From + delivered' /\ (from' # to => sz' = chunk_size)
    BY <1>1, <1>3, <1>4, <1>7 DEF Untouched
  <2>3. ~(from' = to /\ to - From > chunk_size)
    BY <1>4, <1>7, <1>8
  <2> QED BY <1>1, <1>2, <1>3, <2>1, <2>2, <2>3 DEF InStep
<1>14. InFlight'
  <2>1. /\ handle'.buf = async_buffer' /\ handle'.nbytes <= chunk_size
        /\ flight'.done <= handle'.nbytes
    BY <1>1, <1>4, <1>5, <1>6
  <2>2. flight'.state # "none" => handle'.offset < Word \div 2
    BY <1>6 DEF Half
  <2>3. \/ buffer'.at = 0 /\ from' = From + Ask
        \/ broken' /\ buffer'.at = 0 /\ from' = Before
    BY <1>1, <1>3, <1>7
  <2>4. ~broken /\ from' # to =>
          handle'.offset = from' /\ handle'.nbytes = chunk_size
    BY <1>3, <1>4, <1>5, <1>7
  <2>5. Filled(handle.buf, flight.done, handle.offset)'
    BY <1>6 DEF Filled
  <2> QED BY <1>1, <1>2, <1>6, <2>1, <2>2, <2>3, <2>4, <2>5 DEF InFlight
<1>15. Kept'
  <2> SUFFICES ASSUME shared_buffer, ~broken,
                      NEW k \in 0..(delivered' - 1), k < to - From
               PROVE  memory["caller"][k] = From + k
    BY <1>1 DEF Kept
  <2>1. k \in 0..(bytes_read - 1)
    BY <1>1, <1>3, <1>4 DEF Untouched
  <2>2. buffer.block = "caller" /\ Size["caller"] = to - From
    BY <1>3, BlockSizes DEF OwnBlock
  <2> QED BY <1>3, <2>1, <2>2 DEF Filled
<1> QED BY <1>10, <1>11, <1>12, <1>13, <1>14, <1>15 DEF IInv

(* A read is collected only if it was submitted below half of the word, so
   that neither from nor the addresses wrap. *)
LEMMA WhileCalled ==
  ASSUME IInv, Called
  PROVE  /\ to \in Ends /\ From < to /\ shared_buffer \in BOOLEAN
         /\ broken \in BOOLEAN
         /\ from \in 0..(Word - 1) /\ buffer \in Addresses
         /\ async_buffer \in Addresses
         /\ buffer.at \in Nat /\ async_buffer.at \in Nat
         /\ sz \in Nat /\ delivered \in Nat /\ sz <= chunk_size
         /\ window = buffer
         /\ shared_buffer /\ flight.state # "none" =>
              /\ buffer.at + 2 * chunk_size < Word
              /\ async_buffer.block = "caller"
              /\ async_buffer.at = buffer.at + chunk_size
         /\ ~shared_buffer =>
              /\ buffer.at = 0 /\ async_buffer.at = 0
              /\ buffer.block # async_buffer.block
<1>1. /\ to \in Ends /\ From < to /\ shared_buffer \in BOOLEAN /\ broken \in BOOLEAN
      /\ from \in 0..(Word - 1) /\ buffer \in Addresses /\ async_buffer \in Addresses
      /\ sz \in Nat /\ delivered \in Nat
      /\ window = buffer /\ sz <= chunk_size
  BY DEF IInv, Typing, Windows, InStep
<1>2. buffer.at \in Nat /\ async_buffer.at \in Nat /\ buffer.at < Word
  <2>1. Word \in Nat
    BY <1>1, Sizes
  <2> QED BY <1>1, <2>1 DEF Addresses
<1>3. ASSUME shared_buffer, flight.state # "none"
      PROVE  /\ buffer.at + 2 * chunk_size < Word
             /\ async_buffer.block = "caller"
             /\ async_buffer.at = buffer.at + chunk_size
  <2>1. /\ From \in Nat /\ Word \in Nat /\ Half \in Nat /\ 2 * Half <= Word
        /\ chunk_size \in Nat /\ Ask \in Nat /\ 4 * (chunk_size + 1) < Word
        /\ Before \in 0..(Word - 1)
    BY <1>1, Sizes
  <2>2. /\ Ordinary \/ Failed \/ OneWindow
        /\ handle.offset < Half
        /\ handle.offset = from \/ buffer.at = 0
    BY <1>3 DEF IInv, InStep, InFlight, Half
  <2>3. buffer.at + 2 * chunk_size < Word
    <3>1. CASE buffer.at = 0
      BY <2>1, <3>1
    <3>2. CASE buffer.at # 0
      <4>1. from < Half
        BY <2>2, <3>2
      <4>2. buffer.at <= from + 1
        BY <1>1, <1>2, <2>1, <2>2, <3>2 DEF Ordinary, Failed, OneWindow
      <4> QED BY <1>1, <1>2, <2>1, <4>1, <4>2
    <3> QED BY <3>1, <3>2
  <2>4. async_buffer = Plus(buffer, chunk_size) /\ buffer.block = "caller"
    BY <1>3 DEF IInv, Windows
  <2>5. /\ Plus(buffer, chunk_size).block = buffer.block
        /\ Plus(buffer, chunk_size).at = buffer.at + chunk_size
    BY <1>1, <1>2, <2>1, <2>3, Moved
  <2> QED BY <2>3, <2>4, <2>5
<1>4. ~shared_buffer => /\ buffer.at = 0 /\ async_buffer.at = 0
                       /\ buffer.block # async_buffer.block
  BY DEF IInv, Windows
<1> QED BY <1>1, <1>2, <1>3, <1>4

(* Where from is when a read is collected. *)
LEMMA Collected ==
  ASSUME IInv, Called, flight.state = "ended", from # to
  PROVE  /\ NextFrom \in 0..(Word - 1)
         /\ ~broken => NextFrom = From + delivered + chunk_size /\ sz = chunk_size
         /\ shared_buffer =>
              \/ NextFrom = From + chunk_size + (buffer.at + chunk_size)
              \/ broken /\ NextFrom = From + (buffer.at + chunk_size) - 1
<1>1. /\ to \in Ends /\ From < to /\ from \in 0..(Word - 1)
      /\ buffer.at \in Nat /\ delivered \in Nat
  BY WhileCalled
<1>2. /\ From \in Nat /\ Word \in Nat /\ Half \in Nat /\ 2 * Half <= Word
      /\ chunk_size \in Nat /\ Ask \in Nat /\ 4 * (chunk_size + 1) < Word
      /\ 4 * (From + chunk_size + 1) < Word
      /\ Before \in 0..(Word - 1) /\ chunk_size > 0
      /\ Ask = to - From \/ Ask = chunk_size
      /\ to \in Nat
  BY <1>1, Sizes
<1>3. /\ handle.offset < Half
      /\ \/ handle.offset = from
         \/ buffer.at = 0 /\ from = From + Ask
         \/ broken /\ buffer.at = 0 /\ from = Before
      /\ ~broken => from = From + delivered /\ sz = chunk_size
      /\ shared_buffer => Ordinary \/ (broken /\ Failed) \/ OneWindow
  BY DEF IInv, InStep, InFlight, Half
<1>4. NextFrom = IF from + chunk_size < Word THEN from + chunk_size
                 ELSE from + chunk_size - Word
  BY <1>1, <1>2, Unsigned DEF NextFrom
<1>5. from + chunk_size < Word \/ (broken /\ buffer.at = 0 /\ from = Before)
  BY <1>1, <1>2, <1>3
<1>6. Before = IF From = 0 THEN Word - 1 ELSE From - 1
  BY DEF Before
<1>7. ~broken => NextFrom = From + delivered + chunk_size /\ sz = chunk_size
  BY <1>1, <1>2, <1>3, <1>4, <1>5
<1>8. shared_buffer =>
        \/ NextFrom = From + chunk_size + (buffer.at + chunk_size)
        \/ broken /\ NextFrom = From + (buffer.at + chunk_size) - 1
  <2>1. CASE broken /\ buffer.at = 0 /\ from = Before
    <3>1. NextFrom = From + chunk_size - 1
      BY <1>1, <1>2, <1>4, <1>6, <2>1
    <3> QED BY <1>2, <2>1, <3>1
  <2>2. CASE from + chunk_size < Word /\ ~(buffer.at = 0 /\ from = Before)
    <3>1. NextFrom = from + chunk_size
      BY <1>4, <2>2
    <3> QED BY <1>1, <1>2, <1>3, <2>2, <3>1 DEF Ordinary, Failed, OneWindow
  <2>3. CASE from + chunk_size < Word /\ ~broken
    <3>1. NextFrom = from + chunk_size
      BY <1>4, <2>3
    <3> QED BY <1>1, <1>2, <1>3, <2>3, <3>1 DEF Ordinary, OneWindow
  <2> QED BY <1>5, <2>1, <2>2, <2>3
<1>9. NextFrom \in 0..(Word - 1)
  BY <1>1, <1>2, <1>4
<1> QED BY <1>7, <1>8, <1>9

(* A later call. *)
LEMMA CallAgainStep == IInv /\ CallAgain => IInv'
<1> SUFFICES ASSUME IInv, CallAgain PROVE IInv'
  OBVIOUS
<1>1. /\ UNCHANGED <<shared_buffer, to, memory, pc, bytes_read, read_amt, errors,
                     broken>>
      /\ pc = "idle" /\ from # to /\ async_buffer # Null /\ flight.state = "ended"
      /\ from' = NextFrom /\ window' = buffer'
      /\ Swap
      /\ IF NextFrom = to
         THEN /\ flight' = None /\ handle' = handle /\ sz' = sz
              /\ delivered' = IF broken THEN delivered ELSE delivered + sz
         ELSE /\ handle' = [buf |-> async_buffer', offset |-> NextFrom,
                            nbytes |-> chunk_size]
              /\ Submit /\ sz' = chunk_size
              /\ delivered' = IF broken THEN delivered ELSE delivered + chunk_size
  BY DEF CallAgain, Completed, Last, Return
<1>2. /\ chunk_size' = chunk_size /\ Size' = Size /\ Ask' = Ask
      /\ OwnBlock' = OwnBlock
  BY <1>1, Fixed
<1>3. Called /\ Called' /\ async_buffer' # Null
  <2>1. Called
    BY <1>1 DEF Called
  <2>2. async_buffer' # Null
    <3>1. CASE shared_buffer
      <4>1. async_buffer.block = "caller"
        BY <1>1, <2>1, <3>1, WhileCalled
      <4>2. async_buffer' = Plus(async_buffer, chunk_size)
        BY <1>1, <3>1 DEF Swap
      <4>3. async_buffer'.block = "caller"
        BY <2>1, <4>1, <4>2, WhileCalled DEF Plus, Addresses
      <4> QED BY <4>3 DEF Null
    <3>2. CASE ~shared_buffer
      <4>1. buffer.block # "null"
        BY <2>1, <3>2 DEF IInv, Windows
      <4> QED BY <1>1, <3>2, <4>1 DEF Swap, Null
    <3> QED BY <3>1, <3>2
  <2> QED BY <1>1, <2>1, <2>2 DEF Called
<1>4. /\ to \in Ends /\ From < to /\ shared_buffer \in BOOLEAN /\ broken \in BOOLEAN
      /\ buffer \in Addresses /\ async_buffer \in Addresses
      /\ buffer.at \in Nat /\ async_buffer.at \in Nat
      /\ sz \in Nat /\ delivered \in Nat /\ sz <= chunk_size
      /\ shared_buffer =>
           /\ buffer.at + 2 * chunk_size < Word
           /\ async_buffer.block = "caller"
           /\ async_buffer.at = buffer.at + chunk_size
      /\ ~shared_buffer =>
           /\ buffer.at = 0 /\ async_buffer.at = 0
           /\ buffer.block # async_buffer.block
  BY <1>1, <1>3, WhileCalled
<1>5. /\ From \in Nat /\ to \in Nat /\ Word \in Nat /\ chunk_size \in Nat
      /\ chunk_size > 0 /\ Ask \in Nat
  BY <1>4, Sizes
<1>6. /\ NextFrom \in 0..(Word - 1)
      /\ ~broken => NextFrom = From + delivered + chunk_size /\ sz = chunk_size
      /\ shared_buffer =>
           \/ NextFrom = From + chunk_size + (buffer.at + chunk_size)
           \/ broken /\ NextFrom = From + (buffer.at + chunk_size) - 1
  BY <1>1, <1>3, Collected
<1>7. shared_buffer =>
        /\ buffer' = async_buffer
        /\ buffer'.block = "caller" /\ buffer'.at = buffer.at + chunk_size
        /\ buffer' \in Addresses
        /\ async_buffer' = Plus(buffer', chunk_size)
        /\ async_buffer' \in Addresses
  <2> SUFFICES ASSUME shared_buffer PROVE
        /\ buffer' = async_buffer
        /\ buffer'.block = "caller" /\ buffer'.at = buffer.at + chunk_size
        /\ buffer' \in Addresses
        /\ async_buffer' = Plus(buffer', chunk_size)
        /\ async_buffer' \in Addresses
    OBVIOUS
  <2>1. /\ buffer' = Plus(buffer, chunk_size)
        /\ async_buffer' = Plus(async_buffer, chunk_size)
    BY <1>1 DEF Swap
  <2>2. buffer' = async_buffer
    BY <1>3, <2>1 DEF IInv, Windows
  <2>3. /\ async_buffer.at + chunk_size < Word
        /\ Plus(async_buffer, chunk_size) \in Addresses
    <3>1. async_buffer.at + chunk_size < Word
      BY <1>4, <1>5
    <3> QED BY <1>4, <1>5, <3>1, Moved
  <2> QED BY <1>4, <2>1, <2>2, <2>3
<1>8. ~shared_buffer => buffer' = async_buffer /\ async_buffer' = buffer
  BY <1>1 DEF Swap
<1>9. /\ buffer' \in Addresses /\ async_buffer' \in Addresses
      /\ buffer' = async_buffer
  BY <1>4, <1>7, <1>8
<1>10. sz' \in Nat /\ delivered' \in Nat /\ sz' <= chunk_size
  BY <1>1, <1>4, <1>5
<1>11. NextFrom # to =>
        /\ flight' \in [state : {"none", "running", "ended"}, done : Nat]
        /\ flight'.done = 0 /\ flight'.state # "ended"
        /\ flight'.state # "none" => handle'.offset < Half
  BY <1>1, Submitted
<1>12. Typing'
  <2>1. flight' \in [state : {"none", "running", "ended"}, done : Nat]
    BY <1>1, <1>11 DEF None
  <2>2. handle' \in [buf : Addresses, offset : Nat, nbytes : Nat]
    <3>1. CASE NextFrom = to
      BY <1>1, <3>1 DEF IInv, Typing
    <3>2. CASE NextFrom # to
      BY <1>1, <1>5, <1>6, <1>9, <3>2
    <3> QED BY <3>1, <3>2
  <2> QED BY <1>1, <1>2, <1>6, <1>9, <1>10, <2>1, <2>2 DEF IInv, Typing
<1>13. Fresh' /\ InFirst'
  BY <1>1, <1>3 DEF Fresh, InFirst
<1>14. Windows'
  <2>1. Plus(buffer, chunk_size)' = Plus(buffer', chunk_size)
    BY <1>2 DEF Plus
  <2>2. ~shared_buffer =>
          /\ buffer'.at = 0 /\ async_buffer'.at = 0
          /\ \/ buffer'.block = "first" /\ async_buffer'.block = "second"
             \/ buffer'.block = "second" /\ async_buffer'.block = "first"
    BY <1>3, <1>8 DEF IInv, Windows
  <2> QED BY <1>1, <1>2, <1>7, <1>10, <2>1, <2>2 DEF Windows
<1>15. InStep'
  <2>1. shared_buffer => (Ordinary \/ (broken /\ Failed))'
    BY <1>1, <1>2, <1>4, <1>5, <1>6, <1>7 DEF Ordinary, Failed
  <2>2. ~broken => from' = From + delivered' /\ (from' # to => sz' = chunk_size)
    BY <1>1, <1>4, <1>5, <1>6
  <2>3. from' = to => flight'.state = "none"
    BY <1>1 DEF None
  <2> QED BY <1>1, <1>2, <1>4, <2>1, <2>2, <2>3 DEF InStep
<1>16. InFlight'
  <2> SUFFICES ASSUME flight'.state # "none" PROVE InFlight'
    BY DEF InFlight
  <2>1. NextFrom # to
    BY <1>1 DEF None
  <2>2. /\ handle'.buf = async_buffer' /\ handle'.nbytes = chunk_size
        /\ handle'.offset = from'
    BY <1>1, <2>1
  <2>3. handle'.offset < Word \div 2
    BY <1>11, <2>1 DEF Half
  <2>4. flight'.done = 0 /\ flight'.state # "ended"
    BY <1>11, <2>1
  <2>5. Filled(handle.buf, flight.done, handle.offset)'
    BY <2>4 DEF Filled
  <2> QED BY <1>2, <1>5, <2>2, <2>3, <2>4, <2>5 DEF InFlight
<1>17. Kept'
  <2> SUFFICES ASSUME shared_buffer, ~broken,
                      NEW k \in 0..(delivered' - 1), k < to - From
               PROVE  memory["caller"][k] = From + k
    BY <1>1 DEF Kept
  <2>1. CASE k < delivered
    BY <1>4, <2>1 DEF IInv, Kept
  <2>2. CASE ~(k < delivered)
    <3>1. /\ handle.buf = async_buffer /\ handle.offset = from
          /\ flight.done = chunk_size
          /\ Filled(handle.buf, flight.done, handle.offset)
          /\ from = From + delivered
      BY <1>1, <1>3 DEF IInv, InFlight, InStep
    <3>2. delivered = buffer.at + chunk_size
      BY <1>4, <1>5, <1>6
    <3>3. delivered' = delivered + chunk_size
      BY <1>1, <1>6
    <3> DEFINE j == k - delivered
    <3>4. j \in 0..(chunk_size - 1) /\ async_buffer.at + j = k
      BY <1>4, <1>5, <2>2, <3>2, <3>3
    <3>5. Size["caller"] = to - From
      BY BlockSizes DEF IInv
    <3>6. memory["caller"][k] = from + j
      BY <1>4, <3>1, <3>4, <3>5 DEF Filled
    <3> QED BY <1>4, <1>5, <3>1, <3>6
  <2> QED BY <2>1, <2>2
<1> QED BY <1>12, <1>13, <1>14, <1>15, <1>16, <1>17 DEF IInv

(* The kernel works on a read that was submitted. *)
LEMMA Running ==
  ASSUME IInv, flight.state # "none"
  PROVE  Called
BY DEF IInv, Fresh, InFirst, Untouched, None, Called

(* What the kernel puts lies behind the window, or in the other block. *)
LEMMA Transferred ==
  ASSUME IInv, NEW n \in 1..chunk_size, Transfer(n)
  PROVE  /\ memory' = [b \in DOMAIN Size |-> memory'[b]]
         /\ \A b \in DOMAIN Size :
              /\ DOMAIN memory'[b] = DOMAIN memory[b]
              /\ \A i \in 0..(Size[b] - 1) :
                   memory'[b][i] =
                     IF /\ b = async_buffer.block
                        /\ async_buffer.at + flight.done <= i
                        /\ i < async_buffer.at + flight.done + n
                     THEN handle.offset + (i - async_buffer.at) ELSE memory[b][i]
<1>1. /\ flight.state = "running" /\ flight.done + n <= handle.nbytes
      /\ Store(Plus(handle.buf, flight.done), n, handle.offset + flight.done)
  BY DEF Transfer
<1>2. Called
  BY <1>1, Running
<1>3. /\ Typing /\ handle.buf = async_buffer /\ handle.nbytes <= chunk_size
      /\ flight.done \in Nat /\ handle.offset \in Nat /\ handle.nbytes \in Nat
  BY <1>1, <1>2 DEF IInv, Typing, InFlight
<1>4. /\ async_buffer \in Addresses /\ async_buffer.at \in Nat /\ buffer.at \in Nat
      /\ shared_buffer => /\ buffer.at + 2 * chunk_size < Word
                          /\ async_buffer.at = buffer.at + chunk_size
      /\ ~shared_buffer => async_buffer.at = 0
      /\ to \in Ends
  BY <1>1, <1>2, WhileCalled
<1>5. chunk_size \in Nat /\ Word \in Nat /\ 4 * (chunk_size + 1) < Word
  BY <1>4, Sizes
<1>6. async_buffer.at + chunk_size < Word
  BY <1>4, <1>5
<1> DEFINE p == Plus(async_buffer, flight.done)
<1>7. /\ p \in Addresses /\ p.block = async_buffer.block
      /\ p.at = async_buffer.at + flight.done
  <2>1. flight.done <= chunk_size
    BY <1>1, <1>3, <1>5
  <2>2. async_buffer.at + flight.done < Word
    BY <1>3, <1>4, <1>5, <1>6, <2>1
  <2> QED BY <1>3, <1>4, <1>5, <2>2, Moved
<1> HIDE DEF p
<1>8. Store(p, n, handle.offset + flight.done)
  BY <1>1, <1>3 DEF p
<1>9. /\ p.at + n < Word /\ n \in Nat /\ handle.offset + flight.done \in Nat
  BY <1>1, <1>3, <1>4, <1>5, <1>6, <1>7
<1>10. /\ memory' = [b \in DOMAIN Size |-> memory'[b]]
       /\ \A b \in DOMAIN Size :
            /\ DOMAIN memory'[b] = DOMAIN memory[b]
            /\ \A i \in 0..(Size[b] - 1) :
                 memory'[b][i] =
                   IF b = p.block /\ p.at <= i /\ i < p.at + n
                   THEN handle.offset + flight.done + (i - p.at) ELSE memory[b][i]
  BY <1>3, <1>7, <1>8, <1>9, Stored
<1>11. \A i \in Nat : handle.offset + flight.done + (i - p.at)
                      = handle.offset + (i - async_buffer.at)
  BY <1>3, <1>4, <1>7
<1>12. \A b \in DOMAIN Size : Size[b] \in Nat
  BY <1>3, BlockSizes
<1> QED BY <1>7, <1>10, <1>11, <1>12

LEMMA TransferStep ==
  ASSUME IInv, NEW n \in 1..chunk_size, Transfer(n)
  PROVE  IInv'
<1>1. /\ UNCHANGED <<shared_buffer, to, from, buffer, async_buffer, handle, pc,
                     bytes_read, read_amt, window, sz, delivered, errors, broken>>
      /\ flight.state = "running" /\ flight.done + n <= handle.nbytes
      /\ flight' = [flight EXCEPT !.done = @ + n]
  BY DEF Transfer
<1>2. /\ chunk_size' = chunk_size /\ Size' = Size /\ Ask' = Ask
      /\ OwnBlock' = OwnBlock
  BY <1>1, Fixed
<1>3. Called /\ Called'
  BY <1>1, Running DEF Called
<1>4. /\ Typing /\ flight \in [state : {"none", "running", "ended"}, done : Nat]
      /\ handle.buf = async_buffer /\ handle.offset \in Nat /\ handle.nbytes \in Nat
      /\ flight.done \in Nat
  BY <1>1, <1>3 DEF IInv, Typing, InFlight
<1>5. /\ flight'.state = "running" /\ flight'.done = flight.done + n
      /\ flight' \in [state : {"none", "running", "ended"}, done : Nat]
  <2>1. to \in Ends
    BY <1>4 DEF Typing
  <2>2. flight.done + n \in Nat
    BY <1>4, <2>1, Sizes
  <2> QED BY <1>1, <1>4, <2>2
<1>6. /\ memory' = [b \in DOMAIN Size |-> memory'[b]]
      /\ \A b \in DOMAIN Size :
           /\ DOMAIN memory'[b] = DOMAIN memory[b]
           /\ \A i \in 0..(Size[b] - 1) :
                memory'[b][i] =
                  IF /\ b = async_buffer.block
                     /\ async_buffer.at + flight.done <= i
                     /\ i < async_buffer.at + flight.done + n
                  THEN handle.offset + (i - async_buffer.at) ELSE memory[b][i]
  BY Transferred
<1>7. Typing'
  BY <1>1, <1>2, <1>4, <1>5, <1>6 DEF Typing
<1>8. Fresh' /\ InFirst'
  BY <1>1, <1>3 DEF Called, Fresh, InFirst
<1>9. Windows'
  BY <1>1, <1>2, <1>3 DEF IInv, Windows, Plus
<1>10. InStep'
  BY <1>1, <1>2, <1>3, <1>5 DEF IInv, InStep, Ordinary, Failed, OneWindow
<1>11. /\ to \in Ends /\ shared_buffer \in BOOLEAN /\ async_buffer.at \in Nat
       /\ buffer.at \in Nat /\ delivered \in Nat
       /\ shared_buffer => /\ async_buffer.block = "caller"
                           /\ async_buffer.at = buffer.at + chunk_size
  BY <1>1, <1>3, WhileCalled
<1>12. /\ From \in Nat /\ to \in Nat /\ chunk_size \in Nat /\ Ask \in Nat
       /\ Ask <= chunk_size
  BY <1>11, Sizes
<1>13. ~broken /\ from # to => Filled(handle.buf, flight.done, handle.offset)'
  <2> SUFFICES ASSUME ~broken, from # to, NEW j \in 0..(flight.done + n - 1),
                      async_buffer.at + j < Size[async_buffer.block]
               PROVE  memory'[async_buffer.block][async_buffer.at + j]
                        = handle.offset + j
    BY <1>1, <1>2, <1>4, <1>5 DEF Filled
  <2>1. async_buffer.block \in DOMAIN Size
    BY <1>3, <1>11, BlockSizes DEF IInv, Windows
  <2>2. async_buffer.at + j \in 0..(Size[async_buffer.block] - 1)
    BY <1>4, <1>11, <2>1, BlockSizes
  <2>3. j < flight.done =>
          memory[async_buffer.block][async_buffer.at + j] = handle.offset + j
    <3>1. Filled(async_buffer, flight.done, handle.offset)
      BY <1>1, <1>3, <1>4 DEF IInv, InFlight
    <3> QED BY <1>4, <3>1 DEF Filled
  <2>4. j \in Nat /\ j < flight.done + n /\ n \in Nat
    BY <1>4, <1>12
  <2> QED BY <1>4, <1>6, <1>11, <2>1, <2>2, <2>3, <2>4
<1>14. InFlight'
  BY <1>1, <1>2, <1>3, <1>5, <1>13 DEF IInv, InFlight, Before
<1>15. Kept'
  <2> SUFFICES ASSUME shared_buffer, ~broken,
                      NEW k \in 0..(delivered - 1), k < to - From
               PROVE  memory'["caller"][k] = From + k
    BY <1>1 DEF Kept
  <2>1. "caller" \in DOMAIN Size /\ Size["caller"] = to - From
    BY <1>4, BlockSizes
  <2>2. delivered <= async_buffer.at
    <3>1. Ordinary \/ OneWindow
      BY <1>3 DEF IInv, InStep
    <3>2. from = From + delivered
      BY <1>3 DEF IInv, InStep
    <3> QED BY <1>11, <1>12, <3>1, <3>2 DEF Ordinary, OneWindow
  <2>3. k \in 0..(Size["caller"] - 1)
    BY <1>11, <1>12, <2>1
  <2>4. memory'["caller"][k] = memory["caller"][k]
    <3>1. ~(async_buffer.at + flight.done <= k)
      BY <1>4, <1>11, <2>2
    <3> QED BY <1>6, <2>1, <2>3, <3>1
  <2> QED BY <2>4 DEF IInv, Kept
<1> QED BY <1>7, <1>8, <1>9, <1>10, <1>14, <1>15 DEF IInv

(* A read ends, complete or not. *)
LEMMA CompleteStep == IInv /\ Complete => IInv'
<1> SUFFICES ASSUME IInv, Complete PROVE IInv'
  OBVIOUS
<1>1. /\ UNCHANGED <<shared_buffer, to, from, buffer, async_buffer, memory, handle,
                     pc, bytes_read, read_amt, window, sz, delivered>>
      /\ flight.state = "running"
      /\ flight' = [flight EXCEPT !.state = "ended"]
      /\ \/ flight.done = handle.nbytes /\ errors' = errors /\ broken' = broken
         \/ broken' = TRUE /\ (errors' = errors \/ errors' = errors + 1)
  BY DEF Complete
<1>2. /\ chunk_size' = chunk_size /\ Size' = Size /\ Ask' = Ask
      /\ OwnBlock' = OwnBlock
  BY <1>1, Fixed
<1>3. Called /\ Called'
  BY <1>1, Running DEF Called
<1>4. /\ flight'.state = "ended" /\ flight'.done = flight.done
      /\ flight' \in [state : {"none", "running", "ended"}, done : Nat]
  BY <1>1 DEF IInv, Typing
<1>5. /\ broken \in BOOLEAN /\ broken' \in BOOLEAN /\ (broken => broken')
      /\ errors' \in Nat
  <2>1. broken \in BOOLEAN /\ errors \in Nat
    BY DEF IInv, Typing
  <2>2. errors' \in Nat
    BY <1>1, <2>1
  <2>3. CASE broken' = broken
    BY <2>1, <2>2, <2>3
  <2>4. CASE broken' = TRUE
    BY <2>1, <2>2, <2>4
  <2> QED BY <1>1, <2>3, <2>4
<1>6. Typing'
  BY <1>1, <1>2, <1>4, <1>5 DEF IInv, Typing
<1>7. Fresh' /\ InFirst'
  BY <1>1, <1>3 DEF Called, Fresh, InFirst
<1>8. Windows'
  BY <1>1, <1>2, <1>3 DEF IInv, Windows, Plus
<1>9. InStep'
  BY <1>1, <1>2, <1>3, <1>4, <1>5 DEF IInv, InStep, Ordinary, Failed, OneWindow
<1>10. InFlight'
  <2>1. ~broken' => ~broken /\ flight.done = handle.nbytes
    BY <1>1, <1>5
  <2>2. Filled(handle.buf, flight.done, handle.offset)'
          <=> Filled(handle.buf, flight.done, handle.offset)
    BY <1>1, <1>2, <1>4 DEF Filled
  <2> QED BY <1>1, <1>2, <1>3, <1>4, <1>5, <2>1, <2>2 DEF IInv, InFlight, Before
<1>11. Kept'
  BY <1>1, <1>5 DEF IInv, Kept
<1> QED BY <1>6, <1>7, <1>8, <1>9, <1>10, <1>11 DEF IInv

LEMMA NextIInv == IInv /\ [Next]_vars => IInv'
<1> SUFFICES ASSUME IInv, [Next]_vars PROVE IInv'
  OBVIOUS
<1>1. CASE UNCHANGED vars
  <2>1. UNCHANGED <<shared_buffer, to, from, buffer, async_buffer, memory, handle,
                    flight, pc, bytes_read, read_amt, window, sz, delivered, errors,
                    broken>>
    BY <1>1 DEF vars
  <2>2. /\ chunk_size' = chunk_size /\ Size' = Size /\ Ask' = Ask
        /\ OwnBlock' = OwnBlock
    BY <2>1, Fixed
  <2>3. Called' = Called
    BY <2>1 DEF Called
  <2>4. Typing' /\ Fresh' /\ InFirst'
    BY <2>1, <2>2 DEF IInv, Typing, Fresh, InFirst, Untouched, Filled
  <2>5. Windows' /\ InStep' /\ InFlight' /\ Kept'
    BY <2>1, <2>2, <2>3
    DEF IInv, Windows, InStep, InFlight, Kept, Filled, Plus, Ordinary, Failed,
        OneWindow, Before
  <2> QED BY <2>4, <2>5 DEF IInv
<1>2. CASE Reader
  BY <1>1, <1>2, AtEndStep, CallFirstStep, PreadStep, PreadFailsStep,
     FirstReturnsStep, CallAgainStep
  DEF Reader, WaitForever
<1>3. CASE Kernel
  BY <1>3, TransferStep, CompleteStep DEF Kernel
<1> QED BY <1>1, <1>2, <1>3 DEF Next, Terminated

(* The invariant holds in every reachable state. *)
THEOREM Invariance == Spec => []IInv
<1> QED BY InitIInv, NextIInv, PTL DEF Spec

(* The kernel never writes to the window the consumer is using (KernelApart),
   in either use of the reader and whatever failed before. *)
THEOREM WindowsApart == Spec => []KernelApart
<1>1. IInv => KernelApart
  <2> SUFFICES ASSUME IInv, flight.state = "running"
               PROVE  \/ handle.buf.block # window.block
                      \/ window.at + sz <= handle.buf.at
    BY DEF KernelApart
  <2>1. Called
    BY Running
  <2>2. handle.buf = async_buffer
    BY <2>1 DEF IInv, InFlight
  <2>3. to \in Ends
    BY <2>1, WhileCalled
  <2>4. chunk_size \in Nat
    BY <2>3, Sizes
  <2> QED BY <2>1, <2>2, <2>4, WhileCalled
<1> QED BY <1>1, Invariance, PTL

(* The destructor frees no buffer of a read in flight, unless the first window
   was the whole segment (NothingInFlight). *)
THEOREM FreedAfterLast == Spec => []NothingInFlight
<1>1. IInv => NothingInFlight
  <2> SUFFICES ASSUME IInv, pc = "destroyed", to - From > chunk_size,
                      flight.state = "running"
               PROVE  FALSE
    BY DEF NothingInFlight
  <2>1. Called
    BY Running
  <2> QED BY <2>1 DEF IInv, InStep
<1> QED BY <1>1, Invariance, PTL

(* A shared buffer still holds all that next() has returned (Retained), until
   a read fails or the end is passed. *)
THEOREM SharedRetained == Spec => []Retained
<1>1. IInv => Retained
  <2> SUFFICES ASSUME IInv, shared_buffer, ~broken, ~Passed,
                      NEW k \in 0..(delivered - 1)
               PROVE  memory["caller"][k] = From + k
    BY DEF Retained
  <2>1. to \in Ends /\ delivered \in Nat
    BY DEF IInv, Typing
  <2>2. From \in Nat /\ to \in Nat
    BY <2>1, Sizes
  <2>3. k < to - From
    BY <2>1, <2>2 DEF Passed
  <2> QED BY <2>3 DEF IInv, Kept
<1> QED BY <1>1, Invariance, PTL

-----------------------------------------------------------------------------
(* The stream. *)

StreamBroken == broken \/ Passed

(* Nothing undoes a failure, or takes back what was delivered. *)
LEMMA NothingUndone ==
  ASSUME IInv, [Next]_vars
  PROVE  /\ to' = to /\ shared_buffer' = shared_buffer
         /\ chunk_size' = chunk_size /\ Size' = Size
         /\ (StreamBroken => StreamBroken')
         /\ broken \in BOOLEAN /\ broken' \in BOOLEAN
<1>1. /\ to' = to /\ shared_buffer' = shared_buffer
      /\ (broken => broken')
  <2>1. CASE Complete
    BY <2>1 DEF Complete
  <2>2. CASE PreadFails
    BY <2>2 DEF PreadFails
  <2>3. CASE ~Complete /\ ~PreadFails
    <3>1. UNCHANGED <<shared_buffer, to, broken>>
      BY <2>3 DEF Next, Reader, Kernel, AtEnd, CallFirst, Pread, FirstReturns,
                  CallAgain, WaitForever, Destroy, Transfer, Terminated, vars
    <3> QED BY <3>1
  <2> QED BY <2>1, <2>2, <2>3
<1>2. delivered \in Nat /\ sz \in Nat /\ read_amt \in Nat /\ to \in Ends
  BY DEF IInv, Typing
<1>3. delivered' \in Nat /\ delivered <= delivered'
  <2>1. chunk_size \in Nat
    BY <1>2, Sizes
  <2>2. \/ delivered' = delivered \/ delivered' = delivered + sz
        \/ delivered' = delivered + read_amt \/ delivered' = delivered + chunk_size
    BY DEF Next, Reader, Kernel, AtEnd, CallFirst, Pread, PreadFails, FirstReturns,
           CallAgain, WaitForever, Destroy, Transfer, Complete, Terminated, vars,
           Return
  <2> QED BY <1>2, <2>1, <2>2
<1>4. From \in Nat /\ to \in Nat
  BY <1>2, Sizes
<1>5. Passed => Passed'
  BY <1>1, <1>2, <1>3, <1>4 DEF Passed
<1>6. broken \in BOOLEAN /\ broken' \in BOOLEAN
  BY NextIInv DEF IInv, Typing
<1> QED BY <1>1, <1>5, <1>6, Fixed DEF StreamBroken

(* The window stays as it is while the kernel, or blocking_next, puts bytes
   where it does. *)
LEMMA WindowSame ==
  ASSUME IInv, sz = 0 \/ \E n \in 1..chunk_size : Transfer(n),
         UNCHANGED <<to, shared_buffer, window, sz>>
  PROVE  BytesAt(window, sz)' = BytesAt(window, sz)
<1>1. CASE sz = 0
  BY <1>1 DEF BytesAt
<1>2. CASE \E n \in 1..chunk_size : Transfer(n)
  <2>1. PICK n \in 1..chunk_size : Transfer(n)
    BY <1>2
  <2>2. flight.state = "running" /\ Called /\ flight.done \in Nat
    BY <2>1, Running DEF Transfer, IInv, Typing
  <2>3. /\ window = buffer /\ buffer \in Addresses /\ buffer.at \in Nat
        /\ async_buffer.at \in Nat /\ sz \in Nat /\ sz <= chunk_size
        /\ to \in Ends
        /\ shared_buffer =>
             /\ buffer.at + 2 * chunk_size < Word
             /\ async_buffer.at = buffer.at + chunk_size
        /\ ~shared_buffer => buffer.at = 0 /\ buffer.block # async_buffer.block
        /\ shared_buffer \in BOOLEAN
    BY <2>2, WhileCalled
  <2>4. /\ chunk_size \in Nat /\ Word \in Nat /\ 4 * (chunk_size + 1) < Word
    BY <2>3, Sizes
  <2>5. ASSUME NEW i \in 1..sz
        PROVE  LET q == Plus(window, i - 1)
               IN (IF InMemory(q) THEN memory[q.block][q.at] ELSE Stale)'
                    = IF InMemory(q) THEN memory[q.block][q.at] ELSE Stale
    <3> DEFINE q == Plus(window, i - 1)
    <3>1. i - 1 \in Nat /\ i - 1 < chunk_size /\ buffer.at + (i - 1) < Word
      BY <2>3, <2>4
    <3>2. q \in Addresses /\ q.block = buffer.block /\ q.at = buffer.at + (i - 1)
      BY <2>3, <2>4, <3>1, Moved
    <3>3. q' = q
      BY DEF Plus
    <3>4. Size' = Size
      BY Fixed
    <3> HIDE DEF q
    <3>5. InMemory(q)' = InMemory(q)
      BY <3>3, <3>4 DEF InMemory
    <3>6. ASSUME InMemory(q) PROVE memory'[q.block][q.at] = memory[q.block][q.at]
      <4>1. q.block \in DOMAIN Size
        BY <2>2, <2>3, <3>2, BlockSizes DEF IInv, Windows
      <4>2. q.at \in 0..(Size[q.block] - 1)
        <5>1. Size[q.block] \in Nat
          BY <4>1, BlockSizes DEF IInv
        <5> QED BY <2>3, <3>1, <3>2, <3>6, <5>1 DEF InMemory
      <4>3. ~(q.block = async_buffer.block /\ async_buffer.at + flight.done <= q.at)
        BY <2>2, <2>3, <2>4, <3>1, <3>2
      <4> QED BY <2>1, <4>1, <4>2, <4>3, Transferred
    <3> QED BY <3>3, <3>5, <3>6 DEF q
  <2> QED BY <2>5 DEF BytesAt
<1> QED BY <1>1, <1>2

(* The bytes that the first call returns are those of the segment, and so are
   those that a later call collects. *)
LEMMA FirstWindow ==
  ASSUME IInv, FirstReturns, ~broken, ChunkSize # 0
  PROVE  /\ delivered = 0 /\ delivered' = Ask
         /\ BytesAt(window, sz)' = [i \in 1..Ask |-> From + i - 1]
<1>1. /\ UNCHANGED <<shared_buffer, to, buffer, memory, broken>>
      /\ pc = "reading" /\ ~(bytes_read < read_amt)
      /\ window' = buffer /\ sz' = read_amt /\ delivered' = delivered + read_amt
  BY DEF FirstReturns, Reading, Return
<1>2. /\ Untouched /\ read_amt = Ask /\ to \in Ends /\ shared_buffer \in BOOLEAN
      /\ bytes_read \in Nat /\ bytes_read <= Ask /\ From < to
      /\ Filled(buffer, bytes_read, From)
      /\ buffer \in Addresses /\ buffer.at = 0 /\ buffer.block = OwnBlock
      /\ OwnBlock \in DOMAIN Size
  BY <1>1, WhileReading
<1>3. /\ Ask \in Nat /\ Ask <= chunk_size /\ chunk_size \in Nat /\ From \in Nat
      /\ From + Ask <= to /\ to \in Nat
      /\ chunk_size = ChunkSize /\ Word \in Nat /\ 4 * (chunk_size + 1) < Word
  BY <1>2, Sizes
<1>4. bytes_read = Ask
  BY <1>1, <1>2, <1>3
<1>5. Size[OwnBlock] \in Nat /\ Ask <= Size[OwnBlock]
  BY <1>2, <1>3, BlockSizes DEF OwnBlock, IInv
<1>6. Size' = Size
  BY <1>1, Fixed
<1>7. ASSUME NEW i \in 1..Ask
      PROVE  (LET q == Plus(window, i - 1)
              IN IF InMemory(q) THEN memory[q.block][q.at] ELSE Stale)' = From + i - 1
  <2> PICK q : q = Plus(buffer, i - 1)
    OBVIOUS
  <2>1. i - 1 \in 0..(Ask - 1) /\ buffer.at + (i - 1) < Word
    BY <1>2, <1>3
  <2>2. q.block = OwnBlock /\ q.at = i - 1
    BY <1>2, <1>3, <2>1, Moved
  <2>3. Plus(window, i - 1)' = q
    BY <1>1 DEF Plus
  <2>4. memory[OwnBlock][i - 1] = From + (i - 1)
    BY <1>2, <1>3, <1>4, <1>5, <2>1 DEF Filled
  <2>5. InMemory(q)'
    BY <1>1, <1>3, <1>5, <1>6, <2>1, <2>2, <2>3 DEF InMemory
  <2> QED BY <1>1, <1>3, <2>2, <2>3, <2>4, <2>5
<1>8. sz' = Ask
  BY <1>1, <1>2
<1>9. delivered = 0 /\ delivered' = Ask
  BY <1>1, <1>2, <1>3 DEF Untouched
<1> QED BY <1>7, <1>8, <1>9 DEF BytesAt

LEMMA NextWindow ==
  ASSUME IInv, CallAgain, ~broken, ~Passed', ChunkSize # 0
  PROVE  /\ delivered' = delivered + chunk_size
         /\ From + delivered + chunk_size <= to
         /\ BytesAt(window, sz)'
              = [i \in 1..chunk_size |-> (From + delivered) + i - 1]
<1>1. /\ UNCHANGED <<shared_buffer, to, memory, broken>>
      /\ from # to /\ pc = "idle" /\ async_buffer # Null /\ flight.state = "ended"
      /\ window' = buffer' /\ Swap
      /\ \/ sz' = sz /\ delivered' = delivered + sz
         \/ sz' = chunk_size /\ delivered' = delivered + chunk_size
  BY DEF CallAgain, Completed, Return
<1>2. Called
  BY <1>1 DEF Called
<1>3. /\ to \in Ends /\ From < to /\ shared_buffer \in BOOLEAN
      /\ from \in 0..(Word - 1)
      /\ async_buffer \in Addresses /\ async_buffer.at \in Nat /\ buffer.at \in Nat
      /\ delivered \in Nat /\ sz \in Nat
      /\ shared_buffer =>
           /\ async_buffer.at = buffer.at + chunk_size
           /\ buffer.at + 2 * chunk_size < Word
      /\ ~shared_buffer => async_buffer.at = 0
  BY <1>1, <1>2, WhileCalled
<1>4. /\ From \in Nat /\ to \in Nat /\ chunk_size \in Nat /\ chunk_size = ChunkSize
      /\ Word \in Nat /\ 4 * (chunk_size + 1) < Word
  BY <1>3, Sizes
<1>5. /\ handle.buf = async_buffer /\ handle.offset = From + delivered
      /\ handle.offset = from /\ flight.done = chunk_size /\ sz = chunk_size
      /\ Filled(async_buffer, chunk_size, From + delivered)
  BY <1>1, <1>2 DEF IInv, InStep, InFlight
<1>6. delivered' = delivered + chunk_size /\ sz' = chunk_size
  BY <1>1, <1>5
<1>7. From + delivered + chunk_size <= to
  BY <1>1, <1>3, <1>4, <1>6 DEF Passed
<1>8. window' = async_buffer
  BY <1>1, <1>2 DEF Swap, IInv, Windows
<1>9. /\ async_buffer.block \in DOMAIN Size
      /\ Size[async_buffer.block] \in Nat
      /\ async_buffer.at + chunk_size <= Size[async_buffer.block]
      /\ async_buffer.at + chunk_size < Word
  <2>1. CASE shared_buffer
    <3>1. from = From + chunk_size + buffer.at
      BY <1>1, <1>2, <2>1 DEF IInv, InStep, Ordinary, OneWindow
    <3>2. async_buffer.at = delivered
      BY <1>3, <1>4, <1>5, <2>1, <3>1
    <3>3. async_buffer.block = "caller"
      BY <1>1, <1>2, <2>1, WhileCalled
    <3>4. DOMAIN Size = {"caller"} /\ Size["caller"] = to - From
      BY <2>1, BlockSizes DEF IInv
    <3> QED BY <1>3, <1>4, <1>7, <2>1, <3>2, <3>3, <3>4
  <2>2. CASE ~shared_buffer
    <3>1. /\ DOMAIN Size = {"first", "second"}
          /\ Size["first"] = ChunkSize /\ Size["second"] = chunk_size
      BY <2>2, BlockSizes DEF IInv
    <3>2. async_buffer.block \in {"first", "second"}
      BY <1>2, <2>2 DEF IInv, Windows
    <3> QED BY <1>3, <1>4, <2>2, <3>1, <3>2
  <2> QED BY <1>3, <2>1, <2>2
<1>10. Size' = Size
  BY <1>1, Fixed
<1>11. ASSUME NEW i \in 1..chunk_size
       PROVE  (LET q == Plus(window, i - 1)
               IN IF InMemory(q) THEN memory[q.block][q.at] ELSE Stale)'
                 = (From + delivered) + i - 1
  <2> PICK q : q = Plus(async_buffer, i - 1)
    OBVIOUS
  <2>1. i - 1 \in 0..(chunk_size - 1) /\ async_buffer.at + (i - 1) < Word
    BY <1>3, <1>4, <1>9
  <2>2. q.block = async_buffer.block /\ q.at = async_buffer.at + (i - 1)
    BY <1>3, <1>4, <2>1, Moved
  <2>3. Plus(window, i - 1)' = q
    BY <1>8 DEF Plus
  <2>4. async_buffer.at + (i - 1) < Size[async_buffer.block]
    BY <1>3, <1>4, <1>9, <2>1
  <2>5. memory[async_buffer.block][async_buffer.at + (i - 1)]
          = (From + delivered) + (i - 1)
    BY <1>5, <2>1, <2>4 DEF Filled
  <2>6. InMemory(q)'
    BY <1>10, <2>2, <2>3, <2>4 DEF InMemory
  <2> QED BY <1>1, <1>3, <1>4, <2>2, <2>3, <2>5, <2>6
<1> QED BY <1>6, <1>7, <1>11 DEF BytesAt

(* The reader delivers the segment in windows of one chunk, exactly and in
   order, and a null pointer only at its end, until a read fails or the end is
   passed; a window stays as it is until the next call: the safety part of
   ImplementsStream.  A chunk of 0 is excepted: the first buffer is then empty,
   which WholeSegmentRead is about. *)
THEOREM DeliversStream ==
  ChunkSize # 0 => (Spec => Stream!SInit /\ [][Stream!SNext]_(Stream!svars))
<1> SUFFICES ASSUME ChunkSize # 0
             PROVE  Spec => Stream!SInit /\ [][Stream!SNext]_(Stream!svars)
  OBVIOUS
<1> DEFINE Bytes == BytesAt(window, sz)
           Over == pc \in {"ended", "destroyed"}
<1>1. Init => Stream!SInit
  <2> SUFFICES ASSUME Init PROVE Stream!SInit
    OBVIOUS
  <2>1. to \in Ends /\ delivered = 0 /\ sz = 0 /\ pc = "idle" /\ broken = FALSE
    BY DEF Init
  <2>2. From + delivered = From /\ ~Passed
    BY <2>1, Sizes DEF Passed
  <2>3. Bytes = <<>>
    BY <2>1 DEF BytesAt
  <2> QED BY <2>1, <2>2, <2>3 DEF Stream!SInit
<1>2. IInv /\ [Next]_vars => [Stream!SNext]_(Stream!svars)
  <2> SUFFICES ASSUME IInv, [Next]_vars PROVE [Stream!SNext]_(Stream!svars)
    OBVIOUS
  <2>1. /\ to' = to /\ shared_buffer' = shared_buffer /\ chunk_size' = chunk_size
        /\ (StreamBroken => StreamBroken')
    BY NothingUndone
  <2>2. CASE StreamBroken'
    BY <2>1, <2>2 DEF StreamBroken, Stream!SNext, Stream!Break, Stream!fixed
  <2>3. CASE ~StreamBroken'
    <3>1. /\ ~broken /\ ~Passed /\ ~Passed'
          /\ (broken \/ Passed) = FALSE /\ (broken \/ Passed)' = FALSE
      BY <2>1, <2>3 DEF StreamBroken
    <3>2. to \in Ends /\ delivered \in Nat /\ sz \in Nat
      BY DEF IInv, Typing
    <3>3. /\ From \in Nat /\ to \in Nat /\ From <= to /\ chunk_size \in Nat
          /\ Ask \in Nat /\ Ask <= chunk_size
          /\ Ask = IF to - From < chunk_size THEN to - From ELSE chunk_size
          /\ From + Ask <= to /\ (From < to => chunk_size > 0)
          /\ chunk_size = ChunkSize /\ chunk_size > 0
      BY <3>2, Sizes DEF Ask
    <3> HIDE DEF Bytes, Over
    <3> USE DEF Stream!svars, Stream!fixed
    <3>4. ASSUME delivered' = delivered, Bytes' = Bytes, Over' = Over
          PROVE  UNCHANGED Stream!svars
      BY <2>1, <3>1, <3>4 DEF Bytes, Over
    <3>5. ASSUME UNCHANGED <<memory, window, sz>>
          PROVE  Bytes' = Bytes
      <4>1. Size' = Size
        BY <2>1, Fixed
      <4> QED BY <3>5, <4>1 DEF Bytes, BytesAt, InMemory, Plus
    <3>6. CASE AtEnd
      <4>1. /\ UNCHANGED <<memory, window, sz, delivered>>
            /\ from = to /\ pc = "idle" /\ pc' = "ended"
        BY <3>6 DEF AtEnd
      <4>2. from = From + delivered
        BY <3>1, <3>2, <3>3, <4>1 DEF IInv, Fresh, Untouched, InStep, Called
      <4>3. Stream!Amount = 0
        BY <3>2, <3>3, <4>1, <4>2 DEF Stream!Amount
      <4>4. Bytes' = Bytes /\ Over'
        BY <3>5, <4>1 DEF Over
      <4>5. Stream!Finish
        BY <2>1, <3>1, <4>1, <4>3, <4>4 DEF Stream!Finish, Bytes, Over
      <4> QED BY <4>5 DEF Stream!SNext
    <3>7. CASE FirstReturns
      <4>1. /\ delivered = 0 /\ delivered' = Ask
            /\ Bytes' = [i \in 1..Ask |-> From + i - 1]
        BY <3>1, <3>7, FirstWindow DEF Bytes
      <4>2. pc = "reading" /\ pc' = "idle" /\ Over = FALSE /\ Over' = FALSE
        BY <3>7 DEF FirstReturns, Over
      <4>3. From < to
        BY <4>2, WhileReading
      <4>4. /\ From + delivered = From /\ From + delivered' = From + Ask
            /\ Stream!Amount = Ask /\ Ask > 0
        BY <3>3, <4>1, <4>3 DEF Stream!Amount
      <4>5. Stream!Deliver
        BY <2>1, <3>1, <4>1, <4>2, <4>4 DEF Stream!Deliver, Bytes, Over
      <4> QED BY <4>5 DEF Stream!SNext
    <3>8. CASE CallAgain
      <4>1. /\ delivered' = delivered + chunk_size
            /\ From + delivered + chunk_size <= to
            /\ Bytes' = [i \in 1..chunk_size |-> (From + delivered) + i - 1]
        BY <3>1, <3>8, NextWindow DEF Bytes
      <4>2. pc = "idle" /\ pc' = "idle" /\ Over = FALSE /\ Over' = FALSE
        BY <3>8 DEF CallAgain, Over
      <4>3. /\ Stream!Amount = chunk_size
            /\ From + delivered' = (From + delivered) + chunk_size
        BY <3>2, <3>3, <4>1 DEF Stream!Amount
      <4>4. Stream!Deliver
        BY <2>1, <3>1, <3>3, <4>1, <4>2, <4>3 DEF Stream!Deliver, Bytes, Over
      <4> QED BY <4>4 DEF Stream!SNext
    <3>9. CASE \E n \in 1..chunk_size : Transfer(n)
      <4>1. UNCHANGED <<to, shared_buffer, window, sz, delivered, pc>>
        BY <3>9 DEF Transfer
      <4>2. Bytes' = Bytes /\ Over' = Over
        BY <3>9, <4>1, WindowSame DEF Bytes, Over
      <4> QED BY <3>4, <4>1, <4>2
    <3>10. CASE \E n \in 1..chunk_size : Pread(n)
      <4>1. UNCHANGED <<to, shared_buffer, window, sz, delivered, pc>>
            /\ pc = "reading"
        BY <3>10 DEF Pread, Reading
      <4>2. sz = 0
        BY <4>1, WhileReading DEF Untouched
      <4>3. Bytes' = Bytes /\ Over' = Over
        BY <4>1, <4>2, WindowSame DEF Bytes, Over
      <4> QED BY <3>4, <4>1, <4>3
    <3>11. CASE CallFirst \/ PreadFails \/ Destroy \/ Complete \/ UNCHANGED vars
      <4>1. UNCHANGED <<memory, window, sz, delivered>>
        BY <3>11 DEF CallFirst, PreadFails, Destroy, Complete, vars
      <4>2. CASE CallFirst
        BY <3>4, <3>5, <4>1, <4>2 DEF CallFirst, Over
      <4>3. CASE Destroy
        BY <3>4, <3>5, <4>1, <4>3 DEF Destroy, Over
      <4>4. CASE PreadFails
        BY <3>4, <3>5, <4>1, <4>4 DEF PreadFails, Over
      <4>5. CASE Complete
        BY <3>4, <3>5, <4>1, <4>5 DEF Complete, Over
      <4>6. CASE UNCHANGED vars
        BY <3>4, <3>5, <4>1, <4>6 DEF vars, Over
      <4> QED BY <3>11, <4>2, <4>3, <4>4, <4>5, <4>6
    <3> QED BY <3>6, <3>7, <3>8, <3>9, <3>10, <3>11
            DEF Next, Reader, Kernel, WaitForever, Terminated
  <2> QED BY <2>2, <2>3
<1> QED BY <1>1, <1>2, Invariance, PTL DEF Spec

=============================================================================

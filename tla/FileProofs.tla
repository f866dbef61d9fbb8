----------------------------- MODULE FileProofs -----------------------------
(***************************************************************************)
(* The blocking readers stay inside their buffer, keep what they returned  *)
(* and deliver the segment in order, for any segment, any size of the      *)
(* chunk and any pattern of short reads and failures, until a pread fails  *)
(* with nothing read in its call.                                          *)
(*                                                                         *)
(* The benchmarks that read and write the file with them leave what their  *)
(* code can deliver, for any keys, any number of threads, any size of the  *)
(* windows and whatever the pwrites do.                                    *)
(***************************************************************************)
EXTENDS ReadReader, RawWrites, SequenceTheorems, FiniteSetTheorems, TLAPS

(***************************************************************************)
(* ReadReader.                                                             *)
(***************************************************************************)

(* How much next() asks for, without the wrap of the unsigned difference. *)
Ask == IF To - from < chunk_size THEN To - from ELSE chunk_size

(* The reader is between the ends of its segment, and its buffer pointer moves
   with it if the buffer is appended to. *)
Placed ==
  /\ from \in From..To
  /\ buffer = IF Mode = "append" THEN from - From ELSE 0
  /\ memory \in [0..(MemorySize - 1) -> Int \cup {Stale}]
  /\ bytes_read \in Nat /\ read_amt \in Nat

(* Where it is in a call. *)
InCall ==
  /\ pc \in {"idle", "reading", "ended"}
  /\ first_run \in BOOLEAN
  /\ first_run => Mode = "hybrid" /\ pc = "idle" /\ from = From
  /\ pc = "reading" => read_amt = Ask /\ bytes_read <= read_amt
  /\ pc = "ended" => from = To

(* What has been returned is what from has passed, and the bytes a call has
   read so far are in their places, like the first window of a hybrid reader
   and all that an append reader has read before. *)
Contents ==
  /\ Start + delivered = IF first_run THEN Start ELSE from
  /\ delivered \in Nat
  /\ pc = "reading" =>
       \A i \in 0..(bytes_read - 1) : memory[buffer + i] = from + i
  /\ first_run => \A i \in 0..(chunk_size - 1) : memory[i] = Start + i
  /\ Mode = "append" => \A k \in 0..(from - From - 1) : memory[k] = From + k
  /\ overrun = FALSE

Good == Placed /\ InCall /\ Contents

(* After a pread that failed with nothing read, nothing is known. *)
IInv == reader \in Readers /\ dropped \in BOOLEAN /\ (~dropped => Good)

-----------------------------------------------------------------------------

(* Arithmetic of the unsigned counters. *)
LEMMA Unsigned ==
  ASSUME NEW w \in Nat, w > 0, NEW a \in Int, -w < a, a < w
  PROVE  a % w = IF a >= 0 THEN a ELSE a + w
OBVIOUS

(* The sizes of a reader. *)
LEMMA Sizes ==
  ASSUME reader \in Readers
  PROVE  /\ From \in Nat /\ To \in Nat /\ From <= To /\ To <= FileSize
         /\ chunk_size \in Nat /\ (chunk_size = 0 => From = To)
         /\ Mode \in {"own", "append", "hybrid"}
         /\ Mode = "hybrid" => chunk_size > 0
         /\ MemorySize \in Nat
         /\ FileSize \in Nat /\ Word \in Nat
         /\ Word > 4 * (FileSize + 1) /\ Word > 4 * chunk_size
         /\ Word > FileSize + chunk_size + MemorySize + 1
         /\ MemorySize = IF Mode = "append" THEN To - From ELSE chunk_size
         /\ Start = IF Mode = "hybrid" THEN From - chunk_size ELSE From
         /\ Start \in Int
<1>1. /\ reader \in [mode : {"own", "append", "hybrid"}, from : 0..FileSize,
                     to : 0..FileSize, chunk_size : Nat]
      /\ FileSize \in Nat /\ Word \in Nat
      /\ reader.from <= reader.to
      /\ reader.mode = "hybrid" => reader.chunk_size > 0
      /\ Word > 4 * (FileSize + reader.chunk_size + 1)
  BY ReaderAssumption
<1>2. chunk_size = IF reader.chunk_size = 0 THEN To - From ELSE reader.chunk_size
  BY DEF chunk_size
<1>3. /\ From \in Nat /\ To \in Nat /\ From <= To /\ To <= FileSize
      /\ Mode \in {"own", "append", "hybrid"}
      /\ reader.chunk_size \in Nat
      /\ Mode = "hybrid" => reader.chunk_size > 0
  BY <1>1 DEF From, To, Mode
<1> QED BY <1>1, <1>2, <1>3 DEF MemorySize, Start

(* The constructor. *)
LEMMA InitIInv == Init => IInv
<1> SUFFICES ASSUME Init PROVE IInv
  OBVIOUS
<1>1. reader \in Readers /\ dropped = FALSE
  BY DEF Init
<1>2. Placed
  <2>1. from = From /\ buffer = 0 /\ bytes_read = 0 /\ read_amt = 0
    BY DEF Init
  <2>2. From \in Nat /\ To \in Nat /\ From <= To /\ Start \in Int
    BY <1>1, Sizes
  <2>3. from \in From..To /\ from - From = 0
    BY <2>1, <2>2
  <2>4. memory \in [0..(MemorySize - 1) -> Int \cup {Stale}]
    <3>1. \A i \in 0..(MemorySize - 1) :
            (IF Mode = "hybrid" THEN Start + i ELSE Stale) \in Int \cup {Stale}
      BY <2>2
    <3>2. memory = [i \in 0..(MemorySize - 1) |->
                      IF Mode = "hybrid" THEN Start + i ELSE Stale]
      BY DEF Init
    <3> QED BY <3>1, <3>2
  <2> QED BY <2>1, <2>3, <2>4 DEF Placed
<1>3. InCall
  BY <1>1, Sizes DEF Init, InCall
<1>4. Contents
  <2>1. /\ from = From /\ delivered = 0 /\ pc = "idle" /\ overrun = FALSE
        /\ first_run <=> Mode = "hybrid"
        /\ memory = [i \in 0..(MemorySize - 1) |->
                       IF Mode = "hybrid" THEN Start + i ELSE Stale]
    BY DEF Init
  <2>2. Start + delivered = IF first_run THEN Start ELSE from
    BY <1>1, <2>1, Sizes
  <2>3. first_run => \A i \in 0..(chunk_size - 1) : memory[i] = Start + i
    BY <1>1, <2>1, Sizes
  <2>4. Mode = "append" => \A k \in 0..(from - From - 1) : memory[k] = From + k
    BY <1>1, <2>1, Sizes
  <2> QED BY <2>1, <2>2, <2>3, <2>4 DEF Contents
<1> QED BY <1>1, <1>2, <1>3, <1>4 DEF IInv, Good

(* HybridReadReader's first window is the buffer as it is. *)
LEMMA FirstNextStep ==
  ASSUME reader \in Readers, Good, FirstNext
  PROVE  /\ Good'
         /\ delivered' = delivered + chunk_size
         /\ window' = [i \in 1..chunk_size |-> Start + delivered + i - 1]
<1>1. /\ pc = "idle" /\ first_run /\ first_run' = FALSE
      /\ delivered' = delivered + chunk_size
      /\ UNCHANGED <<reader, from, buffer, memory, bytes_read, read_amt, pc,
                     overrun>>
  BY DEF FirstNext
<1>2. /\ Mode = "hybrid" /\ from = From /\ buffer = 0 /\ Start + delivered = Start
      /\ delivered \in Nat
      /\ \A i \in 0..(chunk_size - 1) : memory[i] = Start + i
      /\ DOMAIN memory = 0..(chunk_size - 1)
  BY <1>1, Sizes DEF Good, Placed, InCall, Contents
<1>3. Placed' /\ InCall'
  BY <1>1, <1>2 DEF Good, Placed, InCall, Mode, From, To, MemorySize, chunk_size,
                    Ask
<1>4. Contents'
  <2>1. /\ Mode' = Mode /\ From' = From /\ Start' = Start
        /\ chunk_size' = chunk_size
    BY <1>1 DEF Mode, From, Start, chunk_size, To
  <2>2. Start' + delivered' = from' /\ delivered' \in Nat
    <3>1. /\ Start = From - chunk_size /\ From \in Nat /\ chunk_size \in Nat
          /\ delivered = 0
      BY <1>2, Sizes
    <3> QED BY <1>1, <1>2, <2>1, <3>1
  <2>3. overrun' = FALSE
    BY <1>1 DEF Good, Contents
  <2> QED BY <1>1, <1>2, <2>1, <2>2, <2>3 DEF Contents
<1>5. window' = [i \in 1..chunk_size |-> Start + delivered + i - 1]
  <2>1. ASSUME NEW i \in 1..chunk_size
        PROVE  (buffer + i - 1) % Word = i - 1 /\ i - 1 \in DOMAIN memory
               /\ memory[i - 1] = Start + delivered + i - 1
    <3>1. /\ Word \in Nat /\ Word > 0 /\ i - 1 < Word /\ i - 1 \in Nat
          /\ chunk_size \in Nat /\ Start \in Int
      BY Sizes
    <3>2. (i - 1) % Word = i - 1
      BY <3>1, Unsigned
    <3>3. buffer + i - 1 = i - 1 /\ i - 1 \in 0..(chunk_size - 1)
      BY <1>2, <3>1
    <3>4. Start + delivered + i - 1 = Start + (i - 1)
      BY <1>2, <3>1
    <3> QED BY <1>2, <3>2, <3>3, <3>4
  <2> QED BY <2>1 DEF FirstNext, Returns
<1> QED BY <1>1, <1>3, <1>4, <1>5 DEF Good

(* next() is called; how much it asks for does not wrap. *)
LEMMA AmountIsAsk ==
  ASSUME reader \in Readers, Good
  PROVE  Left = To - from /\ Amount = Ask /\ Ask \in Nat
<1>1. /\ Word \in Nat /\ Word > 0 /\ To - from \in Nat /\ To - from < Word
  <2>1. from \in From..To
    BY DEF Good, Placed
  <2> QED BY <2>1, Sizes
<1>2. Left = To - from
  BY <1>1, Unsigned DEF Left
<1> QED BY <1>1, <1>2, Sizes DEF Amount, Ask

LEMMA CallNextStep ==
  ASSUME reader \in Readers, Good, CallNext
  PROVE  Good'
<1>1. /\ ~first_run /\ pc' = "reading" /\ bytes_read' = 0 /\ read_amt' = Ask
      /\ UNCHANGED <<reader, from, buffer, memory, first_run, delivered, overrun>>
  BY AmountIsAsk DEF CallNext
<1>2. /\ Mode' = Mode /\ From' = From /\ To' = To /\ Start' = Start
      /\ chunk_size' = chunk_size /\ MemorySize' = MemorySize /\ Ask' = Ask
  BY <1>1 DEF Mode, From, To, Start, chunk_size, MemorySize, Ask
<1>3. Placed' /\ InCall'
  BY <1>1, <1>2, AmountIsAsk DEF Good, Placed, InCall
<1>4. Contents'
  BY <1>1, <1>2 DEF Good, Contents, InCall
<1> QED BY <1>3, <1>4 DEF Good

(* In a call, what is still to be read fits behind what has been read, in the
   buffer as in the segment; no pointer or position wraps. *)
LEMMA Room ==
  ASSUME reader \in Readers, Good, pc = "reading"
  PROVE  /\ from \in Nat /\ From <= from /\ buffer \in Nat
         /\ read_amt = Ask /\ read_amt \in Nat
         /\ bytes_read \in Nat /\ bytes_read <= read_amt
         /\ buffer + read_amt <= MemorySize
         /\ from + read_amt <= To
         /\ (from + bytes_read) % Word = from + bytes_read
         /\ (buffer + bytes_read) % Word = buffer + bytes_read
<1>1. /\ from \in From..To /\ bytes_read \in Nat
      /\ buffer = IF Mode = "append" THEN from - From ELSE 0
      /\ read_amt = Ask /\ bytes_read <= read_amt
  BY DEF Good, Placed, InCall
<1>2. /\ Ask = IF To - from < chunk_size THEN To - from ELSE chunk_size
      /\ From \in Nat /\ To \in Nat /\ chunk_size \in Nat /\ To <= FileSize
      /\ FileSize \in Nat /\ Word \in Nat /\ MemorySize \in Nat
      /\ Word > FileSize + chunk_size + MemorySize + 1
      /\ MemorySize = IF Mode = "append" THEN To - From ELSE chunk_size
  BY Sizes DEF Ask
<1>3. /\ from \in Nat /\ From <= from /\ buffer \in Nat
      /\ read_amt \in Nat
      /\ buffer + read_amt <= MemorySize
      /\ from + read_amt <= To
  BY <1>1, <1>2
<1>4. /\ from + bytes_read \in Int /\ from + bytes_read >= 0
      /\ from + bytes_read < Word
      /\ buffer + bytes_read \in Int /\ buffer + bytes_read >= 0
      /\ buffer + bytes_read < Word /\ Word > 0
  BY <1>1, <1>2, <1>3
<1>5. /\ (from + bytes_read) % Word = from + bytes_read
      /\ (buffer + bytes_read) % Word = buffer + bytes_read
  BY <1>2, <1>4, Unsigned
<1> QED BY <1>1, <1>3, <1>5

(* The constants of a reader do not change. *)
LEMMA Fixed ==
  ASSUME reader' = reader
  PROVE  /\ Mode' = Mode /\ From' = From /\ To' = To /\ Start' = Start
         /\ chunk_size' = chunk_size /\ MemorySize' = MemorySize
BY DEF Mode, From, To, Start, chunk_size, MemorySize

(* What pread puts into the buffer, and where. *)
LEMMA PreadStores ==
  ASSUME reader \in Readers, Good, NEW n \in 1..chunk_size, Pread(n)
  PROVE  /\ pc = "reading" /\ n <= read_amt - bytes_read /\ n \in Nat
         /\ memory' = [i \in 0..(MemorySize - 1) |->
                         IF i \in (buffer + bytes_read)..(buffer + bytes_read + n - 1)
                         THEN from + (i - buffer) ELSE memory[i]]
         /\ overrun' = FALSE
<1>1. pc = "reading" /\ bytes_read < read_amt /\ n <= read_amt - bytes_read
  BY DEF Pread, Reading
<1>2. n \in Nat /\ n > 0 /\ chunk_size \in Nat /\ MemorySize \in Nat
  BY Sizes
<1>3. /\ IntoBuffer = buffer + bytes_read /\ FilePos = from + bytes_read
      /\ IntoBuffer \in Nat /\ FilePos \in Nat
      /\ IntoBuffer + n <= MemorySize
  BY <1>1, <1>2, Room DEF IntoBuffer, FilePos
<1>4. DOMAIN memory = 0..(MemorySize - 1)
  BY DEF Good, Placed
<1>5. ASSUME NEW i \in 0..(MemorySize - 1)
      PROVE  /\ (i - IntoBuffer) % Word < n <=>
                  i \in (buffer + bytes_read)..(buffer + bytes_read + n - 1)
             /\ (i - IntoBuffer) % Word < n =>
                  FilePos + ((i - IntoBuffer) % Word) = from + (i - buffer)
  <2>1. /\ i - IntoBuffer \in Int /\ -Word < i - IntoBuffer /\ i - IntoBuffer < Word
        /\ Word \in Nat /\ Word > 0 /\ Word > MemorySize
    BY <1>2, <1>3, Sizes
  <2>2. (i - IntoBuffer) % Word =
          IF i - IntoBuffer >= 0 THEN i - IntoBuffer ELSE i - IntoBuffer + Word
    BY <2>1, Unsigned
  <2>3. /\ buffer \in Nat /\ bytes_read \in Nat /\ from \in Nat
    BY <1>1, Room
  <2>4. CASE i - IntoBuffer >= 0
    BY <1>2, <1>3, <2>1, <2>2, <2>3, <2>4
  <2>5. CASE i - IntoBuffer < 0
    BY <1>2, <1>3, <2>1, <2>2, <2>3, <2>5
  <2> QED BY <1>3, <2>1, <2>4, <2>5
<1>6. memory' = [i \in 0..(MemorySize - 1) |->
                   IF (i - IntoBuffer) % Word < n
                   THEN FilePos + ((i - IntoBuffer) % Word) ELSE memory[i]]
  BY <1>4 DEF Pread
<1>7. overrun' = FALSE
  <2>1. overrun' = (overrun \/ IntoBuffer + n > MemorySize)
    BY DEF Pread
  <2>2. overrun = FALSE
    BY DEF Good, Contents
  <2>3. ~(IntoBuffer + n > MemorySize)
    BY <1>2, <1>3
  <2> QED BY <2>1, <2>2, <2>3
<1> QED BY <1>1, <1>2, <1>5, <1>6, <1>7

LEMMA PreadStep ==
  ASSUME reader \in Readers, Good, NEW n \in 1..chunk_size, Pread(n)
  PROVE  Good'
<1>1. /\ pc = "reading" /\ n <= read_amt - bytes_read /\ n \in Nat
      /\ \A i \in 0..(MemorySize - 1) :
           memory'[i] = IF i \in (buffer + bytes_read)..(buffer + bytes_read + n - 1)
                        THEN from + (i - buffer) ELSE memory[i]
      /\ DOMAIN memory' = 0..(MemorySize - 1)
      /\ overrun' = FALSE
  BY PreadStores
<1>2. /\ bytes_read' = bytes_read + n
      /\ UNCHANGED <<reader, from, buffer, first_run, read_amt, pc, delivered>>
  BY DEF Pread
<1>3. /\ Mode' = Mode /\ From' = From /\ To' = To /\ Start' = Start
      /\ chunk_size' = chunk_size /\ MemorySize' = MemorySize /\ Ask' = Ask
  BY <1>2, Fixed DEF Ask
<1>4. /\ from \in Nat /\ From \in Nat /\ From <= from
      /\ buffer \in Nat /\ bytes_read \in Nat
      /\ read_amt \in Nat /\ bytes_read <= read_amt
      /\ buffer + read_amt <= MemorySize /\ MemorySize \in Nat
      /\ buffer = IF Mode = "append" THEN from - From ELSE 0
  BY <1>1, Room, Sizes DEF Good, Placed
<1>5. Placed'
  <2>1. \A i \in 0..(MemorySize - 1) : memory'[i] \in Int \cup {Stale}
    BY <1>1, <1>4 DEF Good, Placed
  <2>2. memory' = [i \in 0..(MemorySize - 1) |-> memory'[i]]
    BY PreadStores
  <2>3. memory' \in [0..(MemorySize - 1) -> Int \cup {Stale}]
    BY <2>1, <2>2
  <2> QED BY <1>1, <1>2, <1>3, <1>4, <2>3 DEF Good, Placed
<1>6. InCall'
  BY <1>1, <1>2, <1>3, <1>4 DEF Good, InCall
<1>7. Contents'
  <2>1. \A i \in 0..(bytes_read' - 1) : memory'[buffer' + i] = from' + i
    <3> SUFFICES ASSUME NEW i \in 0..(bytes_read' - 1)
                 PROVE  memory'[buffer' + i] = from' + i
      OBVIOUS
    <3>1. /\ i \in 0..(bytes_read + n - 1) /\ buffer' = buffer /\ from' = from
          /\ buffer + i \in 0..(MemorySize - 1) /\ (buffer + i) - buffer = i
      BY <1>1, <1>2, <1>4
    <3>2. CASE i \in 0..(bytes_read - 1)
      <4>1. memory[buffer + i] = from + i
        BY <1>1, <3>2 DEF Good, Contents
      <4> QED BY <1>1, <1>4, <3>1, <3>2, <4>1
    <3>3. CASE i \in bytes_read..(bytes_read + n - 1)
      BY <1>1, <1>4, <3>1, <3>3
    <3> QED BY <1>1, <1>4, <3>1, <3>2, <3>3
  <2>2. Mode' = "append" => \A k \in 0..(from' - From' - 1) : memory'[k] = From' + k
    <3>1. SUFFICES ASSUME Mode = "append", NEW k \in 0..(from - From - 1)
                   PROVE  memory'[k] = From + k
      BY <1>2, <1>3
    <3>2. memory[k] = From + k
      BY <3>1 DEF Good, Contents
    <3>3. k \in 0..(MemorySize - 1) /\ k < buffer
      BY <1>4, <3>1
    <3> QED BY <1>1, <1>4, <3>2, <3>3
  <2>3. ~first_run
    BY <1>1 DEF Good, InCall
  <2> QED BY <1>1, <1>2, <1>3, <2>1, <2>2, <2>3 DEF Good, Contents
<1> QED BY <1>5, <1>6, <1>7 DEF Good

(* A failure with something read takes back one byte of it. *)
LEMMA PreadFailsStep ==
  ASSUME reader \in Readers, dropped \in BOOLEAN, ~dropped => Good, PreadFails
  PROVE  dropped' \in BOOLEAN /\ (~dropped' => ~dropped /\ Good')
<1>1. dropped' = (dropped \/ bytes_read = 0)
  BY DEF PreadFails
<1>2. ASSUME ~dropped' PROVE ~dropped /\ Good'
  <2>1. ~dropped /\ bytes_read # 0 /\ Good
    BY <1>1, <1>2
  <2>2. /\ pc = "reading" /\ bytes_read' = (bytes_read - 1) % Word
        /\ UNCHANGED <<reader, from, buffer, memory, first_run, read_amt, pc,
                       delivered, overrun>>
    BY DEF PreadFails, Reading
  <2>3. /\ bytes_read \in Nat /\ bytes_read <= read_amt /\ read_amt \in Nat
        /\ buffer + read_amt <= MemorySize /\ buffer \in Nat
        /\ MemorySize \in Nat /\ Word \in Nat /\ Word > MemorySize
    BY <2>1, <2>2, Room, Sizes
  <2>4. bytes_read' = bytes_read - 1
    <3>1. /\ bytes_read - 1 \in Int /\ bytes_read - 1 >= 0 /\ bytes_read - 1 < Word
          /\ Word > 0 /\ -Word < bytes_read - 1
      BY <2>1, <2>3
    <3> QED BY <2>2, <2>3, <3>1, Unsigned
  <2>5. /\ Mode' = Mode /\ From' = From /\ To' = To /\ Start' = Start
        /\ chunk_size' = chunk_size /\ MemorySize' = MemorySize /\ Ask' = Ask
    BY <2>2, Fixed DEF Ask
  <2>6. Placed' /\ InCall'
    BY <2>1, <2>2, <2>3, <2>4, <2>5 DEF Good, Placed, InCall
  <2>7. Contents'
    BY <2>1, <2>2, <2>3, <2>4, <2>5 DEF Good, Contents
  <2> QED BY <2>1, <2>6, <2>7 DEF Good
<1> QED BY <1>1, <1>2

(* next() returns the window, or a null pointer if nothing was left. *)
LEMMA NextReturnsStep ==
  ASSUME reader \in Readers, Good, ~dropped, NextReturns
  PROVE  /\ Good'
         /\ read_amt = Ask /\ ~first_run /\ pc = "reading"
         /\ IF read_amt = 0 THEN pc' = "ended" /\ UNCHANGED <<window, delivered>>
            ELSE /\ pc' = "idle" /\ delivered' = delivered + read_amt
                 /\ window' = [i \in 1..read_amt |-> from + i - 1]
<1>1. /\ pc = "reading" /\ ~(bytes_read < read_amt)
      /\ UNCHANGED <<reader, memory, first_run, bytes_read, read_amt, overrun>>
  BY DEF NextReturns, Reading
<1>2. /\ from \in Nat /\ From <= from /\ buffer \in Nat
      /\ read_amt = Ask /\ read_amt \in Nat /\ bytes_read = read_amt
      /\ buffer + read_amt <= MemorySize /\ from + read_amt <= To
      /\ (from + read_amt) % Word = from + read_amt
      /\ (buffer + read_amt) % Word = buffer + read_amt
  <2>1. bytes_read = read_amt
    BY <1>1, Room
  <2> QED BY <1>1, <2>1, Room
<1>3. /\ from' = from + read_amt
      /\ buffer' = IF Mode = "append" THEN buffer + read_amt ELSE buffer
  BY <1>2 DEF NextReturns, NextFrom, NextBuffer
<1>4. /\ Mode' = Mode /\ From' = From /\ To' = To /\ Start' = Start
      /\ chunk_size' = chunk_size /\ MemorySize' = MemorySize
  BY <1>1, Fixed
<1>5. /\ From \in Nat /\ To \in Nat /\ chunk_size \in Nat /\ Start \in Int
      /\ MemorySize \in Nat /\ Word \in Nat /\ Word > MemorySize
      /\ chunk_size = 0 => From = To
  BY Sizes
<1>6. ~first_run
  BY <1>1 DEF Good, InCall
<1>7. /\ read_amt = 0 => pc' = "ended" /\ window' = window /\ delivered' = delivered
      /\ read_amt # 0 => pc' = "idle" /\ delivered' = delivered + read_amt
                        /\ Returns(read_amt)
  BY DEF NextReturns
<1>8. read_amt # 0 => window' = [i \in 1..read_amt |-> from + i - 1]
  <2>1. ASSUME NEW i \in 1..read_amt
        PROVE  /\ (buffer + i - 1) % Word \in DOMAIN memory
               /\ memory[(buffer + i - 1) % Word] = from + i - 1
    <3>1. /\ buffer + i - 1 \in Int /\ buffer + i - 1 >= 0
          /\ buffer + i - 1 < MemorySize /\ buffer + i - 1 < Word /\ Word > 0
          /\ -Word < buffer + i - 1
          /\ i - 1 \in 0..(bytes_read - 1)
          /\ buffer + (i - 1) = buffer + i - 1 /\ from + (i - 1) = from + i - 1
      BY <1>2, <1>5
    <3>2. (buffer + i - 1) % Word = buffer + i - 1
      BY <1>5, <3>1, Unsigned
    <3>3. DOMAIN memory = 0..(MemorySize - 1)
      BY DEF Good, Placed
    <3>4. memory[buffer + (i - 1)] = from + (i - 1)
      BY <1>1, <3>1 DEF Good, Contents
    <3> QED BY <1>5, <3>1, <3>2, <3>3, <3>4
  <2> QED BY <1>7, <2>1 DEF Returns
<1>9. Placed'
  BY <1>1, <1>2, <1>3, <1>4, <1>5 DEF Good, Placed
<1>10. InCall'
  <2>1. read_amt = 0 => from = To
    BY <1>2, <1>5 DEF Ask
  <2>2. pc' \in {"idle", "ended"} /\ (pc' = "ended" => from' = To')
    BY <1>2, <1>3, <1>4, <1>5, <1>7, <2>1
  <2> QED BY <1>1, <1>6, <2>2 DEF Good, InCall
<1>11. Contents'
  <2>1. Start + delivered = from /\ delivered \in Nat /\ overrun = FALSE
    BY <1>6 DEF Good, Contents
  <2>2. Start' + delivered' = from' /\ delivered' \in Nat
    BY <1>2, <1>3, <1>4, <1>5, <1>7, <2>1
  <2>3. Mode' = "append" => \A k \in 0..(from' - From' - 1) : memory'[k] = From' + k
    <3>1. ASSUME Mode = "append", NEW k \in 0..(from + read_amt - From - 1)
          PROVE  memory[k] = From + k
      <4>1. CASE k \in 0..(from - From - 1)
        BY <3>1, <4>1 DEF Good, Contents
      <4>2. CASE k >= from - From
        <5>1. /\ buffer = from - From
          BY <3>1 DEF Good, Placed
        <5>2. /\ k - buffer \in 0..(bytes_read - 1) /\ buffer + (k - buffer) = k
              /\ from + (k - buffer) = From + k
          BY <1>2, <1>5, <4>2, <5>1
        <5>3. memory[buffer + (k - buffer)] = from + (k - buffer)
          BY <1>1, <5>2 DEF Good, Contents
        <5> QED BY <5>2, <5>3
      <4> QED BY <1>2, <1>5, <4>1, <4>2
    <3>2. memory' = memory /\ from' = from + read_amt
      BY <1>1, <1>3
    <3> QED BY <1>2, <1>4, <1>5, <3>1, <3>2
  <2>4. pc' # "reading"
    BY <1>7, <1>2
  <2> QED BY <1>1, <1>6, <2>1, <2>2, <2>3, <2>4 DEF Contents
<1> QED BY <1>1, <1>2, <1>6, <1>7, <1>8, <1>9, <1>10, <1>11 DEF Good

-----------------------------------------------------------------------------

(* Every step preserves the invariant; nothing changes after the end. *)
LEMMA NextIInv == IInv /\ [Next]_vars => IInv'
<1> SUFFICES ASSUME IInv, [Next]_vars PROVE IInv'
  OBVIOUS
<1>1. reader \in Readers /\ dropped \in BOOLEAN /\ (~dropped => Good)
  BY DEF IInv
<1>2. CASE FirstNext
  BY <1>1, <1>2, FirstNextStep DEF FirstNext, IInv
<1>3. CASE CallNext
  BY <1>1, <1>3, CallNextStep DEF CallNext, IInv
<1>4. CASE NextReturns
  BY <1>1, <1>4, NextReturnsStep DEF NextReturns, IInv
<1>5. CASE PreadFails
  BY <1>1, <1>5, PreadFailsStep DEF PreadFails, IInv
<1>6. CASE \E n \in 1..chunk_size : Pread(n)
  BY <1>1, <1>6, PreadStep DEF Pread, IInv
<1>7. CASE UNCHANGED vars
  <2>1. /\ reader' = reader /\ dropped' = dropped
        /\ UNCHANGED <<from, buffer, memory, first_run, bytes_read, read_amt, pc,
                       delivered, overrun>>
    BY <1>7 DEF vars
  <2>2. Good => Good'
    BY <2>1, Fixed DEF Good, Placed, InCall, Contents, Ask
  <2> QED BY <1>1, <2>1, <2>2 DEF IInv
<1> QED BY <1>2, <1>3, <1>4, <1>5, <1>6, <1>7
        DEF Next, Reader, PreadEOF, Terminated

LEMMA Invariance == Spec => []IInv
<1> QED BY InitIInv, NextIInv, PTL DEF Spec

(* As long as no pread failed with nothing read in its call, no byte is put
   outside the buffer (WithinBuffer), by ReadReader::next in any of its uses. *)
THEOREM StaysWithinBuffer == Spec => []WithinBuffer
<1>1. IInv => WithinBuffer
  BY DEF IInv, Good, Contents, WithinBuffer
<1> QED BY <1>1, Invariance, PTL

(* What an append reader has returned stays in the shared buffer where its
   consumer saw it (Retained), until all tasks of single_run have used it. *)
THEOREM WindowsRetained == Spec => []Retained
<1>1. IInv => Retained
  <2> SUFFICES ASSUME IInv, Mode = "append", ~dropped,
                      NEW k \in 0..(delivered - 1)
               PROVE  memory[k] = From + k
    BY DEF Retained
  <2>1. reader \in Readers /\ Good
    BY DEF IInv
  <2>2. ~first_run /\ Start = From
    BY <2>1, Sizes DEF Good, InCall
  <2>3. From + delivered = from /\ delivered \in Nat /\ From \in Nat
    BY <2>1, <2>2, Sizes DEF Good, Contents
  <2>4. k \in 0..(from - From - 1)
    BY <2>3
  <2> QED BY <2>1, <2>4 DEF Good, Contents
<1> QED BY <1>1, Invariance, PTL

(* The reader delivers its segment window by window, exactly and in order, and
   a null pointer only at its end, until a pread fails with nothing read: the
   safety part of ImplementsStream. *)
THEOREM DeliversStream ==
  Spec => Stream!SInit /\ [][Stream!SNext]_(Stream!svars)
<1>1. Init => Stream!SInit
  <2> SUFFICES ASSUME Init PROVE Stream!SInit
    OBVIOUS
  <2>1. reader \in Readers /\ delivered = 0 /\ window = <<>> /\ pc = "idle"
        /\ dropped = FALSE
    BY DEF Init
  <2>2. Start + delivered = Start
    BY <2>1, Sizes
  <2> QED BY <2>1, <2>2 DEF Stream!SInit
<1>2. IInv /\ [Next]_vars => [Stream!SNext]_(Stream!svars)
  <2> SUFFICES ASSUME IInv, [Next]_vars PROVE [Stream!SNext]_(Stream!svars)
    OBVIOUS
  <2>1. reader \in Readers /\ (~dropped => Good)
    BY DEF IInv
  <2> DEFINE Same == /\ Start' = Start /\ To' = To /\ chunk_size' = chunk_size
  <2>2. reader' = reader => Same
    BY Fixed
  <2>3. CASE dropped'
    <3>1. reader' = reader
      BY DEF Next, Reader, FirstNext, CallNext, NextReturns, PreadFails, PreadEOF,
             Pread, Terminated, vars
    <3> QED BY <2>2, <2>3, <3>1 DEF Stream!SNext, Stream!Break, Stream!fixed
  <2>4. CASE ~dropped' /\ ~dropped
    <3> USE DEF Stream!svars, Stream!fixed
    <3>1. Good /\ dropped = FALSE /\ dropped' = FALSE
      BY <2>1, <2>4, NextIInv DEF IInv
    <3>2. CASE FirstNext
      <4>1. /\ delivered' = delivered + chunk_size /\ pc' = pc /\ pc = "idle"
            /\ reader' = reader /\ first_run
            /\ window' = [i \in 1..chunk_size |-> Start + delivered + i - 1]
        BY <2>1, <3>1, <3>2, FirstNextStep DEF FirstNext
      <4>2. /\ Start + delivered = Start /\ delivered \in Nat /\ Start = From - chunk_size
            /\ chunk_size \in Nat /\ chunk_size > 0 /\ To \in Nat /\ From \in Nat
            /\ From <= To
        BY <2>1, <3>1, <4>1, Sizes DEF Good, InCall, Contents
      <4>3. Stream!Amount = chunk_size /\ Stream!Amount > 0
        BY <4>2 DEF Stream!Amount
      <4>4. Start' + delivered' = (Start + delivered) + chunk_size
        BY <2>2, <4>1, <4>2
      <4>5. Stream!Deliver
        BY <2>2, <3>1, <4>1, <4>3, <4>4 DEF Stream!Deliver
      <4> QED BY <4>5 DEF Stream!SNext
    <3>3. CASE NextReturns
      <4>1. /\ read_amt = Ask /\ ~first_run /\ pc = "reading" /\ reader' = reader
            /\ read_amt = 0 => pc' = "ended" /\ window' = window
                                /\ delivered' = delivered
            /\ read_amt # 0 => /\ pc' = "idle" /\ delivered' = delivered + read_amt
                               /\ window' = [i \in 1..read_amt |-> from + i - 1]
        BY <2>1, <2>4, <3>1, <3>3, NextReturnsStep DEF NextReturns
      <4>2. /\ Start + delivered = from /\ delivered \in Nat /\ Start \in Int
            /\ read_amt \in Nat
        BY <2>1, <3>1, <4>1, Sizes DEF Good, Contents, Placed
      <4>3. Stream!Amount = read_amt
        BY <4>1, <4>2 DEF Stream!Amount, Ask
      <4>4. CASE read_amt = 0
        BY <2>2, <3>1, <4>1, <4>3, <4>4 DEF Stream!SNext, Stream!Finish
      <4>5. CASE read_amt # 0
        <5>1. Start' + delivered' = (Start + delivered) + read_amt
          BY <2>2, <4>1, <4>2, <4>5
        <5>2. window' = [i \in 1..read_amt |-> (Start + delivered) + i - 1]
          BY <4>1, <4>2, <4>5
        <5>3. read_amt > 0
          BY <4>2, <4>5
        <5>4. (pc = "ended") = FALSE /\ (pc = "ended")' = FALSE
          BY <4>1, <4>5
        <5>5. Stream!Deliver
          BY <2>2, <3>1, <4>1, <4>3, <5>1, <5>2, <5>3, <5>4 DEF Stream!Deliver
        <5> QED BY <5>5 DEF Stream!SNext
      <4> QED BY <4>4, <4>5
    <3>4. CASE CallNext
      <4>1. /\ reader' = reader /\ delivered' = delivered /\ window' = window
            /\ (pc = "ended") = FALSE /\ (pc = "ended")' = FALSE
        BY <3>4 DEF CallNext
      <4> QED BY <2>2, <3>1, <4>1
    <3>5. CASE PreadFails
      <4>1. /\ reader' = reader /\ delivered' = delivered /\ window' = window
            /\ (pc = "ended") = FALSE /\ (pc = "ended")' = FALSE
        BY <3>5 DEF PreadFails, Reading
      <4> QED BY <2>2, <3>1, <4>1
    <3>6. CASE \E n \in 1..chunk_size : Pread(n)
      <4>1. /\ reader' = reader /\ delivered' = delivered /\ window' = window
            /\ (pc = "ended") = FALSE /\ (pc = "ended")' = FALSE
        BY <3>6 DEF Pread, Reading
      <4> QED BY <2>2, <3>1, <4>1
    <3>7. CASE UNCHANGED vars
      BY <2>2, <3>7 DEF vars
    <3> QED BY <3>2, <3>3, <3>4, <3>5, <3>6, <3>7
            DEF Next, Reader, PreadEOF, Terminated
  <2>5. dropped => dropped'
    BY DEF IInv, Next, Reader, FirstNext, CallNext, NextReturns, PreadFails,
           PreadEOF, Pread, Terminated, vars
  <2> QED BY <2>3, <2>4, <2>5
<1> QED BY <1>1, <1>2, Invariance, PTL DEF Spec

(***************************************************************************)
(* RawWrites.                                                              *)
(***************************************************************************)

Benches == {"FileInMem", "ColumnStore", "ColumnStoreBW", "InMemory", "IO"}

(* The stages of main, benchmark by benchmark. *)
Stages ==
  /\ main_pc \in {"first", "sort", "rearrange", "second", "write", "done", "exit"}
  /\ this.bench = "InMemory" => main_pc \in {"sort", "write", "done"}
  /\ this.bench # "InMemory" => main_pc # "write"
  /\ this.bench \in {"IO", "ColumnStoreBW"} =>
       main_pc \in {"first", "second", "done", "exit"}
  /\ this.bench = "FileInMem" => main_pc \in {"first", "sort", "second", "done"}
  /\ this.bench = "IO" /\ main_pc \in {"second", "done"} =>
       this.size % this.n_threads = 0

RawTypes ==
  /\ this \in Cases
  /\ input \in [Rows -> Keys]
  /\ added \in Nat
  /\ tuples \in [Rows -> Rows \cup {None}]
  /\ tuples_by_row \in [Rows -> Rows]
  /\ output \in [Disk -> Rows \cup {None}]
  /\ progress \in [Tasks -> Nat]
  /\ bytes_written \in Nat
  /\ pending \in Seq(Tasks) /\ executing \subseteq Tasks /\ done \subseteq Tasks

(* The task main adds in place i of a phase. *)
PhaseTask(i) == [phase |-> main_pc, slot |-> i]

InPhase(t) == t.slot < this.n_threads /\ (main_pc # "exit" => t.phase = main_pc)

(* Only tasks of the phase main is in are with the pool, none between the phases;
   main waits when it has added them all; who is done has taken all its tuples,
   and who comes later none. *)
RawPhases ==
  /\ \A t \in Pool!Elements(pending) \cup executing : InPhase(t)
  /\ \/ main_pc \in {"sort", "rearrange", "write", "done"}
     \/ main_pc = "exit" /\ this.bench = "ColumnStoreBW"
     => Pool!Quiet
  /\ main_pc \in {"sort", "rearrange"} => added = 0 /\ client = "open"
  /\ main_pc \in {"first", "second"} =>
       /\ client = "waiting" => added = this.n_threads
       /\ \A i \in 0..(added - 1) : i < this.n_threads => PhaseTask(i) \in Pool!Known
  /\ \A t \in done : progress[t] >= segment_size
  /\ main_pc \in {"first", "sort", "rearrange"} =>
       \A t \in Tasks : t.phase = "second" => progress[t] = 0

OneWindow == window_size = segment_size
InFileOrder == \A i \in Rows : tuples[i] = i
InKeyOrder == tuples \in [Rows -> Rows] /\ Permuted(tuples) /\ Sorted(tuples)

(* What the tasks of the first phase leave behind. *)
LoadedUpTo(t) ==
  \A k \in 0..(segment_size - 1) :
    k < progress[t] => tuples[segment_from(t) + k] = segment_from(t) + k
ReadUpTo(t) ==
  progress[t] > 0 =>
    \A k \in 0..(window_size - 1) : tuples[segment_from(t) + k] = segment_from(t) + k

(* InMemoryBenchmark: what has been written is in its place. *)
MemoryWritten ==
  this.bench = "InMemory" =>
    /\ main_pc = "sort" => InFileOrder
    /\ main_pc # "sort" => InKeyOrder
    /\ \/ "failed at once" \in troubles
       \/ /\ bytes_written <= this.size
          /\ \A i \in 0..(bytes_written - 1) : output[i] = tuples[i]
          /\ main_pc = "done" => bytes_written = this.size
          /\ main_pc = "sort" => bytes_written = 0

(* IOBenchmark: nothing leaves its segment; and what the tasks have written. *)
FileCopied ==
  this.bench = "IO" =>
    /\ \A i \in Rows : tuples[i] \in {None, i}
    /\ main_pc = "first" =>
         /\ \A i \in Disk : output[i] = None
         /\ \A t \in Tasks : t.phase = "first" /\ t.slot < this.n_threads => ReadUpTo(t)
    /\ main_pc \in {"second", "done"} /\ OneWindow => InFileOrder
    /\ main_pc = "second" =>
         /\ \A i \in Disk : output[i] # None =>
              \E s \in 0..(this.n_threads - 1), k, l \in 0..(segment_size - 1) :
                i = s * segment_size + k /\ output[i] = s * segment_size + l
         /\ OneWindow /\ troubles = {} =>
              \A t \in Tasks : t.phase = "second" /\ t.slot < this.n_threads =>
                /\ progress[t] \in {0, segment_size}
                /\ progress[t] > 0 =>
                     \A k \in 0..(segment_size - 1) :
                       output[segment_from(t) + k] = segment_from(t) + k
    /\ main_pc = "done" /\ OneWindow /\ troubles = {} => \A i \in Rows : output[i] = i

(* The column store is loaded, and sorted. *)
StoreLoaded ==
  this.bench \in {"FileInMem", "ColumnStore", "ColumnStoreBW"} =>
    /\ main_pc = "first" =>
         \A t \in Tasks : t.phase = "first" /\ t.slot < this.n_threads => LoadedUpTo(t)
    /\ this.bench = "ColumnStoreBW" /\ main_pc # "first" => InFileOrder
    /\ this.bench \in {"FileInMem", "ColumnStore"} =>
         /\ main_pc = "sort" => InFileOrder
         /\ main_pc \in {"rearrange", "second", "done"} => InKeyOrder

(* And every tuple is written to its place. *)
OnlyTask == [phase |-> "second", slot |-> 0]
StoreWritten ==
  this.bench = "ColumnStore" /\ main_pc \in {"second", "done"} =>
    /\ \A r \in Rows : tuples[tuples_by_row[r]] = r
    /\ this.n_threads = 1 /\ OneWindow /\ troubles = {} =>
         /\ \A k \in Rows : k < progress[OnlyTask] => output[tuples_by_row[k]] = k
         /\ main_pc = "done" => progress[OnlyTask] >= this.size

(* FileInMemColumnStoreBenchmark: so are the tuples from memory. *)
StoredUpTo(t) ==
  \A k \in 0..(segment_size - 1) :
    k < progress[t] => output[segment_from(t) + k] = tuples[segment_from(t) + k]
FileStored ==
  this.bench = "FileInMem" =>
    /\ main_pc = "second" =>
         \A t \in Tasks : t.phase = "second" /\ t.slot < this.n_threads => StoredUpTo(t)
    /\ main_pc = "done" => \A i \in Rows : output[i] = tuples[i]

RawContents == MemoryWritten /\ FileCopied /\ StoreLoaded /\ StoreWritten /\ FileStored

RawInv == Stages /\ RawTypes /\ RawPhases /\ RawContents

-----------------------------------------------------------------------------
(* Segments of s elements. *)

LEMMA Exact ==
  ASSUME NEW a \in Nat, NEW n \in Nat \ {0}, a % n = 0
  PROVE  a \div n \in Nat /\ n * (a \div n) = a
<1>1. a \div n \in Int /\ a = n * (a \div n) + (a % n)
  OBVIOUS
<1>2. a \div n >= 0
  BY <1>1
<1> QED BY <1>1, <1>2

LEMMA Below ==
  ASSUME NEW p \in Nat, NEW q \in Nat, NEW s \in Nat, p < q
  PROVE  p * s + s <= q * s
<1>1. PICK d \in Nat : q = p + 1 + d
  <2>1. q - p - 1 \in Nat /\ q = p + 1 + (q - p - 1)
    OBVIOUS
  <2> QED BY <2>1
<1>2. q * s = p * s + s + d * s /\ d * s \in Nat /\ p * s \in Nat
  BY <1>1, Z3
<1> QED BY <1>2

(* The k-th element of segment p lies among all of them, *)
LEMMA InSegments ==
  ASSUME NEW n \in Nat, NEW s \in Nat, NEW p \in 0..(n - 1), NEW k \in 0..(s - 1)
  PROVE  p * s + k \in 0..(n * s - 1)
<1>1. p \in Nat /\ p < n /\ p * s \in Nat /\ n * s \in Nat
  OBVIOUS
<1>2. p * s + s <= n * s
  BY <1>1, Below
<1> QED BY <1>1, <1>2

(* in no other segment, *)
LEMMA SegmentsApart ==
  ASSUME NEW s \in Nat, NEW p \in Nat, NEW q \in Nat, p # q,
         NEW k \in 0..(s - 1), NEW l \in 0..(s - 1)
  PROVE  p * s + k # q * s + l
<1>1. p * s \in Nat /\ q * s \in Nat
  OBVIOUS
<1>2. CASE p < q
  BY <1>1, <1>2, Below
<1>3. CASE q < p
  <2>1. q * s + s <= p * s
    BY <1>3, Below
  <2> QED BY <1>1, <2>1
<1> QED BY <1>2, <1>3

(* and every element in one. *)
LEMMA SegmentOf ==
  ASSUME NEW n \in Nat, NEW s \in Nat, NEW i \in 0..(n * s - 1)
  PROVE  \E p \in 0..(n - 1), k \in 0..(s - 1) : i = p * s + k
<1>1. s > 0
  OBVIOUS
<1>2. /\ i \div s \in Int /\ i % s \in 0..(s - 1) /\ i = s * (i \div s) + (i % s)
  BY <1>1
<1>3. i \div s >= 0
  BY <1>1
<1>4. i \div s <= n - 1
  <2>1. SUFFICES ASSUME i \div s >= n PROVE FALSE
    BY <1>2
  <2>2. s * (i \div s) >= n * s
    BY <2>1, <1>1, <1>2
  <2> QED BY <2>2, <1>2
<1>5. i \div s \in 0..(n - 1)
  BY <1>2, <1>3, <1>4
<1>6. i = (i \div s) * s + (i % s)
  BY <1>2
<1> QED BY <1>2, <1>5, <1>6

LEMMA SegmentIs ==
  ASSUME NEW s \in Nat, NEW p \in Nat, NEW k \in 0..(s - 1)
  PROVE  (p * s + k) \div s = p
<1> DEFINE n == p * s + k
<1>1. n \in Nat /\ s > 0 /\ p * s \in Nat
  OBVIOUS
<1>2. /\ n \div s \in Int /\ n % s \in 0..(s - 1) /\ n = s * (n \div s) + (n % s)
      /\ n \div s >= 0
  BY <1>1
<1>3. n = (n \div s) * s + (n % s) /\ n \div s \in Nat
  BY <1>1, <1>2
<1> QED BY <1>2, <1>3, SegmentsApart

LEMMA CaseSizes ==
  ASSUME this \in Cases
  PROVE  /\ this.bench \in Benches
         /\ this.size \in Nat /\ this.size > 0 /\ this.size < Wrap /\ Wrap \in Nat
         /\ this.n_threads \in Nat /\ this.n_threads > 0
         /\ this.n_threads <= MaxThreads /\ MaxThreads \in Nat
         /\ segment_size \in Nat /\ segment_size > 0
         /\ this.n_threads * segment_size <= this.size
         /\ this.size % this.n_threads = 0 =>
              this.n_threads * segment_size = this.size
         /\ this.bench # "IO" => this.size % this.n_threads = 0
         /\ window_size \in 1..segment_size
         /\ Keys \subseteq Int /\ None \notin Nat
<1>1. /\ this \in [bench : {"FileInMem", "ColumnStore", "ColumnStoreBW", "InMemory", "IO"},
                   size : Nat \ {0}, n_threads : 1..MaxThreads, CHUNK_SIZE : Nat]
      /\ this.n_threads <= this.size /\ this.size < Wrap
      /\ this.bench # "IO" => this.size % this.n_threads = 0
      /\ MaxThreads \in Nat /\ Wrap \in Nat
      /\ Keys \subseteq Int /\ None \notin Nat
  BY RawAssumption
<1>2. /\ this.bench \in Benches
      /\ this.size \in Nat /\ this.size > 0
      /\ this.n_threads \in Nat /\ this.n_threads > 0
      /\ this.n_threads <= MaxThreads
      /\ this.CHUNK_SIZE \in Nat
  BY <1>1 DEF Benches
<1> DEFINE a == this.size
           n == this.n_threads
           q == a \div n
           m == a % n
<1>3. a \in Nat /\ n \in Nat /\ n > 0 /\ n <= a
  BY <1>1, <1>2
<1> HIDE DEF a, n
<1>4. /\ q \in Int /\ m \in 0..(n - 1) /\ a = n * q + m
  BY <1>3
<1>5. q >= 0 /\ q # 0
  BY <1>3, <1>4
<1>6. /\ q \in Nat /\ q > 0 /\ n * q <= a /\ (m = 0 => n * q = a)
  <2>1. q \in Nat /\ n * q \in Nat
    BY <1>3, <1>4, <1>5
  <2> QED BY <1>3, <1>4, <1>5, <2>1
<1>7. segment_size = q
  BY DEF segment_size, a, n
<1>8. window_size \in 1..segment_size
  BY <1>2, <1>6, <1>7 DEF window_size
<1> QED BY <1>1, <1>2, <1>6, <1>7, <1>8 DEF a, n

-----------------------------------------------------------------------------
(* Tasks. *)

LEMMA TaskIs ==
  ASSUME this \in Cases, NEW t \in Tasks
  PROVE  /\ t.slot \in Nat /\ t.phase \in {"first", "second"}
         /\ t = [phase |-> t.phase, slot |-> t.slot]
BY CaseSizes DEF Tasks

LEMMA JobIs ==
  ASSUME this \in Cases, NEW t \in Tasks
  PROVE  /\ Job(t) = "load" =>
              \/ this.bench = "ColumnStoreBW"
              \/ this.bench \in {"FileInMem", "ColumnStore"} /\ t.phase = "first"
         /\ Job(t) = "store" => this.bench = "FileInMem" /\ t.phase = "second"
         /\ Job(t) = "read" => this.bench = "IO" /\ t.phase = "first"
         /\ Job(t) = "random_write" =>
              this.bench = "ColumnStore" /\ t.phase = "second"
         /\ Job(t) = "write" => this.bench = "IO" /\ t.phase = "second"
<1>1. this.bench \in {"FileInMem", "ColumnStore", "ColumnStoreBW", "InMemory", "IO"}
  BY CaseSizes DEF Benches
<1>2. t.phase \in {"first", "second"}
  BY TaskIs
<1>3. Job(t) = Jobs[this.bench][t.phase]
  BY DEF Job
<1>4. /\ Jobs["FileInMem"]["first"] = "load" /\ Jobs["FileInMem"]["second"] = "store"
      /\ Jobs["ColumnStore"]["first"] = "load"
      /\ Jobs["ColumnStore"]["second"] = "random_write"
      /\ Jobs["ColumnStoreBW"]["first"] = "load"
      /\ Jobs["ColumnStoreBW"]["second"] = "load"
      /\ Jobs["InMemory"]["first"] = "none" /\ Jobs["InMemory"]["second"] = "none"
      /\ Jobs["IO"]["first"] = "read" /\ Jobs["IO"]["second"] = "write"
  BY DEF Jobs
<1> QED BY <1>1, <1>2, <1>3, <1>4

(* The places of a task of the phase are rows, and no other task's. *)
LEMMA PlaceIs ==
  ASSUME this \in Cases, NEW t \in Tasks, t.slot < this.n_threads,
         NEW k \in 0..(segment_size - 1)
  PROVE  /\ segment_from(t) \in Nat /\ segment_from(t) = t.slot * segment_size
         /\ t.slot \in 0..(this.n_threads - 1)
         /\ segment_from(t) + k \in Rows /\ segment_from(t) + k \in Disk
         /\ segment_from(t) + k \in Nat
<1>1. /\ t.slot \in Nat /\ this.n_threads \in Nat /\ segment_size \in Nat
      /\ this.size \in Nat /\ this.n_threads * segment_size <= this.size
  BY CaseSizes, TaskIs
<1>2. t.slot \in 0..(this.n_threads - 1)
  BY <1>1
<1>3. t.slot * segment_size + k \in 0..(this.n_threads * segment_size - 1)
  BY <1>1, <1>2, InSegments
<1>4. t.slot * segment_size \in Nat /\ this.n_threads * segment_size \in Nat
  BY <1>1
<1>5. t.slot * segment_size + k \in 0..(this.size - 1)
  BY <1>1, <1>3, <1>4
<1>6. t.slot * segment_size + k \in 0..(2 * this.size - 1)
  BY <1>1, <1>5
<1> QED BY <1>2, <1>4, <1>5, <1>6 DEF segment_from, Rows, Disk

LEMMA PlacesApart ==
  ASSUME this \in Cases, NEW t \in Tasks, NEW u \in Tasks, t # u,
         t.phase = u.phase, t.slot < this.n_threads, u.slot < this.n_threads,
         NEW k \in 0..(segment_size - 1), NEW l \in 0..(segment_size - 1)
  PROVE  segment_from(t) + k # segment_from(u) + l
<1>1. t.slot # u.slot /\ t.slot \in Nat /\ u.slot \in Nat
  BY TaskIs
<1>2. segment_size \in Nat
  BY CaseSizes
<1> QED BY <1>1, <1>2, SegmentsApart DEF segment_from

(* Where the threads divide the file, every row is some task's. *)
LEMMA RowOf ==
  ASSUME this \in Cases, this.n_threads * segment_size = this.size, NEW i \in Rows,
         NEW phase \in {"first", "second"}
  PROVE  \E t \in Tasks, k \in 0..(segment_size - 1) :
           /\ t.phase = phase /\ t.slot \in 0..(this.n_threads - 1)
           /\ t = [phase |-> phase, slot |-> t.slot]
           /\ i = segment_from(t) + k
<1>1. /\ this.n_threads \in Nat /\ segment_size \in Nat /\ this.size \in Nat
      /\ this.n_threads <= MaxThreads /\ MaxThreads \in Nat
  BY CaseSizes
<1>2. i \in 0..(this.n_threads * segment_size - 1)
  BY <1>1 DEF Rows
<1>3. PICK s \in 0..(this.n_threads - 1), k \in 0..(segment_size - 1) :
        i = s * segment_size + k
  BY <1>1, <1>2, SegmentOf
<1> DEFINE t == [phase |-> phase, slot |-> s]
<1>4. t \in Tasks
  <2>1. s \in 0..(MaxThreads - 1)
    BY <1>1
  <2> QED BY <2>1 DEF Tasks
<1>5. i = segment_from(t) + k
  BY <1>3 DEF segment_from
<1> QED BY <1>4, <1>5

-----------------------------------------------------------------------------
(* The pool. *)

LEMMA SubmitKnown ==
  ASSUME pending \in Seq(Tasks), NEW t \in Tasks, Pool!Submit(t)
  PROVE  /\ pending' \in Seq(Tasks)
         /\ Pool!Elements(pending') = Pool!Elements(pending) \cup {t}
         /\ Pool!Known' = Pool!Known \cup {t}
         /\ client = "open" /\ UNCHANGED <<executing, done, client>>
<1>1. /\ pending' = Append(pending, t) /\ client = "open"
      /\ UNCHANGED <<executing, done, client>>
  BY DEF Pool!Submit
<1>2. pending' \in Seq(Tasks)
  BY <1>1
<1>3. /\ Len(pending') = Len(pending) + 1 /\ Len(pending) \in Nat
      /\ \A i \in 1..Len(pending) : pending'[i] = pending[i]
      /\ pending'[Len(pending) + 1] = t
  BY <1>1
<1>4. Pool!Elements(pending') = Pool!Elements(pending) \cup {t}
  <2>1. ASSUME NEW i \in 1..Len(pending')
        PROVE  pending'[i] \in Pool!Elements(pending) \cup {t}
    <3>1. i \in 1..Len(pending) \/ i = Len(pending) + 1
      BY <1>3
    <3> QED BY <1>3, <3>1 DEF Pool!Elements
  <2>2. ASSUME NEW i \in 1..Len(pending)
        PROVE  pending[i] \in Pool!Elements(pending')
    <3>1. i \in 1..Len(pending') /\ pending'[i] = pending[i]
      BY <1>3
    <3> QED BY <3>1 DEF Pool!Elements
  <2>3. t \in Pool!Elements(pending')
    <3>1. Len(pending) + 1 \in 1..Len(pending')
      BY <1>3
    <3> QED BY <1>3, <3>1 DEF Pool!Elements
  <2> QED BY <2>1, <2>2, <2>3 DEF Pool!Elements
<1> QED BY <1>1, <1>2, <1>4 DEF Pool!Known

LEMMA StartKnown ==
  ASSUME pending \in Seq(Tasks), executing \subseteq Tasks, Pool!Start
  PROVE  /\ pending' \in Seq(Tasks) /\ executing' \subseteq Tasks
         /\ Pool!Elements(pending') \cup executing'
              = Pool!Elements(pending) \cup executing
         /\ Pool!Known' = Pool!Known
         /\ ~Pool!Quiet /\ UNCHANGED <<done, client>>
<1>1. /\ pending # <<>> /\ pending' = Tail(pending)
      /\ executing' = executing \cup {Head(pending)}
      /\ UNCHANGED <<done, client>>
  BY DEF Pool!Start
<1>2. /\ pending' \in Seq(Tasks) /\ Head(pending) = pending[1] /\ Head(pending) \in Tasks
      /\ Len(pending) \in Nat /\ Len(pending) > 0
      /\ Len(pending') = Len(pending) - 1
      /\ \A i \in 1..Len(pending') : pending'[i] = pending[i + 1]
  BY <1>1
<1>3. Pool!Elements(pending) = Pool!Elements(pending') \cup {Head(pending)}
  <2>1. ASSUME NEW i \in 1..Len(pending')
        PROVE  pending'[i] \in Pool!Elements(pending)
    <3>1. i + 1 \in 1..Len(pending) /\ pending'[i] = pending[i + 1]
      BY <1>2
    <3> QED BY <3>1 DEF Pool!Elements
  <2>2. ASSUME NEW i \in 1..Len(pending)
        PROVE  pending[i] \in Pool!Elements(pending') \cup {Head(pending)}
    <3>1. CASE i = 1
      BY <1>2, <3>1
    <3>2. CASE i # 1
      <4>1. i - 1 \in 1..Len(pending') /\ (i - 1) + 1 = i
        BY <1>2, <3>2
      <4>2. pending'[i - 1] = pending[i]
        BY <1>2, <4>1
      <4> QED BY <4>1, <4>2 DEF Pool!Elements
    <3> QED BY <3>1, <3>2
  <2>3. Head(pending) \in Pool!Elements(pending)
    <3>1. 1 \in 1..Len(pending)
      BY <1>2
    <3> QED BY <1>2, <3>1 DEF Pool!Elements
  <2> QED BY <2>1, <2>2, <2>3 DEF Pool!Elements
<1>4. Pool!Elements(pending') \cup executing' = Pool!Elements(pending) \cup executing
  BY <1>1, <1>3
<1> QED BY <1>1, <1>2, <1>4 DEF Pool!Known, Pool!Quiet

LEMMA QuietEmpty ==
  ASSUME Pool!Quiet
  PROVE  Pool!Elements(pending) = {} /\ executing = {} /\ Pool!Known = done
<1>1. pending = <<>> /\ executing = {}
  BY DEF Pool!Quiet
<1>2. Len(pending) = 0
  BY <1>1
<1>3. Pool!Elements(pending) = {}
  BY <1>2 DEF Pool!Elements
<1> QED BY <1>1, <1>3 DEF Pool!Known

-----------------------------------------------------------------------------
(* Steps that leave the data alone. *)

LEMMA RawInit == ASSUME WInit PROVE RawInv
<1>1. this \in Cases
  BY DEF WInit
<1>2. /\ this.bench \in Benches /\ this.size \in Nat /\ this.size > 0
      /\ this.n_threads \in Nat /\ segment_size \in Nat /\ segment_size > 0
  BY <1>1, CaseSizes
<1>3. /\ main_pc = IF this.bench = "InMemory" THEN "sort" ELSE "first"
      /\ added = 0 /\ bytes_written = 0 /\ troubles = {}
      /\ tuples = [i \in Rows |-> IF this.bench = "InMemory" THEN i ELSE None]
      /\ tuples_by_row = [i \in Rows |-> 0]
      /\ output = [i \in Disk |-> None]
      /\ progress = [t \in Tasks |-> 0]
      /\ input \in [Rows -> Keys]
      /\ pending = <<>> /\ executing = {} /\ done = {} /\ client = "open"
  BY DEF WInit, Pool!XInit
<1>4. Stages
  BY <1>2, <1>3 DEF Stages, Benches
<1>5. RawTypes
  <2>1. 0 \in Rows
    BY <1>2 DEF Rows
  <2> QED BY <1>1, <1>3, <2>1 DEF RawTypes
<1>6. RawPhases
  <2>1. Pool!Quiet
    BY <1>3 DEF Pool!Quiet
  <2>2. \A t \in Tasks : progress[t] = 0
    BY <1>3
  <2>3. \A i \in 0..(added - 1) : FALSE
    BY <1>3
  <2> QED BY <1>3, <2>1, <2>2, <2>3, QuietEmpty DEF RawPhases
<1>7. MemoryWritten
  <2>1. this.bench = "InMemory" => InFileOrder
    BY <1>3 DEF InFileOrder
  <2>2. \A i \in 0..(bytes_written - 1) : FALSE
    BY <1>3
  <2> QED BY <1>2, <1>3, <2>1, <2>2 DEF MemoryWritten
<1>8. FileCopied
  <2>1. ASSUME this.bench = "IO"
        PROVE  (\A i \in Rows : tuples[i] \in {None, i}) /\ (\A i \in Disk : output[i] = None)
    BY <1>3, <2>1
  <2>2. \A t \in Tasks : ReadUpTo(t)
    BY <1>3 DEF ReadUpTo
  <2> QED BY <1>3, <2>1, <2>2 DEF FileCopied
<1>9. StoreLoaded
  <2>1. ASSUME NEW t \in Tasks PROVE LoadedUpTo(t)
    <3>1. progress[t] = 0
      BY <1>3
    <3> QED BY <1>2, <3>1 DEF LoadedUpTo
  <2> QED BY <1>3, <2>1 DEF StoreLoaded
<1>10. StoreWritten
  BY <1>3 DEF StoreWritten
<1>11. FileStored
  BY <1>3 DEF FileStored
<1> QED BY <1>4, <1>5, <1>6, <1>7, <1>8, <1>9, <1>10, <1>11 DEF RawInv, RawContents

LEMMA DataSame ==
  ASSUME Stages, RawContents, UNCHANGED <<this, input, main_pc, data, progress, writes>>
  PROVE  Stages' /\ RawContents'
<1>1. /\ this' = this /\ input' = input /\ main_pc' = main_pc
      /\ tuples' = tuples /\ tuples_by_row' = tuples_by_row /\ output' = output
      /\ progress' = progress /\ bytes_written' = bytes_written
      /\ troubles' = troubles
  BY DEF data, writes
<1>2. Rows' = Rows /\ Disk' = Disk /\ segment_size' = segment_size
  BY <1>1 DEF Rows, Disk, segment_size
<1>3. /\ window_size' = window_size
      /\ \A t : segment_from(t)' = segment_from(t)
  BY <1>1, <1>2 DEF window_size, segment_from
<1>4. /\ OneWindow' = OneWindow /\ InFileOrder' = InFileOrder
      /\ InKeyOrder' = InKeyOrder
      /\ \A t : LoadedUpTo(t)' = LoadedUpTo(t) /\ ReadUpTo(t)' = ReadUpTo(t)
      /\ \A t : StoredUpTo(t)' = StoredUpTo(t)
  BY <1>1, <1>2, <1>3 DEF OneWindow, InFileOrder, InKeyOrder, LoadedUpTo, ReadUpTo,
     StoredUpTo, Permuted, Sorted
<1>5. Stages'
  BY <1>1 DEF Stages
<1>6. MemoryWritten'
  BY <1>1, <1>4 DEF MemoryWritten, RawContents
<1>7. FileCopied'
  BY <1>1, <1>2, <1>3, <1>4 DEF FileCopied, RawContents
<1>8. StoreLoaded'
  BY <1>1, <1>4 DEF StoreLoaded, RawContents
<1>9. StoreWritten'
  BY <1>1, <1>2, <1>4 DEF StoreWritten, RawContents
<1>10. FileStored'
  BY <1>1, <1>2, <1>4 DEF FileStored, RawContents
<1> QED BY <1>5, <1>6, <1>7, <1>8, <1>9, <1>10 DEF RawContents

LEMMA TypesSame ==
  ASSUME RawTypes, UNCHANGED <<this, input, data, progress, writes>>, added' \in Nat,
         pending' \in Seq(Tasks), executing' \subseteq Tasks, done' \subseteq Tasks
  PROVE  RawTypes'
<1>1. /\ this' = this /\ input' = input
      /\ tuples' = tuples /\ tuples_by_row' = tuples_by_row /\ output' = output
      /\ progress' = progress /\ bytes_written' = bytes_written
  BY DEF data, writes
<1>2. Rows' = Rows /\ Disk' = Disk
  BY <1>1 DEF Rows, Disk
<1> QED BY <1>1, <1>2 DEF RawTypes

LEMMA AddStep == ASSUME RawInv, AddTask PROVE RawInv'
<1> DEFINE t == PhaseTask(added)
<1>1. /\ Stages /\ RawTypes /\ RawPhases /\ RawContents
      /\ main_pc \in {"first", "second"} /\ added < this.n_threads
      /\ Pool!Submit(t) /\ added' = added + 1
      /\ UNCHANGED <<this, input, main_pc, data, progress, writes>>
      /\ this' = this /\ main_pc' = main_pc /\ progress' = progress
      /\ added \in Nat /\ pending \in Seq(Tasks) /\ this \in Cases
  BY DEF RawInv, RawTypes, AddTask, PhaseTask
<1>2. this.n_threads \in Nat /\ this.n_threads <= MaxThreads /\ MaxThreads \in Nat
  BY <1>1, CaseSizes
<1>3. t \in Tasks /\ InPhase(t)
  <2>1. added \in 0..(MaxThreads - 1)
    BY <1>1, <1>2
  <2> QED BY <1>1, <2>1 DEF Tasks, InPhase, PhaseTask
<1> HIDE DEF t
<1>4. /\ pending' \in Seq(Tasks)
      /\ Pool!Elements(pending') = Pool!Elements(pending) \cup {t}
      /\ Pool!Known' = Pool!Known \cup {t}
      /\ client = "open" /\ UNCHANGED <<executing, done, client>>
  BY <1>1, <1>3, SubmitKnown
<1>5. RawTypes'
  BY <1>1, <1>4, TypesSame DEF RawTypes
<1>6. Stages' /\ RawContents'
  BY <1>1, DataSame
<1>7. RawPhases'
  <2>1. (\A u : InPhase(u)' = InPhase(u)) /\ (\A i : PhaseTask(i)' = PhaseTask(i))
    BY <1>1 DEF InPhase, PhaseTask
  <2>2. \A u \in (Pool!Elements(pending) \cup executing)' : InPhase(u)'
    BY <1>1, <1>3, <1>4, <2>1 DEF RawPhases
  <2>3. ASSUME NEW i \in 0..(added' - 1), i < this.n_threads
        PROVE  PhaseTask(i)' \in Pool!Known'
    <3>1. CASE i = added
      BY <1>4, <2>1, <3>1 DEF t
    <3>2. CASE i # added
      <4>1. i \in 0..(added - 1)
        BY <1>1, <3>2
      <4> QED BY <1>1, <1>4, <2>1, <2>3, <4>1 DEF RawPhases
    <3> QED BY <3>1, <3>2
  <2>4. segment_size' = segment_size
    BY <1>1 DEF segment_size
  <2> QED BY <1>1, <1>4, <2>2, <2>3, <2>4 DEF RawPhases
<1> QED BY <1>5, <1>6, <1>7 DEF RawInv

(* The pool knows the same tasks, and no more of them are done. *)
LEMMA PhasesSame ==
  ASSUME RawPhases, this' = this, main_pc' = main_pc, progress' = progress, added' = added,
         \A t \in (Pool!Elements(pending) \cup executing)' :
            t \in Pool!Elements(pending) \cup executing,
         Pool!Quiet => Pool!Quiet', Pool!Known' = Pool!Known,
         main_pc \in {"sort", "rearrange"} => client' = client,
         main_pc \in {"first", "second"} /\ client' = "waiting" => added = this.n_threads,
         \A t \in done' : t \in done \/ progress[t] >= segment_size
  PROVE  RawPhases'
<1>1. /\ \A t : InPhase(t)' = InPhase(t)
      /\ \A i : PhaseTask(i)' = PhaseTask(i)
      /\ segment_size' = segment_size
  BY DEF InPhase, PhaseTask, segment_size
<1>2. \A t \in (Pool!Elements(pending) \cup executing)' : InPhase(t)'
  BY <1>1 DEF RawPhases
<1>3. main_pc \in {"first", "second"} =>
        \A i \in 0..(added' - 1) : i < this.n_threads => PhaseTask(i)' \in Pool!Known'
  BY <1>1 DEF RawPhases
<1>4. \A t \in done' : progress'[t] >= segment_size'
  BY <1>1 DEF RawPhases
<1> QED BY <1>2, <1>3, <1>4 DEF RawPhases

LEMMA WaitStep == ASSUME RawInv, WaitAll PROVE RawInv'
<1>1. /\ Stages /\ RawTypes /\ RawPhases /\ RawContents
      /\ added = this.n_threads /\ added' = added /\ main_pc \in {"first", "second"}
      /\ UNCHANGED <<this, input, main_pc, data, progress, writes>>
      /\ UNCHANGED <<pending, executing, done>>
      /\ this' = this /\ main_pc' = main_pc /\ progress' = progress
  BY DEF RawInv, WaitAll, main, Pool!Wait
<1>2. RawTypes'
  BY <1>1, TypesSame DEF RawTypes
<1>3. /\ Pool!Elements(pending)' = Pool!Elements(pending) /\ executing' = executing
      /\ done' = done /\ Pool!Known' = Pool!Known /\ Pool!Quiet' = Pool!Quiet
  BY <1>1 DEF Pool!Elements, Pool!Known, Pool!Quiet
<1>4. RawPhases'
  BY <1>1, <1>3, PhasesSame
<1> QED BY <1>1, <1>2, <1>4, DataSame DEF RawInv

LEMMA StartStep == ASSUME RawInv, StartTask PROVE RawInv'
<1>1. /\ Stages /\ RawTypes /\ RawPhases /\ RawContents
      /\ Pool!Start /\ added' = added
      /\ UNCHANGED <<this, input, main_pc, data, progress, writes>>
      /\ this' = this /\ main_pc' = main_pc /\ progress' = progress
      /\ pending \in Seq(Tasks) /\ executing \subseteq Tasks
  BY DEF RawInv, RawTypes, StartTask, main
<1>2. /\ pending' \in Seq(Tasks) /\ executing' \subseteq Tasks
      /\ Pool!Elements(pending') \cup executing'
           = Pool!Elements(pending) \cup executing
      /\ Pool!Known' = Pool!Known
      /\ ~Pool!Quiet /\ done' = done /\ client' = client
  BY <1>1, StartKnown
<1>3. RawTypes'
  BY <1>1, <1>2, TypesSame DEF RawTypes
<1>4. main_pc \in {"first", "second"} /\ client' = "waiting" => added = this.n_threads
  BY <1>1, <1>2 DEF RawPhases
<1>5. RawPhases'
  BY <1>1, <1>2, <1>4, PhasesSame
<1> QED BY <1>1, <1>3, <1>5, DataSame DEF RawInv

LEMMA FinishStep == ASSUME RawInv, NEW t \in Tasks, FinishTask(t) PROVE RawInv'
<1>1. /\ Stages /\ RawTypes /\ RawPhases /\ RawContents
      /\ progress[t] >= segment_size /\ t \in executing
      /\ executing' = executing \ {t} /\ done' = done \cup {t}
      /\ pending' = pending /\ client' = client /\ added' = added
      /\ UNCHANGED <<this, input, main_pc, data, progress, writes>>
      /\ this' = this /\ main_pc' = main_pc /\ progress' = progress
  BY DEF RawInv, FinishTask, main, Pool!Finish
<1>2. RawTypes'
  BY <1>1, TypesSame DEF RawTypes
<1>3. /\ Pool!Elements(pending)' = Pool!Elements(pending)
      /\ Pool!Known' = Pool!Known /\ ~Pool!Quiet
  BY <1>1 DEF Pool!Elements, Pool!Known, Pool!Quiet
<1>4. main_pc \in {"first", "second"} /\ client' = "waiting" => added = this.n_threads
  BY <1>1 DEF RawPhases
<1>5. RawPhases'
  BY <1>1, <1>3, <1>4, PhasesSame
<1> QED BY <1>1, <1>2, <1>5, DataSame DEF RawInv

LEMMA RawStutter == ASSUME RawInv, UNCHANGED writeVars PROVE RawInv'
<1>1. /\ Stages /\ RawTypes /\ RawPhases /\ RawContents
      /\ UNCHANGED <<this, input, main_pc, data, progress, writes>>
      /\ UNCHANGED <<pending, executing, done>> /\ client' = client
      /\ this' = this /\ main_pc' = main_pc /\ progress' = progress /\ added' = added
  BY DEF RawInv, writeVars, main, pool
<1>2. RawTypes'
  BY <1>1, TypesSame DEF RawTypes
<1>3. /\ Pool!Elements(pending)' = Pool!Elements(pending) /\ executing' = executing
      /\ done' = done /\ Pool!Known' = Pool!Known /\ Pool!Quiet' = Pool!Quiet
  BY <1>1 DEF Pool!Elements, Pool!Known, Pool!Quiet
<1>4. main_pc \in {"first", "second"} /\ client' = "waiting" => added = this.n_threads
  BY <1>1 DEF RawPhases
<1>5. RawPhases'
  BY <1>1, <1>3, <1>4, PhasesSame
<1> QED BY <1>1, <1>2, <1>5, DataSame DEF RawInv

-----------------------------------------------------------------------------
(* Steps of the tasks. *)

LEMMA WorksIs ==
  ASSUME RawInv, NEW t \in Tasks, NEW job, Works(t, job)
  PROVE  /\ t \in executing /\ ~Pool!Quiet /\ t.slot < this.n_threads
         /\ progress[t] \in Nat /\ progress[t] < segment_size /\ t \notin done
         /\ main_pc \in {"first", "second", "exit"}
         /\ main_pc = "exit" => this.bench # "ColumnStoreBW"
         /\ main_pc # "exit" => t.phase = main_pc
         /\ Job(t) = job
         /\ UNCHANGED <<this, input, added, tuples_by_row, bytes_written,
                        pending, executing, done, client>>
         /\ this \in Cases
<1>1. /\ t \in executing /\ progress[t] < segment_size /\ Job(t) = job
      /\ UNCHANGED <<this, input, added, tuples_by_row, bytes_written,
                     pending, executing, done, client>>
  BY DEF Works, pool
<1>2. RawPhases /\ Stages /\ this \in Cases /\ progress \in [Tasks -> Nat]
  BY DEF RawInv, RawTypes
<1>3. ~Pool!Quiet
  BY <1>1 DEF Pool!Quiet
<1>4. InPhase(t)
  BY <1>1, <1>2 DEF RawPhases
<1>5. /\ main_pc \notin {"sort", "rearrange", "write", "done"}
      /\ main_pc = "exit" => this.bench # "ColumnStoreBW"
  BY <1>2, <1>3 DEF RawPhases
<1>6. main_pc \in {"first", "second", "exit"}
  BY <1>2, <1>5 DEF Stages
<1>7. progress[t] \in Nat /\ segment_size \in Nat
  BY <1>2, CaseSizes
<1>8. t \notin done
  BY <1>1, <1>2, <1>7 DEF RawPhases
<1> QED BY <1>1, <1>2, <1>3, <1>4, <1>5, <1>6, <1>7, <1>8 DEF InPhase

(* Whatever a task takes, the stages, types and phases stay right. *)
LEMMA WorksStep ==
  ASSUME RawInv, NEW t \in Tasks, NEW job, Works(t, job), NEW v \in Nat,
         progress' = [progress EXCEPT ![t] = v],
         tuples' \in [Rows -> Rows \cup {None}],
         output' \in [Disk -> Rows \cup {None}],
         main_pc' = main_pc \/ (main_pc' = "exit" /\ this.bench = "ColumnStore")
  PROVE  Stages' /\ RawTypes' /\ RawPhases'
<1>1. /\ Stages /\ RawTypes /\ RawPhases
      /\ t \in executing /\ ~Pool!Quiet /\ t \notin done
      /\ main_pc \in {"first", "second", "exit"}
      /\ main_pc = "exit" => this.bench # "ColumnStoreBW"
      /\ main_pc # "exit" => t.phase = main_pc
      /\ this' = this /\ input' = input /\ added' = added
      /\ tuples_by_row' = tuples_by_row /\ bytes_written' = bytes_written
      /\ pending' = pending /\ executing' = executing /\ done' = done
      /\ client' = client
      /\ progress \in [Tasks -> Nat]
  BY WorksIs DEF RawInv, RawTypes
<1>2. Stages'
  BY <1>1 DEF Stages
<1>3. Rows' = Rows /\ Disk' = Disk /\ segment_size' = segment_size
  BY <1>1 DEF Rows, Disk, segment_size
<1>4. RawTypes'
  <2>1. progress' \in [Tasks -> Nat]
    BY <1>1
  <2> QED BY <1>1, <1>3, <2>1 DEF RawTypes
<1>5. /\ Pool!Elements(pending)' = Pool!Elements(pending)
      /\ Pool!Known' = Pool!Known /\ Pool!Quiet' = Pool!Quiet
  BY <1>1 DEF Pool!Elements, Pool!Known, Pool!Quiet
<1>6. /\ \A u : main_pc' = main_pc => InPhase(u)' = InPhase(u)
      /\ \A u : main_pc' = "exit" /\ InPhase(u) => InPhase(u)'
      /\ \A i : main_pc' = main_pc => PhaseTask(i)' = PhaseTask(i)
  BY <1>1 DEF InPhase, PhaseTask
<1>7. \A u \in (Pool!Elements(pending) \cup executing)' : InPhase(u)'
  BY <1>1, <1>5, <1>6 DEF RawPhases
<1>8. \A u \in done' : progress'[u] >= segment_size'
  BY <1>1, <1>3 DEF RawPhases, RawTypes
<1>9. main_pc' \in {"first", "sort", "rearrange"} =>
        \A u \in Tasks : u.phase = "second" => progress'[u] = 0
  BY <1>1 DEF RawPhases
<1>10. main_pc' \in {"first", "second"} =>
         /\ client' = "waiting" => added' = this'.n_threads
         /\ \A i \in 0..(added' - 1) : i < this'.n_threads => PhaseTask(i)' \in Pool!Known'
  BY <1>1, <1>5, <1>6 DEF RawPhases
<1>11. ~(\/ main_pc' \in {"sort", "rearrange", "write", "done"}
         \/ main_pc' = "exit" /\ this'.bench = "ColumnStoreBW")
  BY <1>1
<1>12. RawPhases'
  BY <1>7, <1>8, <1>9, <1>10, <1>11 DEF RawPhases
<1> QED BY <1>2, <1>4, <1>12

LEMMA LoadStep == ASSUME RawInv, NEW t \in Tasks, LoadTuple(t) PROVE RawInv'
<1> DEFINE offset == segment_from(t) + progress[t]
<1>1. /\ Works(t, "load")
      /\ tuples' = [tuples EXCEPT ![offset] = offset]
      /\ progress' = [progress EXCEPT ![t] = progress[t] + 1]
      /\ main_pc' = main_pc /\ output' = output /\ troubles' = troubles
  BY DEF LoadTuple, Took
<1>2. /\ progress[t] \in Nat /\ progress[t] < segment_size /\ t.slot < this.n_threads
      /\ main_pc \in {"first", "second", "exit"}
      /\ main_pc = "exit" => this.bench # "ColumnStoreBW"
      /\ main_pc # "exit" => t.phase = main_pc
      /\ Job(t) = "load" /\ this \in Cases
      /\ this' = this /\ input' = input /\ tuples_by_row' = tuples_by_row
  BY <1>1, WorksIs
<1>3. /\ RawContents /\ RawTypes
      /\ tuples \in [Rows -> Rows \cup {None}] /\ output \in [Disk -> Rows \cup {None}]
      /\ progress \in [Tasks -> Nat]
  BY DEF RawInv, RawTypes
<1>4. segment_size \in Nat
  BY <1>2, CaseSizes
<1>5. progress[t] \in 0..(segment_size - 1)
  BY <1>2, <1>4
<1>6. offset \in Rows
  BY <1>2, <1>5, PlaceIs
<1>7. \/ this.bench = "ColumnStoreBW"
      \/ this.bench \in {"FileInMem", "ColumnStore"} /\ t.phase = "first"
  BY <1>2, JobIs
<1>8. Stages' /\ RawTypes' /\ RawPhases'
  <2>1. tuples' \in [Rows -> Rows \cup {None}]
    BY <1>1, <1>3, <1>6
  <2>2. progress[t] + 1 \in Nat
    BY <1>2
  <2> QED BY <1>1, <1>3, <2>1, <2>2, WorksStep
<1>9. /\ Rows' = Rows /\ segment_size' = segment_size
      /\ \A u : segment_from(u)' = segment_from(u)
  BY <1>2 DEF Rows, segment_size, segment_from
<1>10. MemoryWritten' /\ FileCopied'
  BY <1>2, <1>7 DEF MemoryWritten, FileCopied
<1>11. StoreWritten' /\ FileStored'
  BY <1>1, <1>2, <1>7 DEF StoreWritten, FileStored
<1>12. StoreLoaded'
  <2>1. ASSUME main_pc = "first", NEW u \in Tasks, u.phase = "first",
               u.slot < this.n_threads
        PROVE  LoadedUpTo(u)'
    <3>1. SUFFICES ASSUME NEW k \in 0..(segment_size - 1), k < progress'[u]
                   PROVE  tuples'[segment_from(u) + k] = segment_from(u) + k
      BY <1>9 DEF LoadedUpTo
    <3>2. LoadedUpTo(u)
      BY <1>3, <1>7, <2>1 DEF RawContents, StoreLoaded
    <3>3. segment_from(u) + k \in Rows
      BY <1>2, <2>1, PlaceIs
    <3>4. CASE u # t
      <4>1. segment_from(u) + k # offset
        BY <1>2, <1>5, <2>1, <3>4, PlacesApart
      <4>2. k < progress[u]
        BY <1>1, <1>3, <3>1, <3>4
      <4> QED BY <1>1, <1>3, <3>2, <3>3, <4>1, <4>2 DEF LoadedUpTo
    <3>5. CASE u = t /\ k = progress[t]
      BY <1>1, <1>3, <1>6, <3>5
    <3>6. CASE u = t /\ k # progress[t]
      <4>1. k < progress[t]
        BY <1>1, <1>2, <1>3, <3>1, <3>6
      <4>2. tuples[segment_from(u) + k] = segment_from(u) + k
        BY <3>2, <3>6, <4>1 DEF LoadedUpTo
      <4> QED BY <1>1, <1>3, <3>3, <4>2
    <3> QED BY <3>4, <3>5, <3>6
  <2>2. ASSUME this.bench = "ColumnStoreBW", main_pc # "first" PROVE InFileOrder'
    <3>1. InFileOrder
      BY <1>3, <2>2 DEF RawContents, StoreLoaded
    <3> QED BY <1>1, <1>3, <1>6, <1>9, <3>1 DEF InFileOrder
  <2>3. this.bench \in {"FileInMem", "ColumnStore"} =>
          main_pc \notin {"sort", "rearrange", "second", "done"}
    BY <1>2, <1>7
  <2> QED BY <1>1, <1>2, <2>1, <2>2, <2>3 DEF StoreLoaded
<1> QED BY <1>8, <1>10, <1>11, <1>12 DEF RawInv, RawContents

LEMMA ReadStep == ASSUME RawInv, NEW t \in Tasks, ReadSegment(t) PROVE RawInv'
<1> DEFINE lo == segment_from(t)
<1>1. /\ Works(t, "read")
      /\ tuples' = [i \in Rows |->
                      IF i \in lo..(lo + window_size - 1) THEN i ELSE tuples[i]]
      /\ progress' = [progress EXCEPT ![t] = segment_size]
      /\ main_pc' = main_pc /\ output' = output /\ troubles' = troubles
  BY DEF ReadSegment, Took
<1>2. /\ progress[t] \in Nat /\ progress[t] < segment_size /\ t.slot < this.n_threads
      /\ main_pc \in {"first", "second", "exit"}
      /\ main_pc # "exit" => t.phase = main_pc
      /\ Job(t) = "read" /\ this \in Cases
      /\ this' = this /\ input' = input /\ tuples_by_row' = tuples_by_row
  BY <1>1, WorksIs
<1>3. /\ RawContents /\ RawTypes
      /\ tuples \in [Rows -> Rows \cup {None}] /\ output \in [Disk -> Rows \cup {None}]
      /\ progress \in [Tasks -> Nat]
  BY DEF RawInv, RawTypes
<1>4. segment_size \in Nat /\ window_size \in 1..segment_size
  BY <1>2, CaseSizes
<1>5. this.bench = "IO" /\ t.phase = "first"
  BY <1>2, JobIs
<1>6. Stages' /\ RawTypes' /\ RawPhases'
  <2>1. tuples' \in [Rows -> Rows \cup {None}]
    BY <1>1, <1>3
  <2> QED BY <1>1, <1>3, <1>4, <2>1, WorksStep
<1>7. /\ Rows' = Rows /\ Disk' = Disk /\ segment_size' = segment_size
      /\ window_size' = window_size
      /\ \A u : segment_from(u)' = segment_from(u)
  BY <1>2 DEF Rows, Disk, segment_size, window_size, segment_from
<1>8. MemoryWritten' /\ StoreLoaded' /\ StoreWritten' /\ FileStored'
  BY <1>2, <1>5 DEF MemoryWritten, StoreLoaded, StoreWritten, FileStored
<1>9. FileCopied
  BY <1>3 DEF RawContents
<1>10. FileCopied'
  <2>1. \A i \in Rows : tuples'[i] \in {None, i}
    BY <1>1, <1>5, <1>9 DEF FileCopied
  <2>2. ASSUME main_pc = "first", NEW u \in Tasks, u.phase = "first",
               u.slot < this.n_threads
        PROVE  ReadUpTo(u)'
    <3>1. SUFFICES ASSUME progress'[u] > 0, NEW k \in 0..(window_size - 1)
                   PROVE  tuples'[segment_from(u) + k] = segment_from(u) + k
      BY <1>7 DEF ReadUpTo
    <3>2. k \in 0..(segment_size - 1)
      BY <1>4
    <3>3. segment_from(u) + k \in Rows /\ segment_from(u) \in Nat
      BY <1>2, <2>2, <3>2, PlaceIs
    <3>4. CASE u = t
      <4>1. segment_from(u) + k \in lo..(lo + window_size - 1)
        BY <1>4, <3>3, <3>4
      <4> QED BY <1>1, <3>3, <4>1
    <3>5. CASE u # t
      <4>1. progress[u] > 0
        BY <1>1, <1>3, <3>1, <3>5
      <4>2. tuples[segment_from(u) + k] = segment_from(u) + k
        BY <1>5, <1>9, <2>2, <4>1 DEF FileCopied, ReadUpTo
      <4> QED BY <1>1, <3>3, <4>2
    <3> QED BY <3>4, <3>5
  <2>3. main_pc \in {"first", "exit"}
    BY <1>2, <1>5
  <2> QED BY <1>1, <1>2, <1>5, <1>7, <1>9, <2>1, <2>2, <2>3 DEF FileCopied
<1> QED BY <1>6, <1>8, <1>10 DEF RawInv, RawContents

LEMMA StoreStep == ASSUME RawInv, NEW t \in Tasks, StoreTuple(t) PROVE RawInv'
<1> DEFINE row == segment_from(t) + progress[t]
<1>1. /\ Works(t, "store")
      /\ output' = [output EXCEPT ![row] = tuples[row]]
      /\ progress' = [progress EXCEPT ![t] = progress[t] + 1]
      /\ main_pc' = main_pc /\ tuples' = tuples /\ troubles' = troubles
  BY DEF StoreTuple, Took
<1>2. /\ progress[t] \in Nat /\ progress[t] < segment_size /\ t.slot < this.n_threads
      /\ main_pc \in {"first", "second", "exit"}
      /\ main_pc # "exit" => t.phase = main_pc
      /\ Job(t) = "store" /\ this \in Cases
      /\ this' = this /\ input' = input /\ tuples_by_row' = tuples_by_row
  BY <1>1, WorksIs
<1>3. /\ RawContents /\ RawTypes /\ Stages
      /\ tuples \in [Rows -> Rows \cup {None}] /\ output \in [Disk -> Rows \cup {None}]
      /\ progress \in [Tasks -> Nat]
  BY DEF RawInv, RawTypes
<1>4. segment_size \in Nat
  BY <1>2, CaseSizes
<1>5. progress[t] \in 0..(segment_size - 1)
  BY <1>2, <1>4
<1>6. row \in Rows /\ row \in Disk
  BY <1>2, <1>5, PlaceIs
<1>7. this.bench = "FileInMem" /\ t.phase = "second"
  BY <1>2, JobIs
<1>8. main_pc = "second"
  BY <1>2, <1>3, <1>7 DEF Stages
<1> HIDE DEF row
<1>9. Stages' /\ RawTypes' /\ RawPhases'
  <2>1. output' \in [Disk -> Rows \cup {None}]
    BY <1>1, <1>3, <1>6
  <2>2. progress[t] + 1 \in Nat
    BY <1>2
  <2> QED BY <1>1, <1>3, <2>1, <2>2, WorksStep
<1>10. /\ Rows' = Rows /\ segment_size' = segment_size
       /\ InKeyOrder' = InKeyOrder
       /\ \A u : segment_from(u)' = segment_from(u)
  BY <1>1, <1>2 DEF Rows, segment_size, segment_from, InKeyOrder, Permuted, Sorted
<1>11. MemoryWritten' /\ FileCopied' /\ StoreWritten'
  BY <1>2, <1>7 DEF MemoryWritten, FileCopied, StoreWritten
<1>12. StoreLoaded'
  BY <1>1, <1>2, <1>3, <1>7, <1>8, <1>10 DEF StoreLoaded, RawContents
<1>13. ASSUME NEW u \in Tasks, u.phase = "second", u.slot < this.n_threads
       PROVE  StoredUpTo(u)'
  <2>1. SUFFICES ASSUME NEW k \in 0..(segment_size - 1), k < progress'[u]
                 PROVE  output'[segment_from(u) + k] = tuples[segment_from(u) + k]
    BY <1>1, <1>10 DEF StoredUpTo
  <2>2. StoredUpTo(u)
    BY <1>3, <1>7, <1>8, <1>13 DEF RawContents, FileStored
  <2>3. segment_from(u) + k \in Disk
    BY <1>2, <1>13, PlaceIs
  <2>4. CASE u # t
    <3>1. segment_from(u) + k # row
      BY <1>2, <1>5, <1>7, <1>13, <2>4, PlacesApart DEF row
    <3>2. k < progress[u]
      BY <1>1, <1>3, <2>1, <2>4
    <3> QED BY <1>1, <1>3, <2>2, <2>3, <3>1, <3>2 DEF StoredUpTo
  <2>5. CASE u = t /\ k = progress[t]
    BY <1>1, <1>3, <1>6, <2>5 DEF row
  <2>6. CASE u = t /\ k # progress[t]
    <3>1. k < progress[t] /\ segment_from(u) + k # row
      <4>1. k < progress[t]
        BY <1>1, <1>2, <1>3, <2>1, <2>6
      <4>2. segment_from(t) \in Nat
        BY <1>2, <1>5, PlaceIs
      <4> QED BY <1>2, <2>6, <4>1, <4>2 DEF row
    <3>2. output[segment_from(u) + k] = tuples[segment_from(u) + k]
      BY <2>2, <2>6, <3>1 DEF StoredUpTo
    <3> QED BY <1>1, <1>3, <2>3, <3>1, <3>2
  <2> QED BY <2>4, <2>5, <2>6
<1>14. FileStored'
  BY <1>1, <1>2, <1>8, <1>13 DEF FileStored
<1> QED BY <1>9, <1>11, <1>12, <1>14 DEF RawInv, RawContents

LEMMA RandomStep == ASSUME RawInv, NEW t \in Tasks, RandomWriteTuple(t) PROVE RawInv'
<1> DEFINE i == progress[t] % window_size
           offset == segment_from(t) + tuples_by_row[i]
           row == segment_from(t) + progress[t]
<1>1. /\ Works(t, "random_write")
      /\ \/ output' = [output EXCEPT ![offset] = row] /\ troubles' = troubles
         \/ output' = [output EXCEPT ![offset] = None] /\ troubles' = troubles \cup {"short"}
      /\ progress' = [progress EXCEPT ![t] = progress[t] + 1]
      /\ main_pc' = main_pc /\ tuples' = tuples
  BY DEF RandomWriteTuple, Took
<1>2. /\ progress[t] \in Nat /\ progress[t] < segment_size /\ t.slot < this.n_threads
      /\ main_pc \in {"first", "second", "exit"}
      /\ main_pc # "exit" => t.phase = main_pc
      /\ Job(t) = "random_write" /\ this \in Cases
      /\ this' = this /\ input' = input /\ tuples_by_row' = tuples_by_row
  BY <1>1, WorksIs
<1>3. /\ RawContents /\ RawTypes
      /\ tuples \in [Rows -> Rows \cup {None}] /\ output \in [Disk -> Rows \cup {None}]
      /\ progress \in [Tasks -> Nat] /\ tuples_by_row \in [Rows -> Rows]
  BY DEF RawInv, RawTypes
<1>4. /\ segment_size \in Nat /\ window_size \in 1..segment_size
      /\ this.size \in Nat /\ this.size % this.n_threads = 0 => this.n_threads * segment_size = this.size
      /\ this.bench # "IO" => this.size % this.n_threads = 0
  BY <1>2, CaseSizes
<1>5. progress[t] \in 0..(segment_size - 1)
  BY <1>2, <1>4
<1>6. row \in Rows
  BY <1>2, <1>5, PlaceIs
<1>7. this.bench = "ColumnStore" /\ t.phase = "second"
  BY <1>2, JobIs
<1>8. Stages' /\ RawTypes' /\ RawPhases'
  <2> HIDE DEF offset, row
  <2>1. output' \in [Disk -> Rows \cup {None}]
    BY <1>1, <1>3, <1>6
  <2>2. progress[t] + 1 \in Nat
    BY <1>2
  <2> QED BY <1>1, <1>3, <2>1, <2>2, WorksStep
<1>9. /\ Rows' = Rows /\ Disk' = Disk /\ segment_size' = segment_size
      /\ window_size' = window_size
  BY <1>2 DEF Rows, Disk, segment_size, window_size
<1>10. MemoryWritten' /\ FileCopied' /\ FileStored'
  BY <1>2, <1>7 DEF MemoryWritten, FileCopied, FileStored
<1>11. main_pc \in {"second", "exit"}
  BY <1>2, <1>7
<1>12. StoreLoaded'
  <2>1. InKeyOrder' = InKeyOrder
    BY <1>1, <1>2, <1>9 DEF InKeyOrder, Permuted, Sorted
  <2> QED BY <1>1, <1>2, <1>3, <1>7, <1>11, <2>1 DEF StoreLoaded, RawContents
<1>13. StoreWritten'
  <2>1. SUFFICES ASSUME main_pc = "second" PROVE StoreWritten'
    BY <1>1, <1>11 DEF StoreWritten
  <2>2. \A r \in Rows : tuples[tuples_by_row[r]] = r
    BY <1>3, <1>7, <2>1 DEF RawContents, StoreWritten
  <2>3. ASSUME this.n_threads = 1, OneWindow, troubles' = {},
               NEW k \in Rows, k < progress'[OnlyTask]
        PROVE  output'[tuples_by_row[k]] = k
    <3>1. t = OnlyTask
      <4>1. t.slot \in Nat /\ t = [phase |-> t.phase, slot |-> t.slot]
        BY <1>2, TaskIs
      <4>2. t.slot = 0
        BY <1>2, <2>3, <4>1
      <4> QED BY <1>7, <4>1, <4>2 DEF OnlyTask
    <3>2. segment_from(t) = 0
      <4>1. t.slot = 0
        BY <3>1 DEF OnlyTask
      <4> QED BY <1>4, <4>1 DEF segment_from
    <3>3. i = progress[t]
      <4>1. window_size = segment_size
        BY <2>3 DEF OneWindow
      <4> QED BY <1>4, <1>5, <4>1
    <3>4. progress[t] \in Rows
      BY <1>2, <1>6, <3>2
    <3>5. offset = tuples_by_row[progress[t]] /\ row = progress[t]
      <4>1. tuples_by_row[progress[t]] \in Nat
        BY <1>3, <1>4, <3>4 DEF Rows
      <4> QED BY <1>2, <3>2, <3>3, <4>1
    <3>6. troubles = {} /\ output' = [output EXCEPT ![offset] = row]
      BY <1>1, <2>3
    <3> HIDE DEF offset, row, i
    <3>7. tuples_by_row[k] \in Disk
      <4>1. tuples_by_row[k] \in 0..(this.size - 1)
        BY <1>3 DEF Rows
      <4>2. this.size \in Nat
        BY <1>2, CaseSizes
      <4>3. 0..(this.size - 1) \subseteq 0..(2 * this.size - 1)
        BY <4>2
      <4> QED BY <4>1, <4>3 DEF Disk
    <3>8. CASE k = progress[t]
      BY <1>3, <3>5, <3>6, <3>7, <3>8
    <3>9. CASE k # progress[t]
      <4>1. tuples_by_row[k] # tuples_by_row[progress[t]]
        BY <2>2, <3>4, <3>9
      <4>2. k < progress[t]
        <5>1. progress'[t] = progress[t] + 1 /\ k \in Nat
          BY <1>1, <1>3, <1>4 DEF Rows
        <5> QED BY <1>2, <2>3, <3>1, <3>9, <5>1
      <4>3. output[tuples_by_row[k]] = k
        BY <1>3, <1>7, <2>1, <2>3, <3>1, <3>6, <4>2 DEF RawContents, StoreWritten
      <4> QED BY <1>3, <3>5, <3>6, <3>7, <4>1, <4>3
    <3> QED BY <3>8, <3>9
  <2>4. OneWindow' = OneWindow
    BY <1>9 DEF OneWindow
  <2> QED BY <1>1, <1>2, <1>9, <2>1, <2>2, <2>3, <2>4 DEF StoreWritten
<1> QED BY <1>8, <1>10, <1>12, <1>13 DEF RawInv, RawContents

LEMMA RandomFailStep == ASSUME RawInv, NEW t \in Tasks, RandomWriteFails(t) PROVE RawInv'
<1>1. /\ Works(t, "random_write")
      /\ main_pc # "exit" /\ main_pc' = "exit"
      /\ tuples' = tuples /\ output' = output /\ progress' = progress
  BY DEF RandomWriteFails
<1>2. /\ progress[t] \in Nat /\ Job(t) = "random_write" /\ this \in Cases /\ this' = this
  BY <1>1, WorksIs
<1>3. /\ tuples \in [Rows -> Rows \cup {None}] /\ output \in [Disk -> Rows \cup {None}]
      /\ progress \in [Tasks -> Nat]
  BY DEF RawInv, RawTypes
<1>4. this.bench = "ColumnStore"
  BY <1>2, JobIs
<1>5. progress' = [progress EXCEPT ![t] = progress[t]]
  BY <1>1, <1>3
<1>6. Stages' /\ RawTypes' /\ RawPhases'
  BY <1>1, <1>2, <1>3, <1>4, <1>5, WorksStep
<1>7. RawContents'
  BY <1>1, <1>2, <1>4
     DEF RawContents, MemoryWritten, FileCopied, StoreLoaded, StoreWritten, FileStored
<1> QED BY <1>6, <1>7 DEF RawInv

(* Counting -1 bytes never goes below 0: it starts again at Wrap. *)
LEMMA FailedIs ==
  ASSUME this \in Cases, NEW b \in Nat, b < this.size
  PROVE  /\ Failed(b) \in Nat
         /\ b = 0 => Failed(b) >= this.size
         /\ b > 0 => Failed(b) = b - 1
<1>1. this.size \in Nat /\ Wrap \in Nat /\ this.size < Wrap
  BY CaseSizes
<1>2. CASE b = 0
  BY <1>1, <1>2 DEF Failed
<1>3. CASE b > 0
  BY <1>1, <1>3 DEF Failed
<1> QED BY <1>2, <1>3

LEMMA WriteStep == ASSUME RawInv, NEW t \in Tasks, WriteSome(t) PROVE RawInv'
<1> DEFINE start == segment_from(t)
           offset == start + progress[t]
<1>1. PICK n \in 1..(segment_size - progress[t]) :
        /\ Works(t, "write")
        /\ output' = Written(start, offset, n)
        /\ progress' = [progress EXCEPT ![t] = progress[t] + n]
        /\ WriteTrouble(progress[t], n, segment_size)
        /\ main_pc' = main_pc /\ tuples' = tuples
  BY DEF WriteSome, Took
<1>2. /\ progress[t] \in Nat /\ progress[t] < segment_size /\ t.slot < this.n_threads
      /\ main_pc \in {"first", "second", "exit"}
      /\ main_pc # "exit" => t.phase = main_pc
      /\ Job(t) = "write" /\ this \in Cases
      /\ this' = this /\ input' = input /\ tuples_by_row' = tuples_by_row
  BY <1>1, WorksIs
<1>3. /\ RawContents /\ RawTypes
      /\ tuples \in [Rows -> Rows \cup {None}] /\ output \in [Disk -> Rows \cup {None}]
      /\ progress \in [Tasks -> Nat]
  BY DEF RawInv, RawTypes
<1>4. segment_size \in Nat /\ segment_size > 0
  BY <1>2, CaseSizes
<1>5. progress[t] \in 0..(segment_size - 1) /\ n \in Nat /\ progress[t] + n <= segment_size
      /\ n > 0
  BY <1>2, <1>4
<1>6. this.bench = "IO" /\ t.phase = "second"
  BY <1>2, JobIs
<1>7. main_pc \in {"second", "exit"}
  BY <1>2, <1>6
<1>8. start \in Nat /\ start = t.slot * segment_size
      /\ t.slot \in 0..(this.n_threads - 1) /\ offset \in Nat
  BY <1>2, <1>5, PlaceIs
<1>9. /\ Rows' = Rows /\ Disk' = Disk /\ segment_size' = segment_size
      /\ window_size' = window_size
      /\ \A u : segment_from(u)' = segment_from(u)
  BY <1>2 DEF Rows, Disk, segment_size, window_size, segment_from
<1>10. FileCopied
  BY <1>3 DEF RawContents
<1>11. ASSUME NEW i \in Disk
       PROVE  \/ i \notin offset..(offset + n - 1) /\ output'[i] = output[i]
              \/ \E k \in 0..(n - 1) :
                   /\ i = offset + k /\ start + k \in Rows
                   /\ output'[i] = tuples[start + k]
                   /\ tuples[start + k] \in {None, start + k}
  <2>1. output'[i] = IF i \in offset..(offset + n - 1) THEN tuples[start + i - offset]
                     ELSE output[i]
    BY <1>1 DEF Written
  <2>2. CASE i \in offset..(offset + n - 1)
    <3> DEFINE k == i - offset
    <3>1. k \in 0..(n - 1) /\ i = offset + k /\ start + i - offset = start + k
      BY <1>5, <1>8, <2>2
    <3> HIDE DEF k
    <3>2. k \in 0..(segment_size - 1)
      BY <1>4, <1>5, <3>1
    <3>3. start + k \in Rows
      BY <1>2, <3>2, PlaceIs
    <3>4. output'[i] = tuples[start + k]
      BY <2>1, <2>2, <3>1
    <3>5. tuples[start + k] \in {None, start + k}
      BY <1>6, <1>10, <3>3 DEF FileCopied
    <3> QED BY <3>1, <3>3, <3>4, <3>5
  <2>3. CASE i \notin offset..(offset + n - 1)
    BY <2>1, <2>3
  <2> QED BY <2>2, <2>3
<1>12. Stages' /\ RawTypes' /\ RawPhases'
  <2>1. output' \in [Disk -> Rows \cup {None}]
    <3>1. \A i \in Disk : output'[i] \in Rows \cup {None}
      BY <1>3, <1>11
    <3>2. output' = [i \in Disk |-> output'[i]]
      BY <1>1 DEF Written
    <3> QED BY <3>1, <3>2
  <2>2. progress[t] + n \in Nat
    BY <1>5
  <2> QED BY <1>1, <1>3, <2>1, <2>2, WorksStep
<1>13. MemoryWritten' /\ StoreLoaded' /\ StoreWritten' /\ FileStored'
  BY <1>2, <1>6 DEF MemoryWritten, StoreLoaded, StoreWritten, FileStored
<1>14. FileCopied'
  <2>1. \A i \in Rows : tuples'[i] \in {None, i}
    BY <1>1, <1>6, <1>10 DEF FileCopied
  <2>2. main_pc = "second" /\ OneWindow => InFileOrder
    BY <1>6, <1>10 DEF FileCopied
  <2>3. OneWindow' = OneWindow /\ InFileOrder' = InFileOrder
    BY <1>1, <1>9 DEF OneWindow, InFileOrder
  <2>4. ASSUME main_pc = "second", NEW i \in Disk, output'[i] # None
        PROVE  \E s \in 0..(this.n_threads - 1), k, l \in 0..(segment_size - 1) :
                 i = s * segment_size + k /\ output'[i] = s * segment_size + l
    <3>1. CASE output'[i] = output[i]
      BY <1>6, <1>10, <2>4, <3>1 DEF FileCopied
    <3>2. CASE \E k \in 0..(n - 1) :
                   /\ i = offset + k /\ start + k \in Rows
                   /\ output'[i] = tuples[start + k]
                   /\ tuples[start + k] \in {None, start + k}
      <4>1. PICK k \in 0..(n - 1) : i = offset + k /\ output'[i] = start + k
        BY <2>4, <3>2
      <4>2. progress[t] + k \in 0..(segment_size - 1) /\ k \in 0..(segment_size - 1)
        BY <1>4, <1>5
      <4>3. i = t.slot * segment_size + (progress[t] + k)
            /\ output'[i] = t.slot * segment_size + k
        BY <1>5, <1>8, <4>1, <4>2
      <4> QED BY <1>8, <4>2, <4>3
    <3> QED BY <1>11, <3>1, <3>2
  <2>5. ASSUME main_pc = "second", OneWindow, troubles' = {},
               NEW u \in Tasks, u.phase = "second", u.slot < this.n_threads
        PROVE  /\ progress'[u] \in {0, segment_size}
               /\ progress'[u] > 0 =>
                    \A k \in 0..(segment_size - 1) :
                      output'[segment_from(u) + k] = segment_from(u) + k
    <3>1. troubles = {} /\ progress[t] + n = segment_size
      BY <1>1, <2>5 DEF WriteTrouble
    <3>2. /\ progress[u] \in {0, segment_size}
          /\ progress[u] > 0 =>
               \A k \in 0..(segment_size - 1) :
                 output[segment_from(u) + k] = segment_from(u) + k
      BY <1>6, <1>10, <2>5, <3>1 DEF FileCopied
    <3>3. progress[t] = 0 /\ n = segment_size /\ offset = start
      <4>1. progress[t] \in {0, segment_size}
        BY <1>2, <1>6, <1>10, <2>5, <3>1 DEF FileCopied
      <4>2. progress[t] = 0
        BY <1>2, <1>4, <4>1
      <4> QED BY <1>4, <1>5, <1>8, <3>1, <4>2
    <3>4. CASE u = t
      <4>1. progress'[u] = segment_size
        BY <1>1, <1>3, <3>1, <3>4
      <4>2. ASSUME NEW k \in 0..(segment_size - 1)
            PROVE  output'[start + k] = start + k
        <5>1. start + k \in Disk /\ start + k \in Rows
          BY <1>2, PlaceIs
        <5>2. start + k \in offset..(offset + n - 1)
          BY <1>4, <1>8, <3>3
        <5>3. PICK l \in 0..(n - 1) : start + k = offset + l
                                      /\ output'[start + k] = tuples[start + l]
          BY <1>11, <5>1, <5>2
        <5>4. l = k
          BY <1>8, <3>3, <5>3
        <5>5. tuples[start + k] = start + k
          BY <2>2, <2>5, <5>1 DEF InFileOrder
        <5> QED BY <5>3, <5>4, <5>5
      <4> QED BY <3>4, <4>1, <4>2
    <3>5. CASE u # t
      <4>1. progress'[u] = progress[u]
        BY <1>1, <1>3, <3>5
      <4>2. ASSUME NEW k \in 0..(segment_size - 1)
            PROVE  output'[segment_from(u) + k] = output[segment_from(u) + k]
        <5>1. segment_from(u) + k \in Disk
          BY <1>2, <2>5, PlaceIs
        <5>2. ASSUME NEW l \in 0..(n - 1), segment_from(u) + k = offset + l
              PROVE  FALSE
          <6>1. segment_from(u) + k # segment_from(t) + l
            BY <1>2, <1>6, <2>5, <3>3, <3>5, PlacesApart
          <6> QED BY <3>3, <5>2, <6>1
        <5> QED BY <1>11, <5>1, <5>2
      <4> QED BY <3>2, <4>1, <4>2
    <3> QED BY <3>4, <3>5
  <2> HIDE DEF offset, start
  <2> QED BY <1>1, <1>2, <1>6, <1>7, <1>9, <1>10, <2>1, <2>2, <2>3, <2>4, <2>5 DEF FileCopied
<1> QED BY <1>12, <1>13, <1>14 DEF RawInv, RawContents

LEMMA WriteFailStep == ASSUME RawInv, NEW t \in Tasks, WriteFails(t) PROVE RawInv'
<1>1. /\ Works(t, "write")
      /\ progress' = [progress EXCEPT ![t] = Failed(progress[t])]
      /\ troubles' # {}
      /\ main_pc' = main_pc /\ tuples' = tuples /\ output' = output
  BY DEF WriteFails, Took, FailTrouble
<1>2. /\ progress[t] \in Nat /\ progress[t] < segment_size
      /\ main_pc \in {"first", "second", "exit"}
      /\ main_pc # "exit" => t.phase = main_pc
      /\ Job(t) = "write" /\ this \in Cases
      /\ this' = this /\ input' = input
  BY <1>1, WorksIs
<1>3. /\ RawContents /\ RawTypes
      /\ tuples \in [Rows -> Rows \cup {None}] /\ output \in [Disk -> Rows \cup {None}]
      /\ progress \in [Tasks -> Nat]
  BY DEF RawInv, RawTypes
<1>4. Failed(progress[t]) \in Nat
  <2>1. Wrap \in Nat /\ Wrap > 0
    BY <1>2, CaseSizes
  <2> QED BY <1>2, <2>1 DEF Failed
<1>5. this.bench = "IO" /\ t.phase = "second"
  BY <1>2, JobIs
<1>6. Stages' /\ RawTypes' /\ RawPhases'
  BY <1>1, <1>3, <1>4, WorksStep
<1>7. /\ Rows' = Rows /\ Disk' = Disk /\ segment_size' = segment_size
      /\ OneWindow' = OneWindow /\ InFileOrder' = InFileOrder
  BY <1>1, <1>2 DEF Rows, Disk, segment_size, window_size, OneWindow, InFileOrder
<1>8. MemoryWritten' /\ StoreLoaded' /\ StoreWritten' /\ FileStored'
  BY <1>2, <1>5 DEF MemoryWritten, StoreLoaded, StoreWritten, FileStored
<1>9. FileCopied'
  BY <1>1, <1>2, <1>3, <1>5, <1>7 DEF FileCopied, RawContents
<1> QED BY <1>6, <1>8, <1>9 DEF RawInv, RawContents

-----------------------------------------------------------------------------
(* Steps of main. *)

(* When wait_all() returns, the tasks of the phase have taken all their tuples. *)
LEMMA AllDone ==
  ASSUME RawInv, main_pc \in {"first", "second"}, client = "waiting", Pool!Quiet,
         NEW t \in Tasks, t.phase = main_pc, t.slot < this.n_threads
  PROVE  progress[t] \in Nat /\ progress[t] >= segment_size /\ progress[t] > 0
<1>1. RawPhases /\ RawTypes /\ this \in Cases /\ progress \in [Tasks -> Nat]
  BY DEF RawInv, RawTypes
<1>2. added = this.n_threads /\ this.n_threads \in Nat /\ segment_size \in Nat /\ segment_size > 0
  BY <1>1, CaseSizes DEF RawPhases
<1>3. t.slot \in Nat /\ t = PhaseTask(t.slot)
  BY <1>1, TaskIs DEF PhaseTask
<1>4. t.slot \in 0..(added - 1)
  BY <1>2, <1>3
<1>5. t \in Pool!Known
  BY <1>1, <1>3, <1>4 DEF RawPhases
<1>6. t \in done
  BY <1>5, QuietEmpty
<1>7. progress[t] >= segment_size
  BY <1>1, <1>6 DEF RawPhases
<1> QED BY <1>1, <1>2, <1>7

(* So the first phase leaves the column store, and the file, in memory, *)
LEMMA FirstDone ==
  ASSUME RawInv, main_pc = "first", client = "waiting", Pool!Quiet,
         this.n_threads * segment_size = this.size
  PROVE  /\ this.bench \in {"FileInMem", "ColumnStore", "ColumnStoreBW"} => InFileOrder
         /\ this.bench = "IO" /\ OneWindow => InFileOrder
<1>1. this \in Cases /\ progress \in [Tasks -> Nat] /\ RawContents
  BY DEF RawInv, RawTypes
<1>2. segment_size \in Nat
  BY <1>1, CaseSizes
<1>3. ASSUME NEW i \in Rows,
             \/ this.bench \in {"FileInMem", "ColumnStore", "ColumnStoreBW"}
             \/ this.bench = "IO" /\ OneWindow
      PROVE  tuples[i] = i
  <2>1. PICK t \in Tasks, k \in 0..(segment_size - 1) :
          /\ t.phase = "first" /\ t.slot \in 0..(this.n_threads - 1)
          /\ i = segment_from(t) + k
    BY <1>1, RowOf
  <2>2. t.slot < this.n_threads
    <3>1. this.n_threads \in Nat
      BY <1>1, CaseSizes
    <3> QED BY <2>1, <3>1
  <2>3. progress[t] \in Nat /\ progress[t] >= segment_size /\ progress[t] > 0
    BY <2>1, <2>2, AllDone
  <2>4. CASE this.bench \in {"FileInMem", "ColumnStore", "ColumnStoreBW"}
    <3>1. LoadedUpTo(t)
      BY <1>1, <2>1, <2>2, <2>4 DEF RawContents, StoreLoaded
    <3>2. k < progress[t]
      BY <1>2, <2>3
    <3> QED BY <2>1, <3>1, <3>2 DEF LoadedUpTo
  <2>5. CASE this.bench = "IO" /\ OneWindow
    <3>1. ReadUpTo(t)
      BY <1>1, <2>1, <2>2, <2>5 DEF RawContents, FileCopied
    <3>2. k \in 0..(window_size - 1)
      BY <2>5 DEF OneWindow
    <3> QED BY <2>1, <2>3, <3>1, <3>2 DEF ReadUpTo
  <2> QED BY <1>3, <2>4, <2>5
<1> QED BY <1>3 DEF InFileOrder

(* and the second the copy. *)
LEMMA SecondDone ==
  ASSUME RawInv, main_pc = "second", client = "waiting", Pool!Quiet,
         this.n_threads * segment_size = this.size,
         this.bench = "IO", OneWindow, troubles = {}, NEW i \in Rows
  PROVE  output[i] = i
<1>1. this \in Cases /\ RawContents
  BY DEF RawInv, RawTypes
<1>2. PICK t \in Tasks, k \in 0..(segment_size - 1) :
        /\ t.phase = "second" /\ t.slot \in 0..(this.n_threads - 1)
        /\ i = segment_from(t) + k
  BY <1>1, RowOf
<1>3. t.slot < this.n_threads
  <2>1. this.n_threads \in Nat
    BY <1>1, CaseSizes
  <2> QED BY <1>2, <2>1
<1>4. progress[t] > 0
  BY <1>2, <1>3, AllDone
<1> QED BY <1>1, <1>2, <1>3, <1>4 DEF RawContents, FileCopied

LEMMA PhaseDoneStep == ASSUME RawInv, PhaseDone PROVE RawInv'
<1>1. /\ Stages /\ RawTypes /\ RawPhases /\ RawContents
      /\ main_pc \in {"first", "second"} /\ added' = 0
      /\ main_pc' = IF main_pc = "second"
                    THEN IF this.bench = "ColumnStoreBW" THEN "exit" ELSE "done"
                    ELSE IF this.bench \in {"FileInMem", "ColumnStore"} THEN "sort"
                    ELSE IF this.size % this.n_threads = 0 THEN "second" ELSE "exit"
      /\ client = "waiting" /\ Pool!Quiet /\ client' = "open"
      /\ pending' = pending /\ executing' = executing /\ done' = done
      /\ UNCHANGED <<this, input, data, progress, writes>>
      /\ this' = this /\ input' = input /\ progress' = progress
      /\ tuples' = tuples /\ tuples_by_row' = tuples_by_row /\ output' = output
      /\ bytes_written' = bytes_written /\ troubles' = troubles
      /\ this \in Cases
  BY DEF RawInv, RawTypes, PhaseDone, Pool!Release, data, writes
<1>2. /\ this.bench \in Benches /\ this.n_threads \in Nat /\ this.n_threads > 0
      /\ this.n_threads <= MaxThreads /\ MaxThreads \in Nat
      /\ segment_size \in Nat /\ segment_size > 0
      /\ this.size \in Nat
  BY <1>1, CaseSizes
<1>3. this.bench # "InMemory"
  BY <1>1 DEF Stages
<1>4. this.size % this.n_threads = 0 \/ (this.bench = "IO" /\ main_pc = "first" /\ main_pc' = "exit")
  <2>1. this.bench # "IO" => this.size % this.n_threads = 0
    BY <1>1, CaseSizes
  <2>2. this.bench = "IO" /\ main_pc = "second" => this.size % this.n_threads = 0
    BY <1>1 DEF Stages
  <2> QED BY <1>1, <2>1, <2>2
<1> DEFINE even == this.n_threads * segment_size = this.size
<1>5. this.size % this.n_threads = 0 => even
  BY <1>1, CaseSizes
<1> HIDE DEF even
<1>6. /\ main_pc = "first" /\ this.bench \in {"FileInMem", "ColumnStore"} =>
           main_pc' = "sort" /\ even
      /\ main_pc = "first" /\ this.bench = "ColumnStoreBW" => main_pc' = "second" /\ even
      /\ main_pc = "first" /\ this.bench = "IO" =>
           \/ main_pc' = "second" /\ this.size % this.n_threads = 0 /\ even
           \/ main_pc' = "exit"
      /\ main_pc = "second" /\ this.bench = "ColumnStoreBW" => main_pc' = "exit"
      /\ main_pc = "second" /\ this.bench \in {"FileInMem", "ColumnStore", "IO"} =>
           main_pc' = "done" /\ even /\ this.size % this.n_threads = 0
  BY <1>1, <1>4, <1>5
<1>7. this.bench \in {"FileInMem", "ColumnStore", "ColumnStoreBW", "IO"}
  BY <1>2, <1>3 DEF Benches
<1>8. Stages'
  BY <1>1, <1>6, <1>7 DEF Stages
<1>9. RawTypes'
  BY <1>1, TypesSame DEF RawTypes
<1>10. /\ Rows' = Rows /\ Disk' = Disk /\ segment_size' = segment_size
       /\ OneWindow' = OneWindow /\ InFileOrder' = InFileOrder /\ InKeyOrder' = InKeyOrder
       /\ \A u : segment_from(u)' = segment_from(u)
  BY <1>1 DEF Rows, Disk, segment_size, window_size, OneWindow, InFileOrder, InKeyOrder,
     Permuted, Sorted, segment_from
<1>11. RawPhases'
  <2>1. Pool!Quiet' /\ \A t \in (Pool!Elements(pending) \cup executing)' : FALSE
    <3>1. Pool!Elements(pending)' = Pool!Elements(pending) /\ executing' = executing
      BY <1>1 DEF Pool!Elements
    <3>2. Pool!Elements(pending) = {} /\ executing = {}
      BY <1>1, QuietEmpty
    <3>3. Pool!Quiet'
      BY <1>1 DEF Pool!Quiet
    <3> QED BY <3>1, <3>2, <3>3
  <2>2. \A i \in 0..(added' - 1) : FALSE
    BY <1>1
  <2>3. main_pc' \in {"first", "sort", "rearrange"} => main_pc = "first"
    BY <1>1
  <2>4. \A t \in done' : progress'[t] >= segment_size'
    BY <1>1, <1>10 DEF RawPhases
  <2> QED BY <1>1, <2>1, <2>2, <2>3, <2>4 DEF RawPhases
<1>12. MemoryWritten'
  BY <1>1, <1>3 DEF MemoryWritten
<1>13. FileCopied'
  <2>1. SUFFICES ASSUME this.bench = "IO" PROVE FileCopied'
    BY <1>1 DEF FileCopied
  <2>2. FileCopied
    BY <1>1 DEF RawContents
  <2>3. CASE main_pc = "first" /\ main_pc' = "second" /\ even
    <3>1. OneWindow => InFileOrder
      BY <1>1, <2>1, <2>3, FirstDone DEF even
    <3>2. \A t \in Tasks : t.phase = "second" => progress[t] = 0
      BY <1>1, <2>3 DEF RawPhases
    <3> QED BY <1>1, <1>10, <2>1, <2>2, <2>3, <3>1, <3>2 DEF FileCopied
  <2>4. CASE main_pc' = "exit"
    BY <1>1, <1>10, <2>1, <2>2, <2>4 DEF FileCopied
  <2>5. CASE main_pc = "second" /\ main_pc' = "done" /\ even
    <3>1. OneWindow /\ troubles = {} => \A i \in Rows : output[i] = i
      BY <1>1, <2>1, <2>5, SecondDone DEF even
    <3> QED BY <1>1, <1>10, <2>1, <2>2, <2>5, <3>1 DEF FileCopied
  <2> QED BY <1>1, <1>6, <2>1, <2>3, <2>4, <2>5
<1>14. StoreLoaded'
  <2>1. main_pc = "first" /\ this.bench \in {"FileInMem", "ColumnStore", "ColumnStoreBW"} =>
          InFileOrder
    BY <1>1, <1>6, FirstDone DEF even
  <2>2. main_pc' # "first"
    BY <1>1
  <2> QED BY <1>1, <1>6, <1>10, <2>1, <2>2 DEF StoreLoaded, RawContents
<1>15. StoreWritten'
  <2>1. SUFFICES ASSUME this.bench = "ColumnStore", main_pc = "second" PROVE StoreWritten'
    BY <1>1, <1>6 DEF StoreWritten
  <2>2. this.n_threads = 1 => progress[OnlyTask] >= this.size
    <3>1. SUFFICES ASSUME this.n_threads = 1 PROVE progress[OnlyTask] >= this.size
      OBVIOUS
    <3>2. 0 \in 0..(MaxThreads - 1)
      BY <1>2
    <3>3. OnlyTask \in Tasks /\ OnlyTask.phase = main_pc /\ OnlyTask.slot < this.n_threads
      BY <2>1, <3>1, <3>2 DEF OnlyTask, Tasks
    <3>4. progress[OnlyTask] >= segment_size
      BY <1>1, <3>3, AllDone
    <3>5. 1 * segment_size = this.size
      BY <1>6, <2>1, <3>1 DEF even
    <3> QED BY <1>2, <3>4, <3>5
  <2> QED BY <1>1, <1>6, <1>10, <2>1, <2>2 DEF StoreWritten, RawContents
<1>16. FileStored'
  <2>1. SUFFICES ASSUME this.bench = "FileInMem", main_pc = "second" PROVE FileStored'
    BY <1>1, <1>6 DEF FileStored
  <2>2. ASSUME NEW i \in Rows PROVE output[i] = tuples[i]
    <3>1. PICK t \in Tasks, k \in 0..(segment_size - 1) :
            /\ t.phase = "second" /\ t.slot \in 0..(this.n_threads - 1)
            /\ i = segment_from(t) + k
      <4>1. this.n_threads * segment_size = this.size
        BY <1>6, <2>1 DEF even
      <4> QED BY <1>1, <4>1, RowOf
    <3>2. t.slot < this.n_threads
      BY <1>2, <3>1
    <3>3. progress[t] \in Nat /\ progress[t] >= segment_size
      BY <1>1, <2>1, <3>1, <3>2, AllDone
    <3>4. StoredUpTo(t)
      BY <1>1, <2>1, <3>1, <3>2 DEF RawContents, FileStored
    <3>5. k < progress[t]
      BY <1>2, <3>3
    <3> QED BY <3>1, <3>4, <3>5 DEF StoredUpTo
  <2> QED BY <1>1, <1>6, <1>10, <2>1, <2>2 DEF FileStored
<1> QED BY <1>8, <1>9, <1>11, <1>12, <1>13, <1>14, <1>15, <1>16 DEF RawInv, RawContents

(* Between the phases nobody else is at work. *)
LEMMA MainPhases ==
  ASSUME RawInv, main_pc \in {"sort", "rearrange", "write"},
         main_pc' \in {"rearrange", "second", "write", "done"},
         main_pc' \in {"rearrange", "second"} => main_pc \in {"sort", "rearrange"},
         this' = this, added' = added, progress' = progress, pool' = pool
  PROVE  RawPhases'
<1>1. /\ RawPhases /\ Pool!Quiet
      /\ pending' = pending /\ executing' = executing /\ done' = done /\ client' = client
  BY DEF RawInv, RawPhases, pool
<1>2. Pool!Quiet' /\ \A t \in (Pool!Elements(pending) \cup executing)' : FALSE
  <2>1. Pool!Elements(pending)' = Pool!Elements(pending)
    BY <1>1 DEF Pool!Elements
  <2>2. Pool!Elements(pending) = {} /\ executing = {}
    BY <1>1, QuietEmpty
  <2>3. Pool!Quiet'
    BY <1>1 DEF Pool!Quiet
  <2> QED BY <1>1, <2>1, <2>2, <2>3
<1>3. segment_size' = segment_size
  BY DEF segment_size
<1>4. main_pc \in {"sort", "rearrange"} =>
        /\ added = 0 /\ client = "open"
        /\ \A t \in Tasks : t.phase = "second" => progress[t] = 0
  BY <1>1 DEF RawPhases
<1>5. main_pc' = "second" =>
        client' # "waiting" /\ \A i \in 0..(added' - 1) : FALSE
  BY <1>1, <1>4
<1>6. \A t \in done' : progress'[t] >= segment_size'
  BY <1>1, <1>3 DEF RawPhases
<1> QED BY <1>1, <1>2, <1>4, <1>5, <1>6 DEF RawPhases

LEMMA SortStep == ASSUME RawInv, Sort PROVE RawInv'
<1>1. PICK p \in [Rows -> Rows] :
        Permuted(p) /\ tuples' = [i \in Rows |-> tuples[p[i]]] /\ Sorted(tuples')
  BY DEF Sort
<1>2. /\ Stages /\ RawTypes /\ RawPhases /\ RawContents
      /\ main_pc = "sort"
      /\ main_pc' = [FileInMem |-> "second", ColumnStore |-> "rearrange",
                     InMemory |-> "write"][this.bench]
      /\ this' = this /\ input' = input /\ added' = added
      /\ tuples_by_row' = tuples_by_row /\ output' = output /\ progress' = progress
      /\ bytes_written' = bytes_written /\ troubles' = troubles /\ pool' = pool
      /\ this \in Cases /\ this.bench \in Benches
  BY CaseSizes DEF RawInv, RawTypes, Sort, writes
<1>3. /\ this.bench \in {"FileInMem", "InMemory", "ColumnStore"}
      /\ this.bench = "FileInMem" => main_pc' = "second"
      /\ this.bench = "InMemory" => main_pc' = "write"
      /\ this.bench = "ColumnStore" => main_pc' = "rearrange"
  BY <1>2 DEF Stages, Benches
<1>4. Stages'
  BY <1>2, <1>3 DEF Stages
<1>5. Rows' = Rows /\ Disk' = Disk
  BY <1>2 DEF Rows, Disk
<1>6. RawTypes'
  <2>1. tuples' \in [Rows -> Rows \cup {None}]
    BY <1>1, <1>2 DEF RawTypes
  <2>2. pending' = pending /\ executing' = executing /\ done' = done
    BY <1>2 DEF pool
  <2> QED BY <1>2, <1>5, <2>1, <2>2 DEF RawTypes
<1>7. RawPhases'
  <2>1. main_pc' \in {"rearrange", "second", "write"}
    BY <1>3
  <2> QED BY <1>2, <2>1, MainPhases
<1>8. InKeyOrder'
  <2>1. InFileOrder
    BY <1>2, <1>3 DEF RawContents, MemoryWritten, StoreLoaded
  <2>2. tuples' = p
    BY <1>1, <2>1 DEF InFileOrder
  <2> QED BY <1>1, <1>2, <1>5, <2>2 DEF InKeyOrder, Permuted, Sorted
<1>9. RawContents'
  <2>1. MemoryWritten'
    <3>1. this.bench = "InMemory" =>
            /\ "failed at once" \in troubles \/ bytes_written = 0
            /\ main_pc' = "write"
      BY <1>2, <1>3 DEF RawContents, MemoryWritten
    <3>2. this.size \in Nat
      BY <1>2, CaseSizes
    <3>3. bytes_written = 0 =>
            bytes_written <= this.size /\ \A i \in 0..(bytes_written - 1) : FALSE
      BY <3>2
    <3> QED BY <1>2, <1>8, <3>1, <3>3 DEF MemoryWritten
  <2>2. FileCopied' /\ StoreLoaded' /\ StoreWritten'
    BY <1>2, <1>3, <1>8 DEF FileCopied, StoreLoaded, StoreWritten
  <2>3. FileStored'
    <3>1. \A t \in Tasks : t.phase = "second" => progress[t] = 0
      BY <1>2 DEF RawPhases
    <3>2. segment_size' = segment_size /\ segment_size \in Nat
      BY <1>2, CaseSizes DEF segment_size
    <3>3. \A t \in Tasks : t.phase = "second" => StoredUpTo(t)'
      BY <1>2, <3>1, <3>2 DEF StoredUpTo
    <3> QED BY <1>2, <1>3, <3>3 DEF FileStored
  <2> QED BY <2>1, <2>2, <2>3 DEF RawContents
<1> QED BY <1>4, <1>6, <1>7, <1>9 DEF RawInv

(* A permutation of the rows has an inverse. *)
LEMMA EveryRow ==
  ASSUME NEW s \in Nat, s > 0, NEW p \in [0..(s - 1) -> 0..(s - 1)],
         \A i, j \in 0..(s - 1) : i # j => p[i] # p[j], NEW r \in 0..(s - 1)
  PROVE  \E i \in 0..(s - 1) : p[i] = r
<1> DEFINE S == 0..(s - 1)
<1>1. IsFiniteSet(S)
  BY FS_Interval
<1>2. p \in Injection(S, S)
  BY DEF Injection, IsInjective
<1>3. p \in Surjection(S, S)
  BY <1>1, <1>2, FS_Injection
<1> QED BY <1>3 DEF Surjection

LEMMA RearrangeStep == ASSUME RawInv, Rearrange PROVE RawInv'
<1>1. /\ Stages /\ RawTypes /\ RawPhases /\ RawContents
      /\ main_pc = "rearrange" /\ main_pc' = "second"
      /\ tuples_by_row' = [r \in Rows |-> CHOOSE i \in Rows : tuples[i] = r]
      /\ this' = this /\ input' = input /\ added' = added
      /\ tuples' = tuples /\ output' = output /\ progress' = progress
      /\ bytes_written' = bytes_written /\ troubles' = troubles /\ pool' = pool
      /\ this \in Cases /\ this.bench \in Benches
  BY CaseSizes DEF RawInv, RawTypes, Rearrange, writes
<1>2. this.bench = "ColumnStore"
  BY <1>1 DEF Stages, Benches
<1>3. Stages'
  BY <1>1, <1>2 DEF Stages
<1>4. /\ Rows' = Rows /\ Disk' = Disk /\ InKeyOrder' = InKeyOrder
  BY <1>1 DEF Rows, Disk, InKeyOrder, Permuted, Sorted
<1>5. InKeyOrder
  BY <1>1, <1>2 DEF RawContents, StoreLoaded
<1>6. ASSUME NEW r \in Rows
      PROVE  tuples_by_row'[r] \in Rows /\ tuples[tuples_by_row'[r]] = r
  <2>1. this.size \in Nat /\ this.size > 0
    BY <1>1, CaseSizes
  <2>2. tuples \in [Rows -> Rows] /\ Permuted(tuples)
    BY <1>5 DEF InKeyOrder
  <2>3. \E i \in Rows : tuples[i] = r
    BY <1>6, <2>1, <2>2, EveryRow DEF Permuted, Rows
  <2>4. tuples_by_row'[r] = CHOOSE i \in Rows : tuples[i] = r
    BY <1>1
  <2> QED BY <2>3, <2>4
<1>7. RawTypes'
  <2>1. tuples_by_row' \in [Rows -> Rows]
    BY <1>1, <1>6
  <2>2. pending' = pending /\ executing' = executing /\ done' = done
    BY <1>1 DEF pool
  <2> QED BY <1>1, <1>4, <2>1, <2>2 DEF RawTypes
<1>8. RawPhases'
  BY <1>1, MainPhases
<1>9. MemoryWritten' /\ FileCopied' /\ FileStored'
  BY <1>1, <1>2 DEF MemoryWritten, FileCopied, FileStored
<1>10. StoreLoaded'
  BY <1>1, <1>2, <1>4, <1>5 DEF StoreLoaded
<1>11. StoreWritten'
  <2>1. OnlyTask \in Tasks /\ OnlyTask.phase = "second"
    <3>1. 0 \in 0..(MaxThreads - 1)
      <4>1. MaxThreads \in Nat /\ this.n_threads \in Nat /\ this.n_threads > 0
            /\ this.n_threads <= MaxThreads
        BY <1>1, CaseSizes
      <4> QED BY <4>1
    <3> QED BY <3>1 DEF OnlyTask, Tasks
  <2>2. progress[OnlyTask] = 0
    BY <1>1, <2>1 DEF RawPhases
  <2>3. \A k \in Rows : ~(k < progress'[OnlyTask])
    BY <1>1, <2>2 DEF Rows
  <2> QED BY <1>1, <1>4, <1>6, <2>3 DEF StoreWritten
<1> QED BY <1>3, <1>7, <1>8, <1>9, <1>10, <1>11 DEF RawInv, RawContents

LEMMA MainWriteStep == ASSUME RawInv, MainWrites PROVE RawInv'
<1>1. PICK n \in 1..(this.size - bytes_written) :
        /\ output' = Written(Continue(bytes_written), bytes_written, n)
        /\ bytes_written' = bytes_written + n
        /\ WriteTrouble(bytes_written, n, this.size)
  BY DEF MainWrites
<1>2. /\ Stages /\ RawTypes /\ RawPhases /\ RawContents
      /\ main_pc = "write" /\ bytes_written < this.size /\ main_pc' = main_pc
      /\ this' = this /\ input' = input /\ added' = added
      /\ tuples' = tuples /\ tuples_by_row' = tuples_by_row /\ progress' = progress
      /\ pool' = pool /\ bytes_written \in Nat
      /\ output \in [Disk -> Rows \cup {None}] /\ tuples \in [Rows -> Rows \cup {None}]
      /\ this \in Cases
  BY DEF RawInv, RawTypes, MainWrites, main
<1>3. this.bench = "InMemory"
  BY <1>2 DEF Stages
<1>4. this.size \in Nat
  BY <1>2, CaseSizes
<1>5. /\ n \in Nat /\ bytes_written + n \in Nat /\ bytes_written + n <= this.size
  BY <1>2, <1>4
<1>6. Rows' = Rows /\ Disk' = Disk /\ InKeyOrder' = InKeyOrder
  BY <1>2 DEF Rows, Disk, InKeyOrder, Permuted, Sorted
<1>7. ASSUME NEW i \in Disk
      PROVE  \/ /\ i \in bytes_written..(bytes_written + n - 1) /\ i \in Rows
                /\ output'[i] = tuples[i]
             \/ /\ i \notin bytes_written..(bytes_written + n - 1)
                /\ output'[i] = output[i]
  <2>1. output'[i] = IF i \in bytes_written..(bytes_written + n - 1)
                     THEN tuples[bytes_written + i - bytes_written] ELSE output[i]
    BY <1>1 DEF Written, Continue
  <2>2. ASSUME i \in bytes_written..(bytes_written + n - 1)
        PROVE  i \in Rows /\ bytes_written + i - bytes_written = i
    BY <1>2, <1>4, <1>5, <2>2 DEF Rows
  <2> QED BY <2>1, <2>2
<1>8. RawTypes'
  <2>1. \A i \in Disk : output'[i] \in Rows \cup {None}
    BY <1>2, <1>7
  <2>2. output' = [i \in Disk |-> output'[i]]
    BY <1>1 DEF Written
  <2>3. output' \in [Disk -> Rows \cup {None}]
    BY <2>1, <2>2
  <2>4. pending' = pending /\ executing' = executing /\ done' = done
    BY <1>2 DEF pool
  <2>5. bytes_written' \in Nat
    BY <1>1, <1>5
  <2> QED BY <1>2, <1>6, <2>3, <2>4, <2>5 DEF RawTypes
<1>9. RawPhases'
  BY <1>2, MainPhases
<1>10. MemoryWritten'
  <2>1. MemoryWritten /\ InKeyOrder
    BY <1>2, <1>3 DEF RawContents, MemoryWritten
  <2>2. "failed at once" \in troubles => "failed at once" \in troubles'
    BY <1>1 DEF WriteTrouble
  <2>3. ASSUME "failed at once" \notin troubles, NEW i \in 0..(bytes_written' - 1)
        PROVE  output'[i] = tuples'[i]
    <3>1. i \in Disk
      BY <1>1, <1>4, <1>5 DEF Disk
    <3>2. i \in bytes_written..(bytes_written + n - 1) \/ i \in 0..(bytes_written - 1)
      BY <1>1, <1>2, <1>5
    <3>3. i \in 0..(bytes_written - 1) => output[i] = tuples[i]
      BY <1>3, <2>1, <2>3 DEF MemoryWritten
    <3> QED BY <1>2, <1>7, <3>1, <3>2, <3>3
  <2> QED BY <1>1, <1>2, <1>5, <1>6, <2>1, <2>2, <2>3 DEF MemoryWritten
<1>11. Stages'
  BY <1>2 DEF Stages
<1>12. FileCopied' /\ StoreLoaded' /\ StoreWritten' /\ FileStored'
  BY <1>2, <1>3 DEF FileCopied, StoreLoaded, StoreWritten, FileStored
<1> QED BY <1>8, <1>9, <1>10, <1>11, <1>12 DEF RawInv, RawContents

LEMMA MainFailStep == ASSUME RawInv, MainFails PROVE RawInv'
<1>1. /\ Stages /\ RawTypes /\ RawPhases /\ RawContents
      /\ main_pc = "write" /\ bytes_written < this.size /\ main_pc' = main_pc
      /\ bytes_written' = Failed(bytes_written) /\ FailTrouble(bytes_written)
      /\ this' = this /\ input' = input /\ added' = added
      /\ tuples' = tuples /\ tuples_by_row' = tuples_by_row /\ output' = output
      /\ progress' = progress /\ pool' = pool /\ bytes_written \in Nat
      /\ this \in Cases
  BY DEF RawInv, RawTypes, MainFails, main, data
<1>2. this.bench = "InMemory"
  BY <1>1 DEF Stages
<1>3. /\ Failed(bytes_written) \in Nat
      /\ bytes_written > 0 => Failed(bytes_written) = bytes_written - 1
  BY <1>1, FailedIs
<1>4. Rows' = Rows /\ Disk' = Disk /\ InKeyOrder' = InKeyOrder
  BY <1>1 DEF Rows, Disk, InKeyOrder, Permuted, Sorted
<1>5. RawTypes'
  <2>1. pending' = pending /\ executing' = executing /\ done' = done
    BY <1>1 DEF pool
  <2> QED BY <1>1, <1>3, <1>4, <2>1 DEF RawTypes
<1>6. RawPhases'
  BY <1>1, MainPhases
<1>7. MemoryWritten'
  <2>1. MemoryWritten /\ InKeyOrder
    BY <1>1, <1>2 DEF RawContents, MemoryWritten
  <2>2. "failed at once" \in troubles => "failed at once" \in troubles'
    BY <1>1 DEF FailTrouble
  <2>3. bytes_written = 0 => "failed at once" \in troubles'
    BY <1>1 DEF FailTrouble
  <2>4. ASSUME bytes_written > 0, bytes_written <= this.size
        PROVE  /\ bytes_written' <= this.size
               /\ 0..(bytes_written' - 1) \subseteq 0..(bytes_written - 1)
    <3>1. this.size \in Nat
      BY <1>1, CaseSizes
    <3> QED BY <1>1, <1>3, <2>4, <3>1
  <2>5. bytes_written = 0 \/ bytes_written > 0
    BY <1>1
  <2> QED BY <1>1, <1>4, <2>1, <2>2, <2>3, <2>4, <2>5 DEF MemoryWritten
<1>8. Stages'
  BY <1>1 DEF Stages
<1>9. FileCopied' /\ StoreLoaded' /\ StoreWritten' /\ FileStored'
  BY <1>1, <1>2 DEF FileCopied, StoreLoaded, StoreWritten, FileStored
<1> QED BY <1>5, <1>6, <1>7, <1>8, <1>9 DEF RawInv, RawContents

LEMMA MainWrittenStep == ASSUME RawInv, MainWritten PROVE RawInv'
<1>1. /\ Stages /\ RawTypes /\ RawPhases /\ RawContents
      /\ main_pc = "write" /\ bytes_written >= this.size /\ main_pc' = "done"
      /\ bytes_written' = bytes_written /\ troubles' = troubles
      /\ this' = this /\ input' = input /\ added' = added
      /\ tuples' = tuples /\ tuples_by_row' = tuples_by_row /\ output' = output
      /\ progress' = progress /\ pool' = pool /\ bytes_written \in Nat
      /\ this \in Cases
  BY DEF RawInv, RawTypes, MainWritten, data, writes
<1>2. this.bench = "InMemory" /\ this.size \in Nat
  BY <1>1, CaseSizes DEF Stages
<1>3. Rows' = Rows /\ Disk' = Disk /\ InKeyOrder' = InKeyOrder
  BY <1>1 DEF Rows, Disk, InKeyOrder, Permuted, Sorted
<1>4. RawTypes'
  <2>1. pending' = pending /\ executing' = executing /\ done' = done
    BY <1>1 DEF pool
  <2> QED BY <1>1, <1>3, <2>1 DEF RawTypes
<1>5. RawPhases'
  BY <1>1, MainPhases
<1>6. MemoryWritten'
  <2>1. InKeyOrder /\ MemoryWritten
    BY <1>1, <1>2 DEF MemoryWritten, RawContents
  <2>2. bytes_written <= this.size => bytes_written = this.size
    BY <1>1, <1>2
  <2> QED BY <1>1, <1>2, <1>3, <2>1, <2>2 DEF MemoryWritten
<1>7. Stages'
  BY <1>1, <1>2 DEF Stages
<1>8. FileCopied' /\ StoreLoaded' /\ StoreWritten' /\ FileStored'
  BY <1>1, <1>2 DEF FileCopied, StoreLoaded, StoreWritten, FileStored
<1> QED BY <1>4, <1>5, <1>6, <1>7, <1>8 DEF RawInv, RawContents

-----------------------------------------------------------------------------

(* RawInv holds always: every step of main, of the pool and of the tasks keeps
   it, whatever the pwrites do. *)
THEOREM RawInvariance == WSpec => []RawInv
<1>1. WInit => RawInv
  BY RawInit
<1>2. RawInv /\ [WNext]_writeVars => RawInv'
  <2>1. ASSUME RawInv, WNext PROVE RawInv'
    <3>1. CASE Main
      BY <2>1, <3>1, AddStep, WaitStep, PhaseDoneStep, SortStep, RearrangeStep,
         MainWriteStep, MainFailStep, MainWrittenStep DEF Main
    <3>2. CASE StartTask
      BY <2>1, <3>2, StartStep
    <3>3. CASE \E t \in Tasks : Work(t)
      <4>1. PICK t \in Tasks : Work(t)
        BY <3>3
      <4> QED BY <2>1, <4>1, LoadStep, ReadStep, StoreStep, RandomStep, RandomFailStep,
              WriteStep, WriteFailStep, FinishStep DEF Work
    <3>4. CASE WTerminated
      BY <2>1, <3>4, RawStutter DEF WTerminated
    <3> QED BY <2>1, <3>1, <3>2, <3>3, <3>4 DEF WNext
  <2> QED BY <2>1, RawStutter
<1> QED BY <1>1, <1>2, PTL DEF WSpec

(* A file with the rows of p in the same places as they are in key order. *)
LEMMA SameRows ==
  ASSUME this.size \in Nat, InKeyOrder, \A i \in Rows : output[i] = tuples[i]
  PROVE  Permuted(output) /\ (\A i \in Rows : output[i] \in Rows) /\ Sorted(output)
<1>1. tuples \in [Rows -> Rows] /\ Permuted(tuples) /\ Sorted(tuples)
  BY DEF InKeyOrder
<1>2. Permuted(output)
  BY <1>1 DEF Permuted
<1>3. Sorted(output)
  <2>1. SUFFICES ASSUME NEW i \in Rows \ {0} PROVE input[output[i - 1]] <= input[output[i]]
    BY DEF Sorted
  <2>2. i - 1 \in Rows
    BY DEF Rows
  <2>3. output[i] = tuples[i] /\ output[i - 1] = tuples[i - 1]
    BY <2>1, <2>2
  <2> QED BY <1>1, <2>1, <2>3 DEF Sorted
<1> QED BY <1>1, <1>2, <1>3

LEMMA RawInvRight == ASSUME RawInv PROVE OutputRight
<1>1. /\ MemoryWritten /\ FileCopied /\ StoreLoaded /\ StoreWritten /\ FileStored /\ RawTypes
      /\ this \in Cases
  BY DEF RawInv, RawTypes, RawContents
<1>2. this.size \in Nat /\ segment_size \in Nat
  BY <1>1, CaseSizes
<1>3. ASSUME main_pc = "done", this.bench = "InMemory"
      PROVE  \/ "failed at once" \in troubles
             \/ (Permuted(output) /\ \A i \in Rows : output[i] \in Rows) /\ Sorted(output)
  <2>1. InKeyOrder
    BY <1>1, <1>3 DEF MemoryWritten
  <2>2. "failed at once" \notin troubles => \A i \in Rows : output[i] = tuples[i]
    BY <1>1, <1>3 DEF MemoryWritten, Rows
  <2> QED BY <1>2, <2>1, <2>2, SameRows
<1>4. ASSUME main_pc = "done", this.bench = "IO", OneWindow, troubles = {}
      PROVE  \A i \in Rows : output[i] = i
  BY <1>1, <1>4 DEF FileCopied
<1>5. ASSUME main_pc = "second", this.bench = "IO", NEW i \in Disk, output[i] # None
      PROVE  i \div segment_size = output[i] \div segment_size
  <2>1. PICK s \in 0..(this.n_threads - 1), k \in 0..(segment_size - 1),
             l \in 0..(segment_size - 1) :
          i = s * segment_size + k /\ output[i] = s * segment_size + l
    BY <1>1, <1>5 DEF FileCopied
  <2>2. s \in Nat
    <3>1. this.n_threads \in Nat
      BY <1>1, CaseSizes
    <3> QED BY <3>1
  <2>3. (s * segment_size + k) \div segment_size = s
    BY <1>2, <2>2, SegmentIs
  <2>4. (s * segment_size + l) \div segment_size = s
    BY <1>2, <2>2, SegmentIs
  <2> QED BY <2>1, <2>3, <2>4
<1>6. ASSUME main_pc = "done", this.bench = "ColumnStore", this.n_threads = 1,
             OneWindow, troubles = {}
      PROVE  (Permuted(output) /\ \A i \in Rows : output[i] \in Rows) /\ Sorted(output)
  <2>1. /\ InKeyOrder /\ tuples \in [Rows -> Rows] /\ Permuted(tuples)
        /\ tuples_by_row \in [Rows -> Rows]
    BY <1>1, <1>6 DEF StoreLoaded, InKeyOrder, RawTypes
  <2>2. /\ \A r \in Rows : tuples[tuples_by_row[r]] = r
        /\ \A k \in Rows : k < progress[OnlyTask] => output[tuples_by_row[k]] = k
        /\ progress[OnlyTask] >= this.size
    BY <1>1, <1>6 DEF StoreWritten
  <2>3. \A k \in Rows : output[tuples_by_row[k]] = k
    <3>1. OnlyTask \in Tasks
      <4>1. 0 \in 0..(MaxThreads - 1)
        <5>1. MaxThreads \in Nat /\ 1 <= MaxThreads
          BY <1>1, <1>6, CaseSizes
        <5> QED BY <5>1
      <4> QED BY <4>1 DEF OnlyTask, Tasks
    <3>2. progress[OnlyTask] \in Nat
      BY <1>1, <3>1 DEF RawTypes
    <3>3. \A k \in Rows : k < progress[OnlyTask]
      BY <1>2, <2>2, <3>2 DEF Rows
    <3> QED BY <2>2, <3>3
  <2>4. ASSUME NEW i \in Rows PROVE output[i] = tuples[i]
    <3>1. tuples[i] \in Rows /\ tuples[tuples_by_row[tuples[i]]] = tuples[i]
      BY <2>1, <2>2
    <3>2. tuples_by_row[tuples[i]] = i
      BY <2>1, <3>1 DEF Permuted
    <3> QED BY <2>3, <3>1, <3>2
  <2> QED BY <1>2, <2>1, <2>4, SameRows
<1>7. ASSUME main_pc = "exit", this.bench = "ColumnStoreBW"
      PROVE  \A i \in Rows : tuples[i] = i
  BY <1>1, <1>7 DEF StoreLoaded, InFileOrder
<1>8. ASSUME main_pc = "done", this.bench = "FileInMem"
      PROVE  (Permuted(output) /\ \A i \in Rows : output[i] \in Rows) /\ Sorted(output)
  BY <1>1, <1>2, <1>8, SameRows DEF StoreLoaded, FileStored
<1> QED BY <1>3, <1>4, <1>5, <1>6, <1>7, <1>8 DEF OutputRight, OneWindow

(* What a benchmark leaves is right, for every case, file, number of threads,
   window and order of pwrites, short and failed ones among them. *)
THEOREM WritesRight == WSpec => []OutputRight
BY RawInvariance, RawInvRight, PTL

=============================================================================

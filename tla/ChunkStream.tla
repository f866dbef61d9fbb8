----------------------------- MODULE ChunkStream -----------------------------
(***************************************************************************)
(* What the tasks rely on when they call next() of a FileReader in a loop  *)
(* (include/readers/FileReader.h): each call returns the next chunk bytes  *)
(* of the segment, the last one what is left, and then a null pointer.  A  *)
(* byte is its position.  A reader whose input fails may break; nothing is *)
(* promised from then on.                                                  *)
(***************************************************************************)
EXTENDS Integers

VARIABLES
  first, last,  (* the stream is the positions first .. last - 1           *)
  chunk,     (* the size of a full window                                  *)
  position,  (* the next byte to deliver                                   *)
  window,    (* the bytes the last call of next() returned                 *)
  finished,  (* next() has returned a null pointer                         *)
  broken     (* the input has failed                                       *)

fixed == <<first, last, chunk>>
svars == <<fixed, position, window, finished, broken>>

Amount == IF last - position < chunk THEN last - position ELSE chunk

SInit ==
  /\ position = first
  /\ window = <<>>
  /\ finished = FALSE
  /\ broken = FALSE

Deliver ==
  /\ ~broken /\ ~finished /\ Amount > 0
  /\ window' = [i \in 1..Amount |-> position + i - 1]
  /\ position' = position + Amount
  /\ UNCHANGED <<fixed, finished, broken>>

Finish ==
  /\ ~broken /\ Amount = 0
  /\ finished' = TRUE
  /\ UNCHANGED <<fixed, position, window, broken>>

Break == broken' = TRUE /\ UNCHANGED fixed

SNext == Deliver \/ Finish \/ Break

(* A consumer that keeps calling gets everything. *)
SSpec == SInit /\ [][SNext]_svars /\ WF_svars(Deliver \/ Finish)

=============================================================================

---------------------------- MODULE SortedStream ----------------------------
(***************************************************************************)
(* What an external sort promises once its input is in sorted runs: it     *)
(* emits the tuples one by one, always one with the least key among those  *)
(* not emitted yet, until none is left.  Runs, windows, files and the      *)
(* priority queue are absent.                                              *)
(***************************************************************************)
EXTENDS Naturals, Sequences

VARIABLES
  key,       (* a function from the tuples to their keys                   *)
  remaining, (* the tuples not emitted yet                                 *)
  emitted,   (* the tuples emitted, in order                               *)
  complete   (* whether the sort has come to its end                       *)

mvars == <<key, remaining, emitted, complete>>

MInit ==
  /\ remaining = DOMAIN key
  /\ emitted = <<>>
  /\ complete = FALSE

Emit(x) ==
  /\ x \in remaining
  /\ \A y \in remaining : key[x] <= key[y]
  /\ emitted' = Append(emitted, x)
  /\ remaining' = remaining \ {x}
  /\ UNCHANGED <<key, complete>>

Complete ==
  /\ remaining = {}
  /\ complete' = TRUE
  /\ UNCHANGED <<key, remaining, emitted>>

MNext == Complete \/ \E x \in remaining : Emit(x)

MSafety == MInit /\ [][MNext]_mvars

MSpec == MSafety /\ WF_mvars(MNext)

=============================================================================

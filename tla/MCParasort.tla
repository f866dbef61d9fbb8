----------------------------- MODULE MCParasort -----------------------------
(* An instance of Parasort for TLC: lists shorter than the number of threads,
   lists that divide and lists that do not. *)
EXTENDS Parasort

=============================================================================

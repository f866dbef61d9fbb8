---------------------------- MODULE MCThreadPool ----------------------------
(* An instance of ThreadPool for TLC, with fairness.  The workers run the same
   code, but symmetry is not sound for what must eventually happen. *)
EXTENDS ThreadPool

=============================================================================

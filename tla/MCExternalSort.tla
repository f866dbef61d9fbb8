--------------------------- MODULE MCExternalSort ---------------------------
(* An instance of ExternalSort for TLC.  Any first chunk of two keys; in the
   second one the keys are the other way round, so that it has tuples to go
   before and behind those of the first. *)
EXTENDS ExternalSort

MCInit ==
  /\ SortInit
  /\ \A i \in File : i >= ChunkTuples =>
       input[i] = CHOOSE k \in Keys : k # input[i - ChunkTuples]

MCSpec == MCInit /\ [][SortNext]_allvars /\ Fairness

=============================================================================

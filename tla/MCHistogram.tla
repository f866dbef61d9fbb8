---------------------------- MODULE MCHistogram ----------------------------
(* An empty file, and files of three, four or six tuples of three bytes; three do
   not divide by two threads. *)
EXTENDS Histogram

MCTuples == {<<1, 2, 3>>, <<3, 1, 0>>}

MCFiles ==
  UNION {{[p \in 0..(3 * n - 1) |-> t[p \div 3][(p % 3) + 1]] :
            t \in [0..(n - 1) -> MCTuples]} : n \in {0, 3, 4, 6}}

MCChunkSizes == {0, 6}
=============================================================================

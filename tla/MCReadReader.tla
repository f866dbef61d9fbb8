---------------------------- MODULE MCReadReader ----------------------------
(* An instance of ReadReader for TLC: segments that are no multiple of the
   chunk, in a file that goes on behind them or ends with them, and one that
   is read at once. *)
EXTENDS ReadReader

MCReaders ==
  {[mode |-> "own", from |-> 2, to |-> 9, chunk_size |-> 3],
   [mode |-> "own", from |-> 2, to |-> 6, chunk_size |-> 0],
   [mode |-> "append", from |-> 2, to |-> 9, chunk_size |-> 3],
   [mode |-> "append", from |-> 0, to |-> 4, chunk_size |-> 0],
   [mode |-> "hybrid", from |-> 0, to |-> 7, chunk_size |-> 3],
   [mode |-> "hybrid", from |-> 0, to |-> 0, chunk_size |-> 3]}

=============================================================================

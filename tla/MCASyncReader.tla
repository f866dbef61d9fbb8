--------------------------- MODULE MCASyncReader ---------------------------
(* Instances of ASyncReader for TLC: segments of less than a chunk, of one, of
   several and of several and a half, in a file that goes on behind them. *)
EXTENDS ASyncReader

=============================================================================

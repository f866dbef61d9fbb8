------------------------- MODULE MCBufferringWriter -------------------------
(* Instances of BufferringWriter for TLC. *)
EXTENDS BufferringWriter

(* Any size the header comment allows. *)
AnySize == 1..Capacity

=============================================================================

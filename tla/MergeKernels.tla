---------------------------- MODULE MergeKernels ----------------------------
(***************************************************************************)
(* The merges block_indirect_sort is built from (common/util/merge.hpp and *)
(* merge_flow of common/range.hpp), as loops over one memory.  All four    *)
(* take the smaller of the elements at x and y, that at x if they are      *)
(* equal, and put it at out; they differ in where the three lie:           *)
(*   merge         buf1, buf2 and buf_out apart                            *)
(*   merge_half    y behind a gap, which out fills, as large as buf1       *)
(*   uncontiguous  out runs through src1, whose elements are in aux; what  *)
(*                 is left goes on as merge_half into src2                 *)
(*   flow          out runs through rng1, y through rbuf, x through rng2;  *)
(*                 what is left goes on as merge_half into rbuf            *)
(* so elements are read from memory that is written to in the same loop.   *)
(***************************************************************************)
EXTENDS Integers, Sequences, FiniteSets

CONSTANTS
  MergeCalls,  (* [kernel, s1, s2]: two sequences of keys in order         *)
  MIN_CHECK,   (* from how many elements on ends are compared first; 1024  *)
  Vacant       (* memory with nothing in it                                *)

(* merge_flow asserts that its three ranges have the same size. *)
ASSUME KernelAssumption ==
  /\ \A c \in MergeCalls :
       /\ c.kernel \in {"merge", "half", "uncontiguous", "flow"}
       /\ \A s \in {c.s1, c.s2} :
            s \in Seq(Int) /\ \A i, j \in 1..Len(s) : i < j => s[i] <= s[j]
       /\ c.kernel = "flow" => Len(c.s1) = Len(c.s2)
  /\ MIN_CHECK \in Nat
  /\ Vacant \notin [key : Int, from : {1, 2}, nth : Nat]

VARIABLES merge_call, mem, merge_pc,
  x, end_x, y, end_y,  (* what is still to be read                         *)
  out,                 (* where the next goes                              *)
  end_out,             (* where uncontiguous and flow stop                 *)
  next_out             (* and where their merge_half writes                *)

mergeVars == <<merge_call, mem, merge_pc, x, end_x, y, end_y, out, end_out, next_out>>

-----------------------------------------------------------------------------

n1 == Len(merge_call.s1)
n2 == Len(merge_call.s2)

comp(p, q) == mem[p].key < mem[q].key

(* move_forward of [lo, hi) to dst; what is moved stays as it was. *)
Moved(m, dst, lo, hi) ==
  [i \in DOMAIN m |-> IF i \in dst..(dst + hi - lo - 1) THEN m[lo + i - dst]
                      ELSE m[i]]

(* An element knows where it came from. *)
Element(s, from, nth) == [key |-> s[nth], from |-> from, nth |-> nth]

(* size places, with s1 from place lo1 on and s2 from lo2 on.  A free place lies
   between what need not be contiguous. *)
Laid(c, size, lo1, lo2) ==
  [p \in 1..size |->
     CASE p \in lo1..(lo1 + Len(c.s1) - 1) -> Element(c.s1, 1, p - lo1 + 1)
       [] p \in lo2..(lo2 + Len(c.s2) - 1) -> Element(c.s2, 2, p - lo2 + 1)
       [] OTHER -> Vacant]

Layout(c) ==
  LET l1 == Len(c.s1)
      l2 == Len(c.s2)
  IN CASE c.kernel = "merge" -> Laid(c, 2 * (l1 + l2 + 1), 1, l1 + 2)
       [] c.kernel = "half" -> Laid(c, 2 * l1 + 1 + l2, 1, 2 * l1 + 2)
       [] c.kernel = "uncontiguous" -> Laid(c, 2 * l1 + l2 + 2, 1, l1 + 2)
       [] c.kernel = "flow" -> Laid(c, 2 * l1 + l2 + 2, l1 + l2 + 3, 1)

(* Where the kernel finds its arguments: x, y and out.  flow gets the buffer
   as s1, which is its y. *)
MInit ==
  /\ merge_call \in MergeCalls
  /\ mem = Layout(merge_call)
  /\ merge_pc = IF merge_call.kernel \in {"merge", "half"} THEN "check" ELSE merge_call.kernel
  /\ x = 1
  /\ end_x = IF merge_call.kernel = "flow" THEN n2 + 1 ELSE n1 + 1
  /\ y = CASE merge_call.kernel = "half" -> 2 * n1 + 2
           [] merge_call.kernel = "flow" -> n1 + n2 + 3
           [] OTHER -> n1 + 2
  /\ end_y = y + (IF merge_call.kernel = "flow" THEN n1 ELSE n2)
  /\ out = CASE merge_call.kernel = "merge" -> n1 + n2 + 3
             [] merge_call.kernel = "uncontiguous" -> 1
             [] OTHER -> end_x + 1
  /\ end_out = out + n1
  /\ next_out = y

-----------------------------------------------------------------------------

Done(m) == mem' = m /\ merge_pc' = "done"
Pointers == <<x, end_x, y, end_y, out, end_out, next_out>>

(* merge and merge_half, the common beginning: enough elements to look whether
   one is empty or all of one come before the other.  What merge_half has at y
   is in place once x has been moved. *)
XFirst ==
  LET m == Moved(mem, out, x, end_x)
  IN IF merge_call.kernel = "merge" THEN Moved(m, out + end_x - x, y, end_y) ELSE m
YFirst == Moved(Moved(mem, out, y, end_y), out + end_y - y, x, end_x)

XBeforeY == x = end_x \/ y = end_y \/ ~comp(y, end_x - 1)
YBeforeX == comp(end_y - 1, x)

Check ==
  /\ merge_pc = "check"
  /\ CASE (end_x - x) + (end_y - y) < MIN_CHECK -> merge_pc' = "merge" /\ mem' = mem
       [] OTHER -> IF XBeforeY THEN Done(XFirst)
                   ELSE IF YBeforeX THEN Done(YFirst)
                   ELSE merge_pc' = "merge" /\ mem' = mem
  /\ UNCHANGED <<merge_call, Pointers>>

(* merge_uncontiguous: what is in place stays, the rest of src1 goes to aux. *)
Uncontiguous ==
  /\ merge_pc = "uncontiguous"
  /\ IF XBeforeY THEN Done(mem) /\ UNCHANGED Pointers
     ELSE LET src1 == CHOOSE i \in x..(end_x - 1) :
                        comp(y, i) /\ \A j \in x..(i - 1) : ~comp(y, j)
              aux == n1 + n2 + 3
          IN /\ mem' = Moved(mem, aux, src1, end_x)
             /\ x' = aux /\ end_x' = aux + end_x - src1
             /\ out' = src1
             /\ merge_pc' = "fill"
             /\ UNCHANGED <<y, end_y, end_out, next_out>>
  /\ UNCHANGED merge_call

Flow == merge_pc = "flow" /\ merge_pc' = "fill" /\ UNCHANGED <<merge_call, mem, Pointers>>

(* One turn of a loop. *)
Turn ==
  LET takeX == ~comp(y, x)
  IN /\ mem' = [mem EXCEPT ![out] = mem[IF takeX THEN x ELSE y]]
     /\ x' = IF takeX THEN x + 1 ELSE x
     /\ y' = IF takeX THEN y ELSE y + 1
     /\ out' = out + 1
     /\ UNCHANGED <<merge_call, merge_pc, end_x, end_y, end_out, next_out>>

MergeTurn == merge_pc = "merge" /\ x # end_x /\ y # end_y /\ Turn

(* merge moves the rest of either; in merge_half that of y is in place. *)
MergeRest ==
  /\ merge_pc = "merge" /\ (x = end_x \/ y = end_y)
  /\ Done(IF y = end_y THEN Moved(mem, out, x, end_x)
          ELSE IF merge_call.kernel = "merge" THEN Moved(mem, out, y, end_y)
          ELSE mem)
  /\ UNCHANGED <<merge_call, Pointers>>

(* The two that fill a range from x and y, then go on in the next one. *)
FillTurn ==
  /\ merge_pc = "fill" /\ out # end_out
  /\ merge_call.kernel = "uncontiguous" => y # end_y
  /\ Turn

(* The loop of merge_uncontiguous ends when src2 has run out, too: what aux has
   left fills src1, and src2 from its beginning. *)
AuxRest ==
  /\ merge_pc = "fill" /\ merge_call.kernel = "uncontiguous" /\ y = end_y
  /\ LET n == end_out - out
     IN Done(Moved(Moved(mem, out, x, x + n), next_out, x + n, end_x))
  /\ UNCHANGED <<merge_call, Pointers>>

(* The places that have been read, where merge_half begins (and the first that
   has not been). *)
NotRead == y

HalfOut == next_out

FillHalf ==
  /\ merge_pc = "fill" /\ out = end_out
  /\ IF merge_call.kernel = "uncontiguous" THEN y # end_y ELSE x # end_x /\ y # end_y
  /\ out' = HalfOut
  /\ merge_pc' = "check"
  /\ UNCHANGED <<merge_call, mem, x, end_x, y, end_y, end_out, next_out>>

(* merge_flow: all of rng2 has gone to rng1, or all of rbuf. *)
FlowRest ==
  /\ merge_pc = "fill" /\ merge_call.kernel = "flow" /\ out = end_out
  /\ x = end_x \/ y = end_y
  /\ Done(IF x = end_x THEN mem ELSE Moved(mem, next_out, 1, end_x))
  /\ UNCHANGED <<merge_call, Pointers>>

MTerminated == merge_pc = "done" /\ UNCHANGED mergeVars

MNext ==
  \/ Check \/ Uncontiguous \/ Flow
  \/ MergeTurn \/ MergeRest
  \/ FillTurn \/ AuxRest \/ FillHalf \/ FlowRest
  \/ MTerminated

MSpec == MInit /\ [][MNext]_mergeVars

-----------------------------------------------------------------------------

(* The places of the result, in order. *)
Result ==
  LET before == CASE merge_call.kernel = "merge" -> n1 + n2 + 2
                  [] merge_call.kernel = "half" -> n1 + 1
                  [] merge_call.kernel = "uncontiguous" -> 0
                  [] merge_call.kernel = "flow" -> n2 + 1
      gap(k) == IF merge_call.kernel \in {"uncontiguous", "flow"} /\ k > n1 THEN 1 ELSE 0
  IN [k \in 1..(n1 + n2) |-> before + k + gap(k)]

(* A merge ends with every element it was given, once and in order, although
   it writes over what it reads: none is written over before it has been read,
   and what lies between is not touched.  All but merge_flow are stable. *)
MergeRight ==
  LET Before(e, f) ==
        \/ e.key < f.key
        \/ e.key = f.key /\ (e.from < f.from \/ merge_call.kernel = "flow")
        \/ e.key = f.key /\ e.from = f.from /\ e.nth < f.nth
      merged == {Result[i] : i \in DOMAIN Result}
  IN merge_pc = "done" =>
       /\ {mem[p] : p \in merged} =
            {Layout(merge_call)[p] : p \in DOMAIN mem} \ {Vacant}
       /\ \A i \in 1..(Len(Result) - 1) : Before(mem[Result[i]], mem[Result[i + 1]])
       /\ \A p \in ({n1 + 1, n1 + n2 + 2} \cap DOMAIN mem) \ merged : mem[p] = Vacant

=============================================================================

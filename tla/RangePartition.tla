--------------------------- MODULE RangePartition ---------------------------
(***************************************************************************)
(* The two functions of radix_sort/test that find for every key the range  *)
(* it belongs to among sorted delimiters, with vector instructions.        *)
(* range_17_way compares one key at a time with all 16 delimiters and      *)
(* looks for the first that is greater; range_8_way takes four keys at a   *)
(* time down a tree of 7 delimiters.  A 128-bit register is a function     *)
(* from its lanes to numbers; an array starts at 0.                        *)
(***************************************************************************)
EXTENDS Integers, FiniteSets, FiniteSetsExt

CONSTANTS
  Inputs,    (* the calls: variant, delimiters and keys                    *)
  Unwritten  (* an index that has not been found yet                       *)

Lanes == 0..3

(* The keys come in whole registers, and the delimiters in order.  Behind the 7
   delimiters is one more number, which the second load takes along. *)
Calls ==
  {x \in Inputs :
     /\ x.way \in {8, 17}
     /\ DOMAIN x.dels = IF x.way = 17 THEN 0..15 ELSE 0..7
     /\ \A d \in DOMAIN x.dels : x.dels[d] \in Int
     /\ \A d, e \in 0..(x.way - 2) : d <= e => x.dels[d] <= x.dels[e]
     /\ IsFiniteSet(DOMAIN x.keys) /\ Cardinality(DOMAIN x.keys) % 4 = 0
     /\ DOMAIN x.keys = 0..(Cardinality(DOMAIN x.keys) - 1)
     /\ \A k \in DOMAIN x.keys : x.keys[k] \in Int}

VARIABLES
  call,     (* the arguments                                               *)
  beg,      (* the keys already taken, in registers                        *)
  at,       (* the next index to store                                     *)
  key_128,  (* the keys at work                                            *)
  result,   (* range_8_way: the comparisons of each level                  *)
  merged,   (* range_8_way: the delimiters still to choose among           *)
  indices,  (* what is returned                                            *)
  step      (* what comes next                                             *)

rangeVars == <<call, beg, at, key_128, result, merged, indices, step>>

-----------------------------------------------------------------------------
(* The instructions. *)

Zero == [l \in Lanes |-> 0]

load(array, i) == [l \in Lanes |-> array[4 * i + l]]

broadcast(a, lane) == [l \in Lanes |-> a[lane]]

cmpgt(a, b) == [l \in Lanes |-> IF a[l] > b[l] THEN -1 ELSE 0]

blendv(a, b, mask) == [l \in Lanes |-> IF mask[l] < 0 THEN b[l] ELSE a[l]]

add(a, b) == [l \in Lanes |-> a[l] + b[l]]

sub(a, b) == [l \in Lanes |-> a[l] - b[l]]

(* Both halves side by side; 0 and -1 have room in any width. *)
packs(a, b) ==
  LET n == Cardinality(DOMAIN a)
  IN [l \in 0..(2 * n - 1) |-> IF l < n THEN a[l] ELSE b[l - n]]

movemask(a) == {l \in DOMAIN a : a[l] < 0}

bit_scan_forward(bits) == Min(bits)

-----------------------------------------------------------------------------

dels == call.dels
keys == call.keys
Registers == Cardinality(DOMAIN keys) \div 4

RInit ==
  /\ call \in Calls
  /\ beg = 0 /\ at = 0
  /\ key_128 = Zero
  /\ result = [i \in 0..1 |-> Zero]
  /\ merged = [i \in 0..2 |-> Zero]
  /\ indices = [k \in DOMAIN keys |-> Unwritten]
  /\ step = "load"

(* Four keys at a time. *)
LoadKeys(next) ==
  /\ step = "load" /\ beg < Registers
  /\ key_128' = load(keys, beg)
  /\ beg' = beg + 1
  /\ step' = next
  /\ UNCHANGED <<call, at, result, merged, indices>>

(* range_17_way: the first delimiter greater than a key, or 16 (and the packing
   that takes the registers in the wrong order). *)
Interleaved(r) == packs(packs(r[0], r[2]), packs(r[1], r[3]))

Packed(r) == packs(packs(r[0], r[1]), packs(r[2], r[3]))

FirstGreater(key) ==
  LET r == [i \in Lanes |-> cmpgt(load(dels, i), key)]
  IN bit_scan_forward(movemask(Packed(r)) \union {16})

Scan ==
  /\ call.way = 17
  /\ step = "scan"
  /\ indices' = [indices EXCEPT ![at] = FirstGreater(broadcast(key_128, at % 4))]
  /\ at' = at + 1
  /\ step' = IF (at + 1) % 4 = 0 THEN "load" ELSE "scan"
  /\ UNCHANGED <<call, beg, key_128, result, merged>>

(* range_8_way: every delimiter in all lanes of its own register. *)
dels_128(d) == broadcast(load(dels, d \div 4), d % 4)

Root ==
  /\ call.way = 8
  /\ step = "root"
  /\ LET r == cmpgt(key_128, dels_128(3))
     IN /\ result' = [result EXCEPT ![0] = r]
        /\ merged' = [i \in 0..2 |-> blendv(dels_128(i), dels_128(i + 4), r)]
  /\ step' = "child"
  /\ UNCHANGED <<call, beg, at, key_128, indices>>

Child ==
  /\ step = "child"
  /\ LET r == cmpgt(key_128, merged[1])
     IN /\ result' = [result EXCEPT ![1] = r]
        /\ merged' = [merged EXCEPT ![1] = blendv(merged[0], merged[2], r)]
  /\ step' = "leaf"
  /\ UNCHANGED <<call, beg, at, key_128, indices>>

(* The way down, as a binary number. *)
Index ==
  LET top == sub(Zero, result[0])
      middle == sub(add(top, top), result[1])
  IN sub(add(middle, middle), cmpgt(key_128, merged[1]))

Leaf ==
  /\ step = "leaf"
  /\ indices' = [k \in DOMAIN indices |->
                   IF k \in at..(at + 3) THEN Index[k - at] ELSE indices[k]]
  /\ at' = at + 4
  /\ step' = "load"
  /\ UNCHANGED <<call, beg, key_128, result, merged>>

RTerminated == step = "load" /\ beg = Registers /\ UNCHANGED rangeVars

RNext ==
  \/ LoadKeys(IF call.way = 17 THEN "scan" ELSE "root")
  \/ Scan \/ Root \/ Child \/ Leaf
  \/ RTerminated

RSpec == RInit /\ [][RNext]_rangeVars

-----------------------------------------------------------------------------
(* Properties. *)

(* What the test programs print no complaint about. *)
Accepted(key, i) ==
  LET last == call.way - 2
  IN IF i > last THEN key >= dels[last]
     ELSE IF i = 0 THEN key <= dels[0]
     ELSE dels[i - 1] <= key /\ key <= dels[i]

(* Every index stored is the number of delimiters below its own key, whatever
   follows the delimiters in memory.  A key that equals a delimiter counts as
   above it in range_17_way and as below it in range_8_way; the tests accept
   both, also where delimiters are equal. *)
IndexRight ==
  \A k \in DOMAIN keys :
    IF k >= at THEN indices[k] = Unwritten
    ELSE LET Below(d) == dels[d] < keys[k] \/ (call.way = 17 /\ dels[d] = keys[k])
         IN /\ indices[k] = Cardinality({d \in 0..(call.way - 2) : Below(d)})
            /\ Accepted(keys[k], indices[k])

=============================================================================

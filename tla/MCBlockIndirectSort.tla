------------------------- MODULE MCBlockIndirectSort -------------------------
(* BlockIndirectSort with blocks of two elements.  All interleavings of the
   threads for a few inputs, which divide a range, cut a merge, cut a cycle
   and have a tail; and the threads one after the other for merges of two
   halves of thirteen different keys and for larger arrays. *)
EXTENDS BlockIndirectSort, FiniteSetsExt

(* Two sorted halves: the one of the keys in S and the one of the others, for
   every fifth S or so. *)
Ascending(S) ==
  [i \in 1..Cardinality(S) |->
     CHOOSE k \in S : Cardinality({j \in S : j <= k}) = i]
Halves ==
  {Ascending(S) \o Ascending((1..13) \ S) :
     S \in {T \in SUBSET (1..13) : Cardinality(T) = 6 /\ SumSet(T) % 5 = 0}}

Interleaved ==
  {<<<<1, 4, 5, 8, 10, 11, 2, 6, 7, 9, 12, 13>>, 3>>,
   <<<<4, 5, 6, 10, 11, 12, 3, 2, 7, 1, 8, 9, 13>>, 3>>,
   <<<<2, 1, 3, 4, 5, 6, 7, 8, 10, 9>>, 2>>}

(* Four ascending runs, each key between two of another, of 25 / d keys. *)
Woven(d) ==
  [i \in 1..25 |-> LET run == (i - 1) \div 6
                   IN ((((i - 1) - 6 * run) * 4 + (3 - run)) % 25) \div d]

OneByOne ==
  {<<s, 3>> : s \in Halves}
    \cup {<<Woven(1), 5>>, <<Woven(6), 5>>}
    \cup {<<<<2, 1>>, 2>>, <<<<2, 1, 3, 2, 2, 1, 1>>, 1>>, <<<<1, 1>>, 3>>}

Cases == Interleaved \cup OneByOne
MCInputs == {c[1] : c \in Cases}
MCNThreads == {c[2] : c \in Cases}

MCInit == BInit /\ <<input, nthread>> \in Cases

(* One by one: threads from 2 on come when all is done. *)
Running ==
  {t \in AllThreads :
     \/ t = 1 \/ <<input, nthread>> \in Interleaved
     \/ Whole \in DOMAIN counter /\ counter[Whole] = 0}

MCNext ==
  \/ SortAlone \/ Launch \/ GetFutures \/ BTerminated
  \/ \E t \in Running : Step(t)

MCSpec == MCInit /\ [][MCNext]_sortVars /\ BFairness
=============================================================================

---------------------------- MODULE MCKWayMerge ----------------------------
(* An instance of KWayMerge for TLC: combinations of three runs, with ties within
   a run and between runs.  Since the queue is a set, the order of the runs among
   themselves does not matter; three equal runs have too many orders of ties. *)
EXTENDS KWayMerge

Pattern == << <<1, 2, 3, 4, 5>>, <<1, 1, 2, 4, 5>>, <<2, 3, 3, 4, 4>> >>

MCInit ==
  /\ \E p \in [Chunks -> DOMAIN Pattern] :
       /\ \A q, r \in Chunks : q < r => p[q] <= p[r]
       /\ p[0] # p[NChunks - 1]
       /\ runs = [r \in Chunks |-> [i \in Rows |-> Pattern[p[r]][i + 1]]]
  /\ Init

MCSpec == MCInit /\ [][Next]_vars /\ WF_vars(Merge)
=============================================================================

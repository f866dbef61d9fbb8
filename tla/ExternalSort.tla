---------------------------- MODULE ExternalSort ----------------------------
(***************************************************************************)
(* MergeBenchmark::run as a whole: run formation (RunFormation) for all    *)
(* chunks, then the merge (KWayMerge) of what it has left in memory and in *)
(* the temporary files.  Main does both, so that the merge begins when the *)
(* last single_run has returned; nothing but wait_all keeps the tasks that *)
(* store the last run from running into it.                                *)
(*                                                                         *)
(* The merge names a tuple by its run and its place in the run; Run(r) is  *)
(* what the tasks have put there.  merge_buffer stays what single_run left *)
(* in it, and memory is what the merge has read over it since.             *)
(***************************************************************************)
EXTENDS RunFormation

CONSTANT NullPtr

ASSUME SortAssumption == NullPtr \notin Nat

VARIABLES
  mpc,                              (* where main is in the merge           *)
  idx, memory, first_run, from, window, size, tuple_pqueue, min_tuple, output

merge == <<mpc, idx, memory, first_run, from, window, size, tuple_pqueue,
           min_tuple, output>>

allvars == <<vars, merge>>

Merge == INSTANCE KWayMerge
  WITH runs <- [r \in Chunks |-> [i \in Rows |-> KeyOf(Run(r)[i])]],
       pc <- mpc, buffer <- window

(* The merge begins after the last wait_all (and one that begins when the
   last tasks are with the pool). *)
LastTasksAdded ==
  \/ pc = "merge"
  \/ pc = "store" /\ run = NChunks - 1 /\ added = IOThreads + MemThreads

AllRunsStored == pc = "merge"

FormRuns == (Main \/ StartTask \/ \E t \in Tasks : Work(t)) /\ UNCHANGED merge

MergeRuns == AllRunsStored /\ UNCHANGED vars /\ Merge!Merge

Stopped == mpc = "done" /\ UNCHANGED allvars

SortInit ==
  /\ Init
  /\ mpc = "init" /\ idx = 0
  /\ memory = [r \in Chunks |-> [k \in Prefix |-> k]]
  /\ first_run = [r \in Chunks |-> TRUE]
  /\ from = [r \in Chunks |-> 0]
  /\ window = [r \in Chunks |-> NullPtr]
  /\ size = [r \in Chunks |-> 0]
  /\ tuple_pqueue = {}
  /\ min_tuple = 0
  /\ output = <<>>

SortNext == FormRuns \/ MergeRuns \/ Stopped

(* Main, the threads of the pool and their tasks keep running. *)
Fairness ==
  /\ WF_allvars(Main /\ UNCHANGED merge)
  /\ WF_allvars(StartTask /\ UNCHANGED merge)
  /\ \A t \in Tasks : WF_allvars(Work(t) /\ UNCHANGED merge)
  /\ WF_allvars(MergeRuns)

SortSpec == SortInit /\ [][SortNext]_allvars /\ Fairness

-----------------------------------------------------------------------------
(* Properties. *)

(* The tuples of the input file in the order in which they were written. *)
Written == [i \in 1..Len(output) |-> Run(output[i][1])[output[i][2]]]

(* The program sorts the file: it writes a tuple of the input file with the least
   key among those not written yet, every one of them once, and comes to its
   end; whatever the tasks' interleaving and the order of equal keys. *)
FileSort == INSTANCE SortedStream
  WITH key <- input, remaining <- File \ {Written[i] : i \in 1..Len(Written)},
       emitted <- Written, complete <- mpc = "done"

SortsFile == FileSort!MSpec

=============================================================================

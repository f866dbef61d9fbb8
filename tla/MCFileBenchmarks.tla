-------------------------- MODULE MCFileBenchmarks --------------------------
(* The benchmarks besides MergeBenchmark, with every pattern of the keys where
   they matter. *)
EXTENDS RawWrites

Case(bench, size, threads, chunk) ==
  [bench |-> bench, size |-> size, n_threads |-> threads, CHUNK_SIZE |-> chunk]

(* One thread and more; a window as large as the segment, smaller or larger; a
   size that does not divide. *)
MCCases ==
  {Case("FileInMem", 4, 2, 0), Case("FileInMem", 3, 1, 1),
   Case("ColumnStore", 3, 1, 0), Case("ColumnStore", 4, 2, 0),
   Case("ColumnStore", 2, 1, 1), Case("ColumnStoreBW", 4, 2, 1),
   Case("InMemory", 3, 1, 0),
   Case("IO", 4, 2, 3), Case("IO", 3, 2, 0), Case("IO", 2, 1, 1)}

(* Only where something is sorted do the keys matter. *)
MCInit ==
  /\ WInit
  /\ this.bench \in {"IO", "ColumnStoreBW"} => \A i \in Rows : input[i] = 1

MCSpec == MCInit /\ [][WNext]_writeVars

=============================================================================

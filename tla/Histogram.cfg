SPECIFICATION Spec
CONSTANTS
  n_threads = 2
  char_bits = 2
  partition_bits = 3
  TUPLE_SIZE = 3
  PAGE_SHIFT_AMT = 2
  ChunkSizes <- MCChunkSizes
  Files <- MCFiles
INVARIANTS MappedExactly HistogramRight

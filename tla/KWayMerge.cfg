SPECIFICATION MCSpec
CONSTANTS
  NChunks = 3
  ChunkTuples = 5
  BufferTuples = 2
  Keys = {1, 2, 3, 4, 5}
  NullPtr = null
INVARIANTS TypeOK
PROPERTIES QueuedKeysStable ImplementsSort

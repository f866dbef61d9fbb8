SPECIFICATION MCSpec
CONSTANTS
  NChunks = 2
  ChunkTuples = 4
  BufferTuples = 2
  NThreads = 2
  IOThreads = 2
  MemThreads = 1
  Keys = {1, 2}
  None = none
  NullPtr = null
INVARIANTS NoRace RunsSorted
PROPERTIES SortsFile

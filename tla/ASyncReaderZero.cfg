SPECIFICATION Spec
CONSTANTS
  From = 1
  Ends = {5}
  FileSize = 6
  ChunkSize = 0
  MaxErrors = 0
  Word = 64
  Stale = stale
INVARIANTS WholeSegmentRead

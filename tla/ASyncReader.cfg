SPECIFICATION FairSpec
CONSTANTS
  From = 1
  Ends = {2, 3, 8, 9}
  FileSize = 10
  ChunkSize = 2
  MaxErrors = 1
  Word = 64
  Stale = stale
INVARIANTS KernelApart NothingInFlight Retained
PROPERTIES ImplementsStream

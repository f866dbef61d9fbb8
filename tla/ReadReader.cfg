SPECIFICATION FairSpec
CONSTANTS
  Readers <- MCReaders
  FileSize = 9
  MaxErrors = 2
  Word = 64
  Stale = stale
INVARIANTS WithinBuffer Retained
PROPERTIES ImplementsStream

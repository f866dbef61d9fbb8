CONSTANTS
  Inputs <- MCInputs
  NThreads <- MCNThreads
  Block_size = 2
  Group_size = 3
  NTHREAD_BORDER = 3
  max_per_thread = 5
  NoWork = NoWork
SPECIFICATION MCSpec
INVARIANTS NoRace CountersExact ResultSorted
PROPERTY Terminates

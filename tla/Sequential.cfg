SPECIFICATION MCSpec
CONSTANTS
  Inputs <- MCInputs
  Unwritten = none
  SortCalls <- MCSortCalls
  insertion_sort_threshold = 4
  ninther_threshold = 8
  partial_insertion_sort_limit = 1
  MIN_CHECK = 5
  MergeCalls <- MCMergeCalls
  Vacant = vacant
  Free = free
  Addresses = {a1, a2, a3}
  Null = null
  QueueTasks = {t1, t2}
INVARIANTS IndexRight InBounds SortRight MergeRight ListIntact
PROPERTIES ImplementsFifo

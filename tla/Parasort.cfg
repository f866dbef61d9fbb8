SPECIFICATION Spec
CONSTANTS
  np = 3
  Keys = {1, 2, 3}
  MaxSize = 5
INVARIANT Partitioned
PROPERTIES ResultSorted

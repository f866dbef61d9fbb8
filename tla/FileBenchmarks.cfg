SPECIFICATION MCSpec
CONSTANTS
  Cases <- MCCases
  Keys = {1, 2, 3}
  None = none
  MaxThreads = 2
  Wrap = 16
INVARIANTS OutputRight

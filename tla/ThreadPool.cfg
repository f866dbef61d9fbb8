SPECIFICATION FairSpec
CONSTANTS
  Workers = {w1, w2, w3}
  Main = main
  Tasks = {t1, t2, t3}
  None = none
  MaxSpurious = 1
INVARIANTS TypeOK OneOwner WorkConserving NobodyForgotten DrainedAtDestroy
PROPERTIES Barrier ImplementsExecutor

SPECIFICATION FairSpec
CONSTANTS
  Capacity = 5
  Base = 2
  Limit = 10
  Sizes <- AnySize
  MaxErrors = 2
  Word = 32
  Hole = hole
  Stale = stale
INVARIANTS TypeOK InPlace Conserved
PROPERTIES Durable DestructorReturns

SPECIFICATION Spec
CONSTANTS
  Refreshers = {p1, p2}
  Readers = {c1}
  Free = Free
  MaxGen = 3
SYMMETRY Symmetry
INVARIANTS
  TypeOK
  ActiveIsKept
  PairWasCurrent
  OneRefreshIsNoMiss
PROPERTIES
  GenerationsAdvance
CHECK_DEADLOCK FALSE

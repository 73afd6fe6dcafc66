CONSTANTS
  w1 = w1
  w2 = w2
  e1 = e1
  e2 = e2
  Writers <- MCWriters
  Entities <- MCEntities
  Facts <- MCFacts
  Requests <- MCRequests
  MaxClock = 4
  MaxFaults = 1
  MaxCrashes = 1
SPECIFICATION Spec
SYMMETRY WriterSymmetry
INVARIANTS
  TypeOK
  RowsHaveProvenance
  ContradictionsFlagged
  BothSidesDisputed
CHECK_DEADLOCK FALSE

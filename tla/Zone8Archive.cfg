CONSTANTS
  i1 = i1
  i2 = i2
  i3 = i3
  p1 = p1
  p2 = p2
  s1 = s1
  s2 = s2
  NoEntry = NoEntry
  Items <- MCItems
  Payloads <- MCPayloads
  PayloadOf <- MCPayloadOf
  Sweeps <- MCSweeps
  Lists <- MCLists
  MaxFaults = 2
  MaxCrashes = 1
SPECIFICATION Spec
SYMMETRY SweepSymmetry
INVARIANTS
  TypeOK
  RowResolves
  AnnouncedOnce
PROPERTIES
  RowsAreFinal

CONSTANTS
  c1 = c1
  c2 = c2
  Items <- MCItems
  ZoneOf <- MCZoneOf
  Callers <- MCCallers
  Scores <- MCScores
  Cap <- MCCap
  Indexed <- MCIndexed
  Ageing <- MCAgeing
  OfSubject <- MCOfSubject
  MaxFaults = 1
SPECIFICATION FairSpec
INVARIANTS
  TypeOK
  GoneIsNotFound
  ReportedMeansDone
PROPERTIES
  BackInBounds
CHECK_DEADLOCK FALSE

SPECIFICATION FairSpec
CONSTANTS
  s1 = s1
  Subjects = {s1}
  Items <- MCItems
  SubjectOf <- MCSubjectOf
  KindOf <- MCKindOf
  Shapes = {"A", "B"}
  Calls = {1, 2}
  MaxFaults = 2
INVARIANTS TypeOK CompletedMeansErased
PROPERTY AskedIsErased
CHECK_DEADLOCK FALSE

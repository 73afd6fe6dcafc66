SPECIFICATION Spec
CONSTANTS
    s1 = s1
    i1 = i1
    j1 = j1
    j2 = j2
    c1 = c1
    Subjects = {s1}
    Items = {i1}
    SubjectOf <- MCSubjectOf
    Archived = {i1}
    Jobs = {j1, j2}
    Calls = {c1}
    MaxRetries = 2
    MaxMints = 2
    MaxCrashes = 1
    MaxFaults = 1
    VolatileStores = FALSE
    SharedConnection = FALSE
    OverlappingSweep = TRUE
INVARIANTS
    TypeOK
    ClosedMeansShredded
    ReturnedMeansErased
SYMMETRY JobSymmetry
\* Every call may have returned and no marker be left to recover.
CHECK_DEADLOCK FALSE

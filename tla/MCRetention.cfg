SPECIFICATION FairSpec
CONSTANTS
    Subs = {s1, s2}
    MaxVersion = 2
    MaxFiles = 3
    Requests = {r1, r2}
CHECK_DEADLOCK FALSE
INVARIANTS
    TypeOK
    CopiesStay
PROPERTIES
    PurgeCompletes

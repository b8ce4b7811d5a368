SPECIFICATION Spec
CONSTANTS
    Records = {i1}
    Runs = {r1, r2}
    Workers = {w1}
    Reviewers = {w1, w2}
    Admins = {q1}
    Nothing = Nothing
    MaxDeliveries = 2
CHECK_DEADLOCK FALSE
INVARIANTS
    TypeOK
    OnlyDecidedIsExcluded
    BegunOnce
PROPERTIES
    ExclusionShows
    RunsEnd
    SubmissionEnds

SPECIFICATION Spec
CONSTANTS
    Venues = {a, b}
    Requests = {q1}
    ShortlistSize = 2
    MaxText = 1
    MaxTime = 4
INVARIANTS
    NewVenuesAreMatched

SPECIFICATION Spec
CONSTANTS
    a = a
    b = b
    s1 = s1
    s2 = s2
    Venues = {a, b}
    MaxPlans = 1
    MaxVersion = 2
    MaxPositions = 1
    Subs = {s1, s2}
    VenueOf <- MCVenueOf
    Requests = {r1, r2}
    MaxUploads = 2
SYMMETRY RequestSymmetry
CONSTRAINT PlanOrTransfer
INVARIANTS
    TypeOK
PROPERTIES
    ChangeEmptiesDrafts
    PlannedTextStays
    OnlyDeclinedTransfers
    PlanStaysLegal

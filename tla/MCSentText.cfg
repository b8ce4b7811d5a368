SPECIFICATION Spec
CONSTANTS
    a = a
    b = b
    s1 = s1
    s2 = s2
    Venues = {a}
    MaxPlans = 1
    MaxVersion = 1
    MaxPositions = 1
    Subs = {s1}
    VenueOf <- MCVenueOf
    Requests = {r1, r2}
    MaxUploads = 2
PROPERTIES
    SentTextStays

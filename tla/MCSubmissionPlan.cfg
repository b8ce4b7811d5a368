SPECIFICATION Spec
CONSTANTS
    Venues = {a, b}
    MaxPlans = 2
    MaxVersion = 2
    MaxPositions = 2
SYMMETRY VenueSymmetry
INVARIANTS
    OneLivePosition
    QueueKeepsItsOrder
    DeclineIsAnswered
    OneActivePlan
PROPERTIES
    SeenVersionOnlyGrows
    KeepsPromise

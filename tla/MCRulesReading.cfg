SPECIFICATION Spec
CONSTANTS
    Items = {i1}
    Pages = {p1, p2}
    Discoverers = {w1}
    Indexers = {w2}
    None = None
SYMMETRY RowSymmetry
INVARIANTS
    TypeOK
    DifferencesWait
PROPERTIES
    ReadingDecidesNothing

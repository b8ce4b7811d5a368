SPECIFICATION Spec
CONSTANTS
    Claims = {c1, c2, c3}
    Records = {j1}
    MaxVenues = 3
    Requests = {r1, r2}
    None = None
SYMMETRY Symmetry
INVARIANTS
    OneEditorPerJournal
    ApprovedClaimOwns
PROPERTIES
    ConfirmedKeepsEditor
